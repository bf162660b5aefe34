# A TLA+ verification project for FBxConnect

FBxConnect is an Android application that talks to FB1100/FB1200 flow computers
over DNP3. The repository holds the application itself (five activities, about
1500 lines of Java) and the protocol stack it runs on: opendnp3 and its asio
executor, in C++ (`app/src/main/cpp/libs`, about 62000 lines), with Java bindings.
The application opens a TCP client channel, adds a master and scans every two
seconds; everything that is concurrent, lossy or timed happens in the stack, and
this project models it from the channel up to both application layers. Paths below are relative to
`app/src/main/cpp/libs/src` unless they name Java files.

Contents: [inventory](#inventory), [plan](#plan), [modules](#modules),
[runs](#runs), [bounds](#bounds), [fairness and timing](#fairness-and-timing),
[proofs](#proofs), [findings](#findings), [limits](#what-is-not-covered).

## Inventory

Every channel has one asio strand. All handlers of all layers of its stacks run
on it one at a time, in the order they were queued, so a handler is one atomic
step; concurrency is the order of handlers, the handlers that are already queued
when something else is cancelled, and the peer. User threads enter through
blocking posts to the strand.

| Part | State | Operations | Hard behaviour | What makes it correct |
|---|---|---|---|---|
| `asiopal/Executor`, `openpal/executor/TimerRef` | one timer pointer per TimerRef, queued handlers | Start, Cancel, Restart, Post | Cancel does not remove a handler that is queued | users must survive a stale handler |
| `opendnp3/link` LinkContext, LinkLayer, Pri/SecLinkLayerStates | primary and secondary state, frame count bits, retry counter, two buffers, two pending slots, two timers | OnLowerLayerUp/Down, Send, OnFrame, OnTxReady, two timeouts | two stations share one transmitter; lost frames and ACKs; retries; loss of the channel in any state | frames accounted for, buffers not overwritten, waits always end, data passed up once and in order |
| `opendnp3/link/LinkLayerParser` | shifting byte buffer, parse state | OnRead, Reset | resynchronisation, re-entrance from the frame it delivers | accepts exactly the well-formed frames |
| `opendnp3/transport` | online and sending flags, segment count and sequence, receive buffer, expected sequence | BeginTransmit, OnReceive, OnTxReady, up/down | interleaved sources, lost segments, wrapping numbers, the posted completion | whole fragments, in order, at most once; never stuck sending |
| `asiodnp3/IOHandler` and TCP/serial/TLS handlers | sessions, transmit queue, channel, retry timer | Enable, Disable, Remove, OnNewChannel, read/write completion | several sessions on one channel, reconnection, replacement | no completion credited to another transmission, one connect at a time |
| `asiodnp3/DNP3Channel`, `DNP3Manager`, `asiopal/ResourceManager` | resource sets, a mutex | create, Shutdown, Detach | a mutex held while blocking on the strand | shutdown ends |
| `opendnp3/outstation` OContext, OutstationStates | state, sequence numbers, deferred request, request history, selection | requests, confirms, timeouts, unsolicited responses | confirm racing timeout, repeated requests, one deferred slot | events reported at least once, a control executed once |
| `opendnp3/outstation/event` | ordered event list with states, counters per class | Update, Select, Write, ClearWritten, Unselect | overflow while a response awaits its confirm | counters agree with the list, cleared means confirmed |
| `opendnp3/outstation` database | static values and selections | update, select, load | selection across several fragments | every selected value written once |
| `opendnp3/master` MContext | task state, active task, confirm queue, sequence numbers | Run, OnReceive, timeouts, OnTxReady | answers after the timeout, confirms of an old connection | a task ends exactly once |
| `opendnp3/master` scheduler, tasks | task set, current task, two timers | Schedule, Add, Demand, SetRunnerOffline | blocked and expired tasks, offline runners | no runnable task starves |
| `opendnp3/app`, `opendnp3/gen`, `dnp3decode` | none | parsing and formatting | byte formats | (not state machines) |
| `PlateActivity.java` | position, remembered origins, screen | Next, Previous, Cancel | origins read several screens after they are set | Previous undoes Next; screen and answers agree |
| `EFMActivity`, `GasActivity`, `ReportActivity`, `MainActivity`, `Globals` (Java) | chosen dates and stations, the shared master | pick, toggle, report, connect | construction before the context is attached | a report only for a valid choice |
| Java and .NET bindings, code generator, vendored asio | - | conversion, generation | - | out of scope |

The calls go down as `BeginTransmit` (application to transport), `Send` (transport
to link) and `BeginTransmit` (link to IOHandler), and come up as `OnFrame`,
`OnReceive`, `OnTxReady`, `OnLowerLayerUp` and `OnLowerLayerDown`. All are direct
calls within one handler except one: the link layer's `CompleteSendOperation`
posts `upper->OnTxReady`. `PROJECT.json` lists the hazards this structure brings,
each at its line.

## Plan

1. **Link layer** - `TimerRef`, `LinkContext`, `LinkLayer`, `LinkPair`, `LinkLayerProofs`,
   `LinkPairProofs`. *Done.*
2. **Transport layer and its composition with the link layer** - `Transport`,
   `FragmentChannel` (abstract), `Reassembly` (refines it), `TransportStack`,
   `ReassemblyProofs`, `TransportStackProofs`. *Done.*
3. **The plate wizard**, the application's one stateful workflow - `PlateActivity`,
   `PlateActivityProofs`. *Done.*
4. **Event buffer** - `EventStorage`, `EventBuffer`, with their proofs in `OutstationProofs`.
   *Done.*
5. **Outstation** over the event storage - `OutstationContext`, `Outstation`,
   `OutstationProofs`. *Done.*
6. **Master**: tasks, scheduler and contexts - `MasterTasks`, `MasterContext`, `Master`,
   `MasterProofs`. *Done.*
7. **Channel**: IOHandler and its three subclasses - `IOHandler`, `IOHandlerProofs`. *Done.*
8. Left: master and outstation composed over the fragment channel, with the property
   that an event is reported at least once and cleared only when confirmed;
   ResourceManager as two threads, a mutex and a strand; the parser over an abstract
   byte stream.

## Modules

| Module | Models | Notes |
|---|---|---|
| `TimerRef` | TimerRef.cpp, Executor::Start | a timer is active or not, and has expired or not; `stale` counts handlers that were queued before a Cancel and still run |
| `LinkContext` | LinkContext.cpp, Pri/SecLinkLayerStates.cpp, LinkFrame.cpp | one record holds the context; each member function is an operator from context to context, so that one handler is one step whatever it calls |
| `LinkLayer` | LinkLayer.cpp | one endpoint, one action per handler, in an environment that may send every well-formed frame at any time |
| `LinkPair` | two LinkContexts, IOHandler's queue | a lossy channel that keeps the order, restarts, reconnection, keep-alives |
| `MCLinkLayer`, `MCLinkPair` | - | instances for TLC |
| `LinkLayerProofs` | - | proofs about `LinkLayer`, what each handler of `LinkContext` keeps, and how two contexts keep in step |
| `LinkPairProofs` | - | proofs about `LinkPair` |
| `Transport` | TransportLayer.cpp, TransportTx.cpp, TransportRx.cpp | operators on three records |
| `FragmentChannel` | what the application layer may rely on | abstract: deliver any later submitted fragment, whole |
| `Reassembly` | several TransportTx into one TransportRx | links without confirmation; segments are lost and interleave |
| `TransportStack` | TransportStack.cpp: transport on link at both ends | the link holds a pointer to the transmitter, so a fragment configured early replaces the segments under it |
| `MCReassembly`, `MCTransportStack` | - | instances for TLC |
| `ReassemblyProofs` | - | proofs about `Reassembly`, the refinement of `FragmentChannel` included |
| `TransportStackProofs` | - | proofs about `TransportStack` |
| `EventStorage` | outstation/event: EventLists, EventUpdate, EventSelection, EventWriting, EventStorage, ClazzCount, List | operators on one record: the aggregate list, the lists by type, the counters; events are numbered in the order they were recorded |
| `EventBuffer` | EventBuffer.cpp | the buffer alone, under every order of its operations |
| `OutstationContext` | OutstationContext.cpp, OutstationStates.cpp, RequestHistory, DeferredRequest, ControlState, TimeSyncState, ResponseContext, the selections of DatabaseBuffers | extends `EventStorage`; each member function is an operator from context to context |
| `Outstation` | the calls into OContext | one action per call: layer up and down, requests, confirms, rejected messages, updates, timer handlers |
| `OutstationProofs` | - | lemmas about the operators of `EventStorage`; proofs about `EventBuffer` and `Outstation` |
| `MasterTasks` | IMasterTask and its subclasses, TaskBehavior, TaskPriority | what a task is and what a response means to it |
| `MasterContext` | MasterSchedulerBackend.cpp, MContext, MasterTasks.cpp, TaskContext | scheduler and contexts call each other, so they are one record |
| `Master` | the calls into both, and the clock | several masters on one channel |
| `MasterProofs` | - | proofs about `Master` |
| `IOHandler` | IOHandler.cpp, TCPClientIOHandler.cpp, TCPServerIOHandler.cpp, SerialIOHandler.cpp, TCPClient.cpp | one record; the subclass is chosen by `mode` in the initial state |
| `IOHandlerProofs` | - | proofs about `IOHandler` |
| `MCEventBuffer`, `MCOutstation`, `MCMaster` | - | instances for TLC |
| `PlateActivity` | PlateActivity.java | position, origins, screen, radio buttons |
| `PlateActivityProofs` | - | proofs about `PlateActivity` |

How state and code correspond: the record fields of `LinkContext` keep the names of
the C++ members. Frames are records with the fields of LinkHeaderFields; their bytes
and checksums are abstract, and `Frame` has only the headers that reach the layer (`WellFormed`, the
parser's ValidateHeaderParameters). Segments are model values or numbers in the link
models and records with flags, number and bytes in the transport models. `tx` is the
IOHandler's queue for the session; going down empties it, as IOHandler::Reset does.
`clobbered` records that a buffer was formatted while something still referred to
its bytes.

In the outstation and master models requests and responses are records of what their
handlers tell apart: function, sequence number, flags, and what the objects ask for
once parsed. Decisions taken outside the context (how many objects fit the fragment,
whether the application accepts, whether a user's request can be built) are arguments
chosen by the action. Master times are the time left until an instant, so that the
clock needs no bound: 0 is now or earlier, `Never` the maximum timestamp. Fields that
only record what happened (`owed`, `awaited`, `asked`, `operated` of the outstation,
`told` and `owed` of the master) are listed in the modules' headers and read by no
operation. Mutated forms of an operator stand before it and are named in
`PROJECT.json`; they are plausible errors that the properties must notice.

## Runs

`PROJECT.json` gives each run's module, configuration and properties; `tlc -config X.cfg M`
repeats it.

| Run | Question | Result |
|---|---|---|
| `link_layer` | Does an endpoint keep its books under every sequence of frames, sends, timers and channel events, as an outstation with confirms that answers any source and as a master without confirms? | holds, unless a keep-alive handler ran while the layer was down |
| `link_pair` | Is data passed up at most once and in order, is what was acknowledged passed up, and is every send completed and reported, over a lossy channel with restarts? | holds |
| `reassembly` | Does the transport layer implement the fragment channel, and lose nothing that arrived complete? | holds |
| `transport_stack` | Is a sending transport layer always owed a completion? Is a fragment under way never replaced, and does it arrive whole, with confirms and reconnections, of a client and of servers of both accept modes? | holds; the second but for connections that came up with a completion of an earlier one still queued, and its last part as long as no segment's retries ran out |
| `transport_gave_up` | Is a fragment whole also after retries ran out? | violated: two fragments are joined |
| `event_buffer` | Do lists and counters describe the same events whatever is dropped, and is an unwritten event lost only with an overflow reported? | holds |
| `outstation` | Is there one transmission at a time, does every wait have a timer, does a confirm clear only what it confirms, is a repeated command executed once, and is nothing reportable or deferred left behind? | holds |
| `outstation_octets` | Does a READ answer only what it asks for? | violated for octet strings |
| `master` | Do scheduler and masters agree on the running task, is every task in one place and reported once, is every wait owed an event and every runnable task a wake-up? | holds |
| `master_live` | Is every submitted command and scan reported back, unless the outstation goes on for ever with fragments that are not the last? | holds under the fairness below |
| `io_handler` | Is a session up exactly while it is enabled and there is a channel, and is something under way whenever a channel is wanted or frames are queued? | holds for all three subclasses |
| `plate_wizard` | Does Previous undo Next, and do the checked answers explain the position? | holds |

Deadlock is checked in every run but `io_handler`: the handler really stops after Shutdown.
The models of finite scripts end in
a `Done` step that requires everything sent, nothing under way and nothing owed, so a stack
that stops early is reported as a deadlock. What must not stop in the others, where the
environment can always do something, is stated as an invariant (`NothingLeftWaiting`,
`WaitsForSomething`, `WillWakeUp`, `NothingStalls`).

## Bounds

- Link endpoint: two addresses (its own, which as a source also plays the stranger, and
  the configured peer's), sends of two segments, `NumRetry` 0 or 1, at most one
  completion waiting and one stale handler per timer. The environment is
  unconstrained, so all states of both stations meet all frames; two segments make
  "there is another one" and "that was the last" both happen, one retry makes
  "retry" and "give up" both happen.
- Link pair: a message of two segments against one of a single segment the other way, one
  retry, and one disturbance: a restart, a reconnection or a keep-alive. Two
  segments on one connection exercise both values of the frame count bit; several
  messages in a row are in `transport_stack`.
- Reassembly: two bytes to a segment, fragments of 1, 5 and 7 bytes (one, three and
  four segments), a buffer of 5 bytes: one fragment fits exactly, one overflows.
  Eight sequence numbers come round within three fragments. `MaxLostFirst`, the
  number of fragments in a row whose first segment is lost, is needed because
  TransportRx ignores a wrong number and keeps waiting: with more losses the
  numbers come round and a later fragment completes an earlier one. The real
  values (64 numbers, 9 segments in a fragment of 2048 bytes) allow 6. The assumption
  `NoWrapAssumption` states this; with five numbers instead of eight TLC finds the
  joined fragment.
- Transport stack: one byte to a segment, fragments of one and three segments, up to
  three fragments, two lost or replaced connections (a completion can then outlive its own
  connection and meet the next one, which can be lost in turn), four sequence numbers, a
  client and servers of both accept modes.
- Event buffer: three types with lists of two, one and none, so that one list overflows while
  another has space and one takes no events at all; five updates, three classes, every selection and every number of
  events written.
- Outstation: one event type with two events, three static cells of which two are octet
  strings, one object to a fragment (so that answers take several fragments), two
  sequence numbers, three requests, two updates, one loss of the connection and one
  stale handler. READs of both numbers and one request of every other kind make repetitions and new requests differ;
  three are needed for SELECT, OPERATE and its repetition, or for a READ, its
  interruption and another READ.
- Master: two masters, one with a start-up integrity poll and a command, the other with a
  periodic poll; complete, multi-fragment, unparsable and wrongly numbered responses
  (unsolicited ones are in `master_live`); one queued confirm, one loss of a layer, one handler at a time
  that outlives a Cancel. A response with a wrong number is tried in every state
  whatever `SeqMod` is, so `SeqMod` is 1. `master_live` has one
  master with a start-up integrity poll, a command and an ad hoc scan, responses of which one
  is a fragment from the middle (FIR and FIN clear), and two sequence numbers; the start timeout
  passes while another task runs.
- IO handler: three sessions, four queued frames, two dropped clients, one stale retry
  handler, all three subclasses and both accept modes.
- The wizard has no bounds: all of its states are visited.

No symmetry is used: addresses and stations play different roles.

## Fairness and timing

`LinkPair`'s specification assumes weak fairness of `Progress(n)` for each endpoint:
its strand runs queued handlers, its channel completes writes and hands over what
arrives, its response timer expires. That is what the executor provides as long
as the process runs. Nothing is assumed of the channel: frames may be lost for ever.

`Master`'s `FairSpec` assumes weak fairness of the clock, of posted checks, of the handlers
of timers whose time has come, and of the completion of a transmission while the layer
below is up (the transport stack's `CompletionOwed` and the link pair's `SendCompletes`
are what justify the last). Nothing is assumed of the outstations, which may never
answer, of the application, or of the layers below coming up. The response timer is special: each
fragment that is not the last cancels it and starts it anew, so it need not expire however
fair the executor is. Its handler is therefore fair only if fragments of that master's
response do not arrive for ever (`NextFragment`), and `SubmittedCompletes` names the same
escape: the code puts no limit on the number of fragments, and an outstation that never
sends the last one keeps a scan, and all tasks behind it, waiting. Without the escape TLC finds
that behaviour.

The pair and the stack assume patience: a response timer expires only when nothing is
under way that could still answer (`Timeout` exceeds the round trip; the default is
one second). Acknowledgements of DNP3's link layer carry no number, so a late one
would be taken for the next request's, and nothing could be promised. The endpoint
model `LinkLayer` makes no such assumption. A keep-alive period exceeds the response
timeout, and reopening a serial line takes longer than the bytes under way.

`TransportStack` has one session, enabled throughout, and takes the order of completions and
connections from the strand. A TCP client begins to connect in the handler that lost the
connection, so its connect handler is queued behind every completion posted before. A TCP
server keeps an accept outstanding: the end of one connection and the accept of the next may
both be queued before the handler that posts the completion has run. In the mode `CloseNew`,
`Connected` therefore comes at any time after the loss, and in the mode `CloseExisting`
`NewChannel` also replaces an open connection in one handler. `late` says that the present connection
came up with a completion of an earlier one still queued; it is exactly these connections
that `SendRejectedWhileSending` and `FragmentsIntact` except.

## Proofs

`LinkLayerProofs` proves, for every configuration, every set
of segments and addresses and every bound:

- `EndpointTypeCorrect`: the context keeps its type; in particular the retry counter never
  passes zero.
- `BuffersSafe`: no buffer is formatted while its bytes are in use.
- `TimerWhileWaiting`: the primary station waits for an answer exactly while its
  response timer is active, stale handlers included.
- `SegmentsSafe`: every state that dereferences the segments has some.
- `WorkNotLost`: the primary station is not idle while a send or keep-alive waits.
- `FramesAccountedFor` and `DownIsQuiet`: every frame is accounted for exactly once while the
  layer is up, and a layer that is down keeps nothing; except after a keep-alive handler
  has run while the layer was down (`orphaned`, see the findings), and then until the
  layer goes down again.

The properties are not inductive one by one: that a buffer is free when a frame is
formatted follows from the station not being in a transmit-wait state, which follows
from the accounting of frames, which a handler breaks and repairs several times before
it returns. The invariant `Full` is therefore stated of contexts: `Base` (type, channel
against mode, no buffer overwritten, primary accounting, timer exactly in waits,
segments where they are used), the secondary station's accounting, and no lost work. Each
operator of the primary station has a lemma that takes a context ready for it to one in
`Base`, together with `Kept`, what it leaves alone of the secondary station; one lemma per
handler composes them. For the last two theorems `Session` adds what holds of a layer
that is up (the awaited frame is in the channel) or down; `Orderly` is `Full` together with
`Session` while the layer is not orphaned. Going down restores `Session` from any state.

Assumed are only `SegmentAssumption`, `ConfigAssumption` and `SendSetAssumption`.

`LinkPairProofs` proves `PairTypeCorrect`, `DeliveredOnce` and `AckMeansDelivered` of two endpoints over
a lossy channel, for every two configurations with confirms, every script and any number of
retries and disturbances. The argument takes one direction at a time: the primary station of an endpoint, the
secondary station of its peer and the frames between them. `Direction` is the invariant.
The half of it that needs no history, `Exchange`, is about any two link contexts; it is in
`LinkLayerProofs`, where `TransportStackProofs` finds it too, and says that the two stations keep in step.
`OneUnderWay`: of a request and its answer at most one frame exists, in a buffer, in the channel
or on a wire; this is what patience gives, and what makes an acknowledgement without a number
unambiguous. `Matching`: that frame belongs to what the primary station is doing. `States`: which
states go with a reset link and with segments. `InStep`: the frame count bits differ only while a
segment waits for its acknowledgement, as long as the sender has not given up. One lemma per
handler of `LinkContext` says what the handler does to the two stations (`Pri`, `Sec`), and one per such step that it
keeps `Exchange`. `LinkPairProofs` adds the history. `Order`: what was passed up precedes all that
is still to come, with one exception, the segment under way, and of that the frame count bits
differ if it has arrived. `Arrived`: the converse, as long as the sender has not given up. Neither property is
inductive without the bits, and the bits not without the frames under way. Assumed are `NodeAssumption` (two
ends), `PairConfigAssumption` (confirms on) and `ScriptAssumption` (segments are numbered in the
order they are sent, so that order can be stated).

`PlateActivityProofs` proves `AnswersAgree` and `WayBack`. fromShutin and toDone are stale at
most positions; the invariant says at which positions they are not (`Measured`,
`Changed`), that the checked answers agree with them there, and along which trail of
positions Previous will lead back.

`OutstationProofs` first proves the four properties of the event buffer (`BufferTypeCorrect`,
`ListsAlwaysAgree`, `CountersAlwaysAgree`, `NothingLostSilently`) for every set of types and all
capacities, 0 included. The invariant is `SInv`: the record is
well typed, every list by type is the part of the aggregate list of that type and within
its capacity (`Lists`), and every counter is the cardinality of the events it counts
(`Counters`). Lists and counters depend on each other: that the counter of a dropped event
can be decremented follows from the event being in the list, and that an update finds a
free node follows from the capacity. Each operation has a lemma that takes a storage in
`SInv` to one in `SInv`, from lemmas on cardinalities of differences and disjoint unions. The
outstation uses the same lemmas, and those on what each operation does to the written events.

`IOHandlerProofs` proves all three properties of the handler for every set of sessions and
all bounds. `Base` is the type with `SessionsFollowChannel` and the part of `NothingStalls`
about the queue; it is inductive. That a wanted channel is always on its way is not: a retry
handler must also find its client. `Trying` adds that a TCP client whose sessions are enabled
and that has no channel has not been dropped, which is why the retry that a late handler
makes on a dropped client (the hazard at TCPClientIOHandler.cpp:98) does not leave an
enabled session stranded.

`OutstationProofs` proves all properties of the outstation for every database, every set of
requests and all bounds. For `TimerWhileWaiting`, `OneAtATime` and `NotExecutedTwice`, `CInv` is stated of contexts, as handlers
call several member functions before they return. `Accounting`: a transmission is owed
exactly while isTransmitting is set, and only while online. `Waiting`: a state that awaits
a confirm has an active timer, and of a solicited wait the last request was a READ. The
second part is what makes the first inductive: the repetition of a request that is not a
READ cancels the timer and keeps the state, which would strand a waiting outstation if it
could happen there. `Commands`: an executed request is still in the history with the
sequence number that the repetition test compares, so the same bytes cannot reach the
command handlers again.

For `TypeCorrect`, `OnlySentIsCleared` and `NoWakeupLost` a second invariant, `DataInv`, carries the
event storage's `SInv` through the handlers. `Sent` is the second theorem's property; it needs that
nothing is marked written when a series of fragments begins (`UnselectWrites`, `ClearWrites`), so
that what is written on entering a wait is what the fragment carries, and that an update only
removes events. `Settled` is the third's, and is what every
handler ends with: CheckForTaskStart serves the deferred request and then looks for events to
report, and that it finds none because there are none follows from the counters being exact
(`Counters`). `OctetsAreTheException` delimits the finding about octet strings: in a database
without them `OnlyAskedIsSelected` always holds.

`MasterProofs` proves all five invariants of the master for every set of masters and tasks, all
periods and all bounds. The operators pass one record of scheduler and masters on, and the
invariant `Good` is stated of such a record. `Agree`: a master's active task is the scheduler's
current one or none. `Contexts`: every master's state has the transmission or the timer that ends
it. `Once`: every task is counted where `EachTaskOnce` says. `Online`, the strengthening that makes
these inductive: nothing of a master that is offline is queued or running, which is why a layer
that comes up may add its recurring tasks without doubling one, and why a task that is started
has a master that can send. `Wake`: with no check posted, both timers are set early enough. While a
task completes the invariant is broken: the completion is reported, a confirm may be
transmitted, and only then does the scheduler let the task go. `Keeps`, `Completed` and `Ended`
relate the record in the middle of a handler to the one it began with. That there is
a first start time for the start timer to be set to uses that the natural numbers are
well founded.

`ReassemblyProofs` proves the three safety properties of `Reassembly` for any set of sources, all
sizes of fragments, segments and buffer, any number of sequence numbers and of fragments:
`TypeCorrect`, `CompleteIsPassedUp` and, as a refinement, `TransportImplementsChannel`: a step that
accepts a fragment is a Submit, the arrival of a last segment that completes one is a Deliver, and
every other step leaves the channel's variables alone. The heart of the invariant is `Behind`: a
receiver that holds part of a fragment is d segments behind its sender, counted in sequence
numbers. With d = 0 the part and what is left to send are the sender's fragment. Otherwise
every segment but a first one has a number the receiver does not expect, because d stays below
the number of sequence numbers: it is at most the segments of the fragments whose first
segment was lost since one arrived (`Window`, at most `MaxLostFirst` times the greatest number of
segments), and `NoWrapAssumption` says that one more fragment still fits. `Gapless` says the same
from the sender's side, of a fragment of which everything so far has arrived: the receiver
holds exactly that, as long as it fits. Fragments are told apart by their bytes, so the
position of a delivered fragment is unique (`MarkedApart`). `BoundsAssumption` says that no
fragment is empty; TransportLayer::BeginTransmit refuses those.

Assumed is what the modules' named ASSUMEs say: finite sets and natural bounds.

`TransportStackProofs` proves `StackTypeCorrect`, `CompletionIsOwed` and `NeverReplaced`, for every two
configurations, with and without confirms, and all sizes of fragments and segments. That a sending
transport layer is owed a completion is a statement about every way in which the link layer can drop its
segments: after the last one is written or acknowledged, after a final timeout, after a link reset
that failed, when the connection is lost. `Completes` says it of a handler: the segments are still held, or
one more completion is posted. It is shown of each operator of the primary station, given what
`LinkLayerProofs` keeps. `Agree` adds what makes `NeverReplaced` inductive: a link layer that holds the
transmitter has a transport layer that is sending and, on a connection that is not `late`, no completion
posted, so the completion that ends a send is its own. That `late` tells every other connection apart
is itself part of the invariant: it is set exactly when a connection comes up over a posted completion, a
layer that is down holds no segments, and the next loss begins afresh. For the type, Segmentation's recursive function has to exist and end: the lemma
`Induction` is induction over the natural numbers stated of sets, from the well-foundedness of strict inclusion of
finite sets, and `Unrolling` applies it. Assumed are `EndsAssumption`, `SegmentsAreTpdus`,
`LengthsAssumption` (no fragment is empty), `ReconnectAssumption` and `TransportAssumption`.

`TransportStackProofs` also proves `FragmentsArriveIntact`: where both ends confirm (`BothConfirm`),
`FragmentsIntact` holds for all sizes of fragments, segments and receive buffer, every modulus of the sequence
numbers and any number of connections. Confirmation is a hypothesis because the statement is false without it:
only the sequence numbers then guard reassembly, and they come round after `SeqModulus` lost segments
(`Reassembly` is about those links). The invariant `FragInv` is `Exchange` in both directions together with
`Carried`: the receiver's buffer and the payload the transmitter has left make up the fragment
submitted last (`Joins`), counted from the segment after the current one if the frame count bits say that the
receiver has that one already (`Come`); or the receiver holds nothing, and takes no segment but a first one.
Neither half is inductive alone: the bits say what a
repeated segment does to the receiver, and the transmitter's position says what an acknowledgement
moves on from. A lost connection makes the two ends' states trivial (`Resting`) and keeps what was passed up, whatever
the mode and whatever is still queued; on a `late` connection only `Told` is kept, what was passed up on the connections before it, and its loss
brings `FragInv` back. After a final timeout `Carried` claims nothing about the fragment under way, and the fragments passed
up from then on are the ones that finding 1 is about.

Only model-checked: liveness and everything under fairness (`SendCompletes`,
`SubmittedCompletes`), which TLAPS cannot prove.

## Findings

1. *Two fragments are joined after a final timeout* (`transport_gave_up`). The frame count bit
   and the transport sequence number are both left at the abandoned segment. If that
   segment had arrived and only its ACKs were lost, the next fragment's first segment
   is dropped as a repetition and its second one completes the abandoned fragment.
   Only with link confirms, which are off by default.
2. *Octet strings stay selected* (`outstation_octets`). DatabaseBuffers::Unselect, which a READ
   calls to forget an abandoned one, has no line for octet strings.

Disagreements met while modelling that have no run of their own: they follow from a few lines,
no line of the repository rules them out, or a property's proviso states them. Most are hazards in
`PROJECT.json`:

- OnKeepAliveTimeout does not test isOnline. If its handler was queued when OnLowerLayerDown
  cancelled the timer, it starts the timer again and may start a transmission without a
  channel, after which the layer comes up in a state that waits for a completion nobody
  reports. `OfflineQuiet` and `TransmitAccounting` except these behaviours (`orphaned`).
- A completion outlives its connection. CompleteSendOperation posts upper->OnTxReady, and nothing
  ties it to the connection. With a TCP server the loss of one connection and the accept of the
  next can be queued before it; the layers go down and up, the next send begins, and the old
  completion ends it. The transport layer then accepts another fragment and configures the
  transmitter the link layer is still sending from, against "Check that while we're sending, all
  other send requests are rejected" (TestTransportLayer.cpp:184). With
  ServerAcceptMode::CloseExisting one handler does both. With `SendAlwaysRejected` in the place of
  `SendRejectedWhileSending` TLC shows it in 14 states. A serial port is reopened in the handler that
  lost it, which has the same effect, but it is not among the channels of `TransportStack`.
- An overflow is reported for ever where some type has no capacity. The indication is cleared when
  no list is full, and a list without nodes always is (List.h:260). A capacity of 0 is the default of
  EventBufferConfig for every type, and EventUpdate.h:43 says that such lists don't cause an
  overflow.
- A blocked task runs when every task is blocked or disabled.
- A retry handler that outlives the Cancel of its timer dereferences a dropped client.
- Both confirm timers use unsolConfirmTimeout (OutstationContext.cpp:351), although
  solConfirmTimeout is documented in OutstationParams.h:50; the models have no durations
  there.
- The first measurement of the plate wizard is labelled as the second on the way back.

## What is not covered

- Disabling one of several sessions while its frame is in the IOHandler's queue: the link
  models empty the queue whenever a layer goes down, and `IOHandler`, which keeps it, knows
  frames by their session only.
- User threads that disable and enable a stack while a completion is queued, and a second
  TCPClient left over from an earlier enable, could break the order that `TransportStack` takes
  from the strand for a client.
- Frame bytes, checksums and the parser's resynchronisation; statistics and logging.
- Destinations other than the configured peer in the pair and the stack. In particular the
  repeated link reset that goes to config.RemoteAddr (PriLinkLayerStates.cpp:215) is part
  of `LinkContext` but no property is about it.
- A foreign peer that acknowledges resets and rejects all data, against which the sender
  retries without bound.
- Master and outstation together: each is checked against every message of the other, which
  shows what each keeps by itself, not what the two achieve.
- Contents: values, flags, variations and formats of objects, deadbands, freezes, file and
  analog conversions. The application layer's parsers and generated enumerations
  (`opendnp3/app`, `opendnp3/gen`, `opendnp3/objects`) are stateless conversions of bytes
  and make up most of the library's lines; so do the bindings for Java and .NET.
- `MasterSchedulerBackend::Shutdown`, which nothing in the library calls, and the shutdown
  of channels and managers (`ResourceManager`), where two threads and a mutex meet a strand.
- `LinkSession`, the TLS channels, the remaining activities, the code generator and the
  vendored libraries.
