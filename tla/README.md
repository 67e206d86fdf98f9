# go-dnp3 in TLA+

A verification development for `github.com/dscsystems/go-dnp3`, a DNP3
(IEEE 1815) master and outstation in Go. The modules model the library from the
channel a connection comes from to the value a master's handler is told; TLC
checks them on small instances, and TLAPS proves the main facts about the event
buffer, the channels, the link layer, the shared line and the controls for every
instance.

## The system and its parts

An application talks to a **master** (`master/`) or an **outstation**
(`outstation/`). Each runs one goroutine per session, which owns all protocol
state, over a connection that a **channel** provides (`channel/`), possibly
shared with other sessions through a **multidrop** bus. A reader goroutine moves
octets from the connection to the session, whose **stack** (`internal/stack`)
finds link frames in them (`internal/link`), acknowledges and deduplicates
those, and puts fragments together from their payloads
(`internal/transport`). A fragment carries a request or a response
(`internal/app`) made of objects (`objects/`).

| Part | State | What makes it hard |
|---|---|---|
| Event buffer | queue of events, selection, overflow and drop counters | called from two goroutines; a selection has no owner; it overflows while a response holds events |
| Outstation session | response in progress, awaited confirmation, last request, indications, unsolicited state, deferred read | repeats, superseding requests, late confirmations, timeouts, reconnects, restarts |
| Database, freezes | points, what their deadbands are measured from, arrays of strings, the schedule | long sequences of small changes; ticks that come late |
| Responses, dispatch | runs of objects, fragments, base times | widths, boundaries, clocks that go back |
| Commands, authentication | selection; keys, challenges | order, number, time and source must match; repeats |
| Files | the one handle, the place in the file | repeats, one step of several failing, callers that cancel |
| Master scheduler | submission channel, queue, task in flight, chain, start-up flag | cancellation, reconnects, key exchanges in the middle of a chain |
| Link layer, transport, stack | reset state, count bits, retries, flow control, partial fragment | losses, stale acknowledgements, restart of one side, wrap-around |
| Framing | the parser's buffer | damaged frames, arbitrary chunks |
| Channels, readers | listener and its deadline, the Connect that runs | cancellation and closing at any moment |
| Multidrop bus | the line, its holder, stations' connections | a turn that ends in the middle of an exchange, lines that break |

## Modules

| Module | Models | From |
|---|---|---|
| `EventBuffer` | each method of the buffer as an operator | `outstation/eventbuffer.go` |
| `EventLifecycle` | the abstract promise: an event is queued, offered, and acknowledged only while offered | the comment on `EventBuffer` |
| `SharedBuffer` | the buffer as a state machine, its methods called in any order; refines `EventLifecycle` | `outstation/eventbuffer.go` |
| `SharedBufferProofs` | theorems about `SharedBuffer` | |
| `Outstation` | the session's handlers as operators on a session record | `outstation/session.go`, `unsolicited.go`, `response.go` |
| `Reporting`, `MCReporting` | outstation, master, connection and application composed; the setups of the runs | `Outstation`, `master/session.go` |
| `Transport`, `LinkLayer`, `Stack` | segmenter and reassembler; primary and secondary; the stack's handlers, as operators | `internal/transport`, `internal/link`, `internal/stack` |
| `LinkTransfer`, `MCLinkTransfer` | two stacks and the line between them | `Stack`, the timers of `master/session.go` |
| `LinkInvariants`, `LinkTransferProofs` | theorems about `LinkTransfer`: the invariant and what a step preserves of it; what the handlers do, and the results | |
| `Framing` | frames, the parser and the loop that feeds it | `internal/link/frame.go`, `parser.go`, `crc.go`, `stack.Receive` |
| `Channels` | Connect and Close of every kind of channel, with the accept's watchdog | `channel/` |
| `ChannelsProofs` | theorems about `Channels` | |
| `Intake`, `MCIntake` | sessions that come and go, their readers, and the parser, on top of `Channels` and `Framing` | `Run`, `serve`, `readInto` of both sessions |
| `Multidrop`, `MCMultidrop` | the bus, its pump, the stations' connections, the arbiter; the replies of the run | `multidrop/multidrop.go`, `conn.go`, `arbiter.go` |
| `MultidropProofs` | theorems about `Multidrop`: frames, holds and turns | |
| `Tasks` | callers, scheduler, task in flight, chains, scans, start-up, keys | `master/task.go`, `session.go`, `api.go`, `security.go` |
| `Controls`, `MCControls` | commands of several masters, with keys and challenges | `master/command.go`, `outstation/command.go`, both `security.go` |
| `ControlsProofs`, `OutcomeProofs` | theorems about `Controls`: selections and keys; outcomes and challenges | |
| `Files` | file transfers of several masters to one handle | `master/file.go`, `fileapi.go`, `outstation/file.go`, both `file_auth.go` |
| `Objects` | the variations: width, flags, time, clamping | `objects/` |
| `Database` | points, events, strings | `outstation/database.go`, `extended_database.go`, `dataset.go` |
| `Responses` | how a read is answered, laid out, and turned back into measurements | `outstation/response.go`, `internal/app`, `master/dispatch.go` |
| `Station`, `MCStation` | requests, updates, freezes and clocks of a device; the devices of the run | `outstation/session.go`, `freeze.go` |

**Handlers as operators.** A session's goroutine runs a handler to its end
before it looks at the next input, so a handler is one atomic step. It is
written as an operator from the record of the session's fields before the call
to the record after it, under the Go name, and calls compose as they do in the
code. What other goroutines do is an action of its own, split where the code's
steps can be separated: `RestartStore` and `RestartReset`; the places inside
`acceptOnce` and its watchdog; acquire, write and observe on the bus, each under
its own lock.

**Time.** A deadline has passed or has not. A timeout while nothing is under way
is always possible; one that overtakes an answer is a bounded disturbance. Only
`Station` and `Tasks` have a clock, because freezes, time offsets and schedules
compare times.

**Data.** In the protocol modules an event is its number, kind and selection, a
fragment body the set of events in it, a segment a fragment and a position, a
request its function, number and objects, a MAC what it covers, an octet of a
file who wrote it. The kind of an event is its class, and in `SharedBuffer` may
stand for its class and type: `DoSelect` takes any set of kinds, those of some
classes (`Select`) or those of one type (`SelectType`). Reads in `Outstation`
are by class. In `Objects`, `Database` and `Responses` values, widths,
flags, indexes and times are what matters, so they are kept, with an octet of
`Octet` values instead of 256, and sizes in octets as in the program. In
`Framing` an octet is a number, the ten octets of a link header are three, and a
CRC is a mark no other block has.

**Disturbances.** `Multidrop`, `Tasks`, `Controls` and `Files` take the set of
things that may go wrong (`Disturbances`) and how often (`MaxDisturbed`).
`Reporting`, `LinkTransfer` and `Station` choose a setup in `Init`, so that one
run covers several.

**History.** Variables such as `confirmed`, `delivered`, `acked`, `log`,
`landed`, `opened`, `told` and `was` record what happened. No guard reads them.

**Variants.** Some definitions are preceded by a variant with a defect. No
specification uses one; substituted for the definition it precedes, it makes a
property fail, which shows that the property depends on that code.

## Runs

| Run | Shows |
|---|---|
| `event_buffer` | the buffer's methods in every order: every event is in one place (`Accounted`), losses are counted (`DropsCounted`), events are handed out oldest first (`OldestFirst`), and the buffer implements `EventLifecycle` |
| `reporting` | polls, writes, unsolicited responses and restarts, with losses, verbatim repeats, several fragments to a response, early timeouts, a second connection and overflow: nothing confirmed that was not delivered (`NoSilentLoss`, `ConfirmsOnlyDelivered`), no selection left behind (`SelectedAreHeld`), one confirmation for events at a time (`OneConfirmation`), a refusal told in every fragment of its response and, once that is finished, in no other (`ErrorsReported`), an overflow told before it is cleared (`OverflowIsTold`) |
| `unsolicited` | every reportable event is reported in the end (`EventuallyReported`) |
| `link` | fragments arrive whole (`WholeFragments`), in order and once (`InOrderOnce`); completed means accepted (`CompletedAccepted`); the stack does not stay busy (`SendEnds`) |
| `multidrop` | one master's turn at a time, which nothing meant for another ends (`OneTurn`), no dead connection holding the line (`DeadHolderWrites`), no reply from another line (`OwnLineOnly`), a turn for everyone (`TurnComes`), everything ends after `Close` (`ClosesDown`) |
| `master` | a call has one task and hears of it once (`HeldOnce`, `CallsReturn`), the start-up flag is never orphaned (`StartupUnderWay`), scans stay scheduled (`ScansKept`), chained requests have adjacent numbers (`PairsAdjacent`) |
| `controls` | a selection is operated at most once and as it was selected, repeats and delays included (`OperatedAsSelected`), success means every output moved (`SuccessMeansMoved`), one control per challenge (`OneControlPerChallenge`), no old key back in force (`KeysAgree`) |
| `files` | success of a write or a read means the whole file (`WriteMeansWhole`, `ReadMeansWhole`), and the handle is released (`HandleReleased`) |
| `station` | the master's handler is told the events as they were raised and the points as they are (`EventsTold`, `PointsTold`), deadbands hold over any sequence (`DeadbandHolds`), freezes keep their schedule (`FreezesOnSchedule`) |
| `intake` | frames do not depend on how octets were cut (`FramesAsSent`), no connection is leaked (`NoneLeaked`), no accept meets an old deadline (`FreshDeadline`), no `Connect` and no reader stays blocked (`NothingBlocked`) |
| `v_reconnect`, `v_select` | disagreements, below |

**Bounds.** `reporting` and `unsolicited`: three events over a buffer of two make
overflow happen with a response outstanding; two or three requests make
superseding, repeating and deferring happen; one loss and one early timeout
reach every retry path with `MaxRetries = 1`; a read between a timeout and the
retry would take a second loss. `Refusing` has refused reads that are answered
in two fragments, superseded and repeated. Some setups exclude an early timeout
or a loss because of the disagreements below. `link`: a segment counter
of 3 instead of 64 and up to two lost frames, with fragments of up to three
segments against a limit of two, so that the counter wraps and the limit is
passed. `multidrop`: two masters and an outstation, one of them absent, replies
of one fragment in two frames or of two fragments, and a queue of one, so that a
queue fills, a hold is extended and one ends before its reply does; one
disturbance of nine kinds, unsolicited frames and writes amid a reply among
them. `master`: one caller, one scan and the start-up sequence compete for the
session, with two disturbances of ten kinds; the calls are a single request, one
without a reply, a chain that goes on only after a good answer and one that
always goes on, which is all the scheduler can tell apart. `controls`: two
masters, two calls, keys that last one message, one disturbance, a refused
authorization among them. `files`: files of one block or of one and a part, with
blocks bounded by the outstation's fragments, so that there is a last block and
one before it; two calls of any two masters; one disturbance of nine kinds, such
as a handler that refuses or fails at any step or a key that expires. `station`: five devices with three
changes each; an octet has four values, so that index 4 needs a second octet, a
16-bit counter wraps at 16 and a relative time reaches 15. `intake`: three
connections, blocks of three octets, reads of one octet, five or as many as fit,
streams with a frame inside a damaged frame and one longer than the parser's
buffer. Application numbers keep their modulus of
16.

Deadlock is checked in `event_buffer` and `intake`. The other runs switch it off
because their environment is bounded and may stop; what must go on there is
stated as a liveness property.

**Fairness.** Each condition is a timer or a channel of a `select` loop that the
code is bound to serve. `Reporting`: a session reads what has arrived, its 50 ms
ticker fires, deadlines pass, and the master handles what it receives.
`LinkTransfer`: the same of the line, the link timer and the keep-alive timer.
`Multidrop`: goroutines that can run do, holds lapse, and a device sends what it
owes; a hold lapses amid a reply only as often as disturbances allow. The
conditions are spelled out there (`SessionDue`, `PumpDue` and so on) in place of
`ENABLED`.
`Tasks`: the session connects, takes submissions, receives, and its timer fires;
an outstation answers what reaches it. `Files`: what is under way arrives, and
timeouts pass once nothing is. `Intake`: a Connect that is certain to be woken
goes on, watchdogs run, a session that was cancelled or has lost its reader
leaves `serve`, a reader hands over what it can or sees its context end, and a
blocked `Read` of a closed connection returns. That a reader ends is not assumed:
one whose chunk nobody takes goes on only because `serve` ends its context.
Losses, early timeouts, restarts,
cancellations and requests are not fair, and are bounded.

## Proofs

`SharedBufferProofs` proves, for every capacity, every set of classes and any
number of events:

- `BufferTyped`: `Spec => []TypeOK`, including that the capacity is never exceeded;
- `EventsAccounted`: `Spec => []Accounted`;
- `LossesCounted`: `Spec => []DropsCounted`;
- `BufferImplementsLifecycle`: `Spec => ImplementsLifecycle`;
- `SelectsOldestFirst`: `Spec => OldestFirst`, an action property.

The inductive invariant is `Inv`, the conjunction of `TypeOK`, `Accounted` and
`DropsCounted`. Neither of the last two is inductive alone: that `Add` gives out
a number nobody holds needs that all held numbers are at most `nextSeq`, that
`drops` grows by the number of events lost needs that lost and held numbers are
disjoint and that numbers identify events, and the capacity needs the set of
events to be finite and the evicted event to exist. `OldestExists` gives that
last fact from a least-element argument on finite intervals of numbers. Each
method either changes marks only (`MarkingPreservesInv`), only removes events
(`RemovingPreservesInv`), or is `Add` (`AddPreservesInv`). The refinement maps a
change of marks to `Offer` or `TakeBack` and a removal to `Acknowledge` or
`GiveUp`. The assumptions are `MaxEventsAssumption` and `SharedBufferAssumption`.

`ChannelsProofs` proves, for every set of kinds and any number of connections:

- `ConnectionsHeld`: `Spec => []NoneLeaked`;
- `DeadlinesFresh`: `Spec => []FreshDeadline`.

`NoneLeaked` says nothing about where in `Connect` a connection may be held, so
a step could drop one it does not know of. `Holding` adds that a `Connect` holds
one only between the step that makes it and the step that hands it over or
closes it, and runs only while the session has none. `FreshDeadline` needs
`Watching`: the watchdog lives only as long as the accept it belongs to, which
is what waiting for `exited` before clearing the deadline achieves. The
assumption is `MaxPeersAssumption`.

`MultidropProofs` proves, for any masters, outstations, connections, replies,
queue sizes and disturbances:

- `FramesOfTheirLine`: `Spec => []OwnLineOnly`;
- `DeadHoldersWrite`: `Spec => []DeadHolderWrites`;
- `TurnsAlternate`: `Spec => []OneTurn`.

`Inv` joins the types with three facts. `Attached`: a session's newest
connection is its only live one. `Lines`: the bus, the pump, the frames that
wait, the frame being handed out and the current connections agree on one line,
so that a frame read before a break cannot reach a connection made after it.
`Held`: a hold is one of a master's newest connection, and if that was torn down
its session is inside `Write`. `OneTurn` is about the history `turn`, which a
connection enters when it is let transmit and leaves at the events that end its
turn for the line: a frame with FIN routed to it, its turnaround, a write that
expects nothing, its end or that of the bus. `TurnHeld` ties it to the arbiter:
whoever has a turn is the holder, and its hold has not lapsed. It fails as soon
as `observe` or `release` acts on a hold that is another's. No reply, late frame
or disturbance is excepted. The assumptions are `KindsAssumption` and
`StationsAssumption`.

`ControlsProofs` proves, for any masters, outputs, commands, limits, numbers and
disturbances:

- `SelectionsOperateOnce`: `Spec => []OperatedAsSelected`;
- `SessionKeysAgree`: `Spec => []KeysAgree`.

It first reduces every handler to what it may do. A step of the
outstation carries out a request (`Ran`), sends a key status (`Told`) or does
neither (`Quiet`). A step of a master lets its session rest, ends the call, asks,
changes its keys or answers a challenge (`Moves`). `StepCases` says there is
nothing else but the end of the connection. `Selected` then ties the selection to
the log: while it is active, the last select or operate carried out is the select
that made it. The keys need `Numbered`, `UserKeys` and `MasterKeys`: a key change
answers a numbered status, and the status that follows a change taken is newer
than every change under way. So none of those is taken any more, and a status that
covers the master's last change shows that the outstation has that key.

`OutcomeProofs` proves, with the same generality:

- `SuccessIsMovement`: `Spec /\ [][NumbersFree]_vars => []SuccessMeansMoved`;
- `ChallengesUsedOnce`: `Spec /\ [][NumbersFree]_vars => []OneControlPerChallenge`.

`NumbersFree` is a condition on steps: a master takes a sequence number again
only when nothing is left of its request that had it before, neither a fragment
under way, nor an open challenge, nor the request that the outstation compares
repeats with. It is needed because there are sixteen numbers and nothing else in
an answer or a repeat tells two requests of one master apart: an answer that is
delayed for a whole round is taken for that of the later request. In the run no
master makes as many requests as there are numbers, so that it always holds
there. Sequence numbers of challenges do not come round in the model. `Inv2` adds
to `Inv` that every request under way, challenged or carried out is one its
master made, and the last one if it has the last number (`Requests`, `Entered`);
that a good answer under way or remembered under the number a master is at means
its request was carried out (`Responses`, `Remembered`); that challenges and
replies under way are to challenges made, a reply that fits the open one having
been given for the request it is about (`Offered`, `Replies`); and that no control
was carried out for the open challenge or one to come (`Challenges`). `Inv2` was
checked with TLC for one master with three calls and two numbers, so that they do
come round. The assumption of both modules is `ControlsAssumption`.

`LinkInvariants` and `LinkTransferProofs` prove, for fragments of any number and
length, any limits, and any number of losses, restarts, new connections and uses
of flow control:

- `CompletedWereAccepted`: `Spec => [](Punctual => CompletedAccepted)`;
- `DeliveredInOrder`: `Spec => [](Punctual => InOrderOnce)`;
- `DeliveredWhole`: `Spec => [](Punctual /\ FewLosses => WholeFragments)`.

`Punctual` says that, where link confirms are in use, no link timeout has struck
while an answer was under way. Acknowledgements carry no count bit, so that one
that comes too late is taken for that of the next frame; the run has no such line
either. `FewLosses` says that, where they are not in use, fewer frames were lost
than there are segment numbers: after a whole round of losses a later segment has
the number that is due.

`Steps` first reduces the handlers of both stacks to what they may do (`Step`): a
sender rests, repeats, gives up, probes, sends one segment or all of them; a
receiver answers without passing anything up, or takes a segment, which the
reassembler drops or grows by. `Inv` then has a part for each kind of line. With
link confirms, `Alone`: one frame or its reply is under way, and the reply fits
what the sender waits for. `Bits`: the secondary's count bit tells whether it has
passed up the segment that waits. `Continues`: a partial fragment goes on with the
segment the sender is at, unless that starts a fragment; this is what makes it
safe that a repeated segment is dropped by its bit. `Linked`: as long as the
receiver does not restart, a link the primary takes to be up is up. Without them,
`Gaps`: the numbers under way run from the one that arrives next to the
segmenter's, and the partial fragment is that far behind as frames were lost. For
both, `Fragments`: what is under way is cut from what was sent; and `Ordered`: what
may still start to arrive comes after what was delivered. The invariant was
checked with TLC first, on lines with every kind of disturbance. The assumptions
are `TransportAssumption` and `LinesAssumption`.

Only model-checked:

- all liveness: fairness and `ENABLED` are out of the prover's reach;
- the properties of `Station`, and `FramesAsSent`: what `Responses`, `Database`
  and `Framing` compute is recursive, and induction over data is out of reach;
- `NoSilentLoss`, `SelectedAreHeld`, `OneConfirmation`,
  `ErrorsReported`, `ConfirmsOnlyDelivered` and `OverflowIsTold` of
  `Reporting`, which hold for the setups of the run and, because of the
  disagreements below, not for every combination of disturbances;
- the properties of `Tasks`, whose queue is filtered and sorted by folds, and of
  `Files`.

## Disagreements with the code's own comments

Two are runs of the project; the others come with a configuration that shows
them. `tlc -config v_X.cfg M` finds the property violated.

| Configuration, module | Where | What |
|---|---|---|
| `v_reconnect`, `MCReporting` (run) | `outstation/session.go:645` | a new connection resets the unsolicited state but not the selection: the events of a response that awaited its confirmation stay selected, and any later confirmation removes them |
| `v_select`, `MCControls` (run) | `outstation/command.go:153` | an operate is carried out under another master's select, which came in between: the source is not compared |
| `v_late_fragment`, `MCReporting` | `master/session.go:698` | the master confirms a fragment without FIR that it throws away before a series has begun; if it belongs to an earlier response, the outstation removes events nobody received |
| `v_flow_control`, `MCLinkTransfer` | `master/session.go:421` | `stack.go:188` says sending resumes by itself after flow control, through the keep-alive probe; `checkKeepAlive` does not probe while the stack is busy, and a stack with a held fragment is |
| `v_errors`, `MCReporting` | `outstation/session.go:1807` | a response that is superseded before its last fragment leaves its request error indications set, and the next response reports a refusal that was not its request's |
| `v_exchange`, `MCMultidrop` | `multidrop/multidrop.go:540` | a reply is queued for its session before the arbiter observes it: the session's next request can go out in between, the observation then ends the new hold, and a second master transmits into the exchange |
| `v_periodic`, `Tasks` | `master/session.go:573` | a periodic scan that waits behind a key exchange is lost when the exchange fails; `api.go:71` says failures do not stop it |
| `v_octets`, `MCStation` | `outstation/database.go:598` | an octet string event shares its array with the point; a shorter or equally long update changes the text of the event that waits |
| `v_freeze`, `MCStation` | `outstation/freeze.go:101` | a repeating freeze asked for again after it was due and before the tick that runs it is scheduled twice |
| `v_clock`, `MCStation` | `outstation/session.go:1334` | a clock written between RECORD_CURRENT_TIME and the time that refers to it makes the elapsed time wrong |
| `v_clamped`, `MCStation` | `objects/convert.go:30` | an analog variation without flags carries a clamped value with nothing to mark it |
| `v_udp`, `MCIntake` | `channel/udp.go:237` | closing a datagram view does not unblock its reader, which may take a datagram meant for the next connection |

Met with the same modules under other constants, or while reading:

- A read between the timeout of an unsolicited response and its retry is not
  deferred (`unsolicited.go:192`): with two losses `NoSilentLoss` fails in the
  setup `Mixed`.
- A broadcast read selects events and sends nothing (`session.go:1710`): a read
  template with `bcast = "optional"` makes `NoSilentLoss` fail in `Polling`.
- A fragment that waits for a busy link is sent when the acknowledgement comes.
  When the link gives up instead, nothing on the tick takes it up again
  (`session.go:761`), and the response waits until the next request supersedes
  it.
- `rejectMalformed` answers without abandoning the response in progress
  (`session.go:1043`).
- When the link refuses an unsolicited response, no retry requeues its events,
  against the comment at `unsolicited.go:291`: `SelectedAreHeld` excepts the
  session that has lost its connection this way.
- `applyRestart` starts the unsolicited numbers again on a live connection
  (`session.go:506`), so that new events can go out under the number the master
  saw last: with a loss, an early timeout and no link confirms
  `ConfirmsOnlyDelivered` fails in `Restarting`.
- Acknowledgements carry no count bit: with a link timeout shorter than the round
  trip a second acknowledgement of one frame completes the next, lost one, and
  `CompletedAccepted` fails on a confirmed line with an early timeout.
- On the bus a hold may end before its exchange does: with the first fragment of
  several (`arbiter.go:82`), with an unsolicited or other frame with FIN routed to
  the holder while its reply is still to come (`multidrop.go:549`), and with a link
  acknowledgement or confirm the holder writes amid a reply (`conn.go:194`).
  `HalfDuplex`, which says that no two devices have replies to send, fails for
  each, with `Replies <- MCReplies` or the disturbance `unsolicited` or `amid` in
  `v_exchange.cfg`, and for `late`. `OneTurn` says what remains: the turn of one
  master is never ended by what was meant for another.
- `Registry.Release` unlocks before it closes the bus (`registry.go:143`); its
  comment says a later `Open` would return a closed bus, which `Open` prevents.
- `SyncTimeWithDelay` takes its first time stamp when the task is handed over,
  not when it is sent (`api.go:146`), so that waiting in the queue counts as
  transit.
- A cancelled `WriteFile` may still be committed: the chain in flight goes on.
- The deadband's base moves even while the point is in no class
  (`database.go:61`); after a class assignment a poll of several classes can
  deliver a point's events out of order; an event without a time in a variation
  with absolute time is told as 1970.

## Not modelled

- **Registry of buses** (`multidrop/registry.go`): a reference count under one
  mutex. What its one unlocked step exposes, two buses on one device, is what the
  package's comment warns of (`multidrop.go:41`); whether the second opening is
  refused then is up to the operating system.
- **Silence of a peer**: a master's keep-alive probe that goes unanswered ends the
  connection (`peerSilent`, `master/session.go:406`). In `LinkTransfer` the
  connection may be replaced at any time (`Reconnect`), so that this is one of
  its occasions.
- **Attributes, activation, stored applications** (`outstation/services.go`,
  `attribute.go`, `master/attribute.go`): each request is one call into the
  application and leaves no protocol state; their transport is that of every
  request in `Outstation` and `Tasks`.
- **Directories, permissions and path resolution** of the file handler: the file
  system's behaviour, not the protocol's.
- **Octet-level parsing of malformed application data** (`internal/app`): an
  unbounded input space that the repository's fuzz tests search better; the
  handlers' reaction to an object section that does not parse is in `Outstation`.
- **Cryptography and the CRC polynomial**: a MAC and a CRC are what they cover.
- **Channel details**: retry intervals, which peer a datagram channel answers,
  and the in-memory pipe used by tests.
- **Code generator, decoder, command-line tools, conformance harness**: display,
  user interface and build time; about two fifths of the lines of the repository.
