# Verification of the LCLS-II data acquisition

TLA+ models of the parts of `psdaq` that decide whether data are taken,
built into events, recorded and handed on correctly, and of psana's parallel
event loop that reads them, the TLC runs that check them on
small instances, and TLAPS proofs of what matters most for every instance.
Paths below are relative to the repository (`src/`).

## 1. The system

LCLS-II records detector data at up to 1 MHz. A data acquisition (DAQ)
partition is a set of processes:

* **DRPs** (`psdaq/drp`) read out one detector each. A reader thread takes DMA
  buffers, worker threads process them, a collector thread sends a summary (a
  *contribution*) of each pulse to a trigger event builder.
* **TEBs** (`psdaq/psdaq/eb/teb.cc`) build the contributions to a pulse into an
  event, decide whether it is kept, and send the result to the DRPs, which
  write their data to files.
* **MEBs** (`psdaq/psdaq/monreq`) build full events for monitoring.
* **psana** (`psana/psana/psexp`) reads the files of a run with many MPI ranks:
  one reads the small data, some build events, the others process them.
* **Control** (`psdaq/psdaq/control/control.py`) leads all of them through the
  states of a run; the **timing system** (XPM) carries triggers and
  transitions to the detectors.

| Component | State | Operations | Interacts by |
|---|---|---|---|
| Event builder core (`EventBuilder.cc`, `EbEvent.cc`, `EbAppBase.cc`) | pending epochs and events, lookup tables, free lists | receive a batch, insert, flush, fix up, time out, clear | RDMA writes from DRPs; calls `process(event)` of TEB or MEB |
| Control (`control.py`) | state machine, clients, recording flag, slow update flag | transitions in two phases, setstate, setrecord, slow updates, chunk requests | ZMQ with clients, EPICS puts to the XPM, HTTP to the logbook, three threads of its own |
| Collection client (`Collection.cc`, `PGPDetectorApp.cc`) | subscription, life cycle of the process | handlers of the messages, answers, asynchronous reports | ZMQ with control, inproc socket from the data threads |
| SPSC queue (`spscqueue.hh`) | ring, two indices, terminate flag | push, pop, shutdown, startup | shared memory of two threads |
| DRP readout (`PGPDetector.cc`, `drp.cc`) | memory pool, DMA buffers, worker queues | read, process, collect, return buffers | SPSC queues, TebContributor |
| TEB contributor (`TebContributor.cc`, `EbCtrbInBase.cc`) | batch in work, pending queue | batch, post, match results to inputs | RDMA to and from TEBs |
| EbReceiver (`DrpBase.cc`, `FileWriter.cc`) | open files, chunk state, last index | write, chunk, report, return buffers | called with results; inproc messages |
| TEB (`teb.cc`) | result batch, monitoring buffer lists | decide, batch results, choose monitoring buffers | RDMA |
| Monitoring (`MebContributor.cc`, `monReqServer.cc`, `psalg/shmem`) | buffer lists, shared memory | request, deliver, release | RDMA, message queues |
| psana's parallel loop (`node.py`, `eventbuilder.pyx`) | chunks, batches, history of steps per client, waiting ranks | request, answer, send missing steps, end | MPI messages |

What is hard here: contributions of one pulse come from many sources with any
skew, are lost, or come after a timeout; control's answers are told apart only
by an ID that phase 2 does not know beforehand; puts and answers time out and
take effect later; two more threads act on control's state; the queues between
threads are lock-free until they are empty; results of several TEBs overtake
each other; a slot of the pool is reused as soon as its DMA buffers are back;
files are opened by one thread, written by a second and closed by a third; a
transition that fails half way is tried again. The properties that make each part
correct are listed with the runs below, the hazards, each at its line, in
`PROJECT.json`.

## 2. Modules

| Module | What it is |
|---|---|
| `EventBuilder` | event builder core with contributors as its environment |
| `EventBuilderProofs` | TLAPS proofs about it |
| `Control` | control, its clients, the XPM and the logbook, composed in one module since they interact at every step |
| `ControlProofs` | TLAPS proofs about it |
| `SPSCQueue` | the ring buffer on x86 memory |
| `Fifo` | what the ring buffer promises |
| `SPSCQueueProofs` | TLAPS proofs, the refinement included |
| `Readout` | reader, workers, collector, pool and the return of buffers in a DRP |
| `ReadoutProofs` | TLAPS proofs about it |
| `Results` | a DRP's inputs on their way to the TEBs, and the results back |
| `ResultsProofs` | TLAPS proofs about it |
| `Recording` | files and chunks of a DRP, with control and the timing stream |
| `RecordingProofs` | TLAPS proofs about it |
| `Monitoring` | MEBs, TEBs, DRPs and shared memory: buffers for monitored events |
| `MonitoringProofs` | TLAPS proofs about it |
| `ParallelRun` | the ranks of psana's parallel event loop |
| `ParallelRunProofs` | TLAPS proofs about it |

They follow the data: a frame is read (`Readout`), its event goes to a TEB,
which builds it (`EventBuilder`) and answers (`Results`); it is written
(`Recording`) and shown to a client (`Monitoring`), and the file is read
(`ParallelRun`). Each module takes what its neighbours promise as its
environment: `Results` takes from `EventBuilder` that a TEB builds complete
events in pulse order, `Readout` from `Results` that inputs come back in order,
`Recording` from `Readout` that datagrams come in the order of the stream, and
its control moves as `Control` does.

Definitions marked "Slip:" are wrong variants of a definition. They are in no
specification; substituted for the right one, each makes the property it is
paired with in `PROJECT.json` ("mutants") fail.

### EventBuilder

`pending` is the set of pulses with an event on the list, `remaining[p]` is
`EbEvent::_remaining`, `epochs` the epochs on the list, `eventLut` and
`epochLut` the lookup tables. The doubly linked lists are sets ordered by
their keys: a pulse never has two pending events (`_insert()` finds it by
table or by search), so the order of a list is the order of its keys. `aged`
are the events older than `_eventTimeout`; real time appears only there.
`retired` records what `process(event)` was given; `thrown` is the exception
that would end the process.

`process()` is one action per turn of its loop (`Insert`, with the flush at a
change of contract inside), preceded by `Receive` (with `_match()`) and ended
by `FlushDue` or `TryFlush`, so that contributors may stop, or an event age, in
between. Sources send in pulse order. `Lossy` lets them skip pulses, `Late`
lets an event age while its contributions are still on their way. `Window` is
the number of buffers of a DRP, which bounds how far it can be ahead: it gets
a buffer back when the event is retired. `contract` is chosen once for each
pulse, since all contributions to a pulse carry the same readout groups.

`_flushBefore()` is given the epoch the new one goes after. If there is none
it is given the list head, and then the whole list is swept: `Stale` has both
cases.

### Control

The main thread runs one transition at a time: `op` is the one whose
`condition_...` method is running, `phase` where it waits, `ids` the clients
`confirm_response` waits for, `ref` the message ID `wait_for_answers` goes by.
Phase 1 message IDs are `<<1, n>>`, pulse IDs `<<2, n>>`, the "0" of
asynchronous messages `<<0, 1>>`. `goal` is the target of `handle_setstate`,
or "chunk" in `handle_chunkrequest`. `stream` is what was put into the timing
stream, `seen[c]` how much of it has come out at client `c`, `l0` whether
triggers are enabled, `run` whether the logbook has a run open. `handled` is
for the properties: the last message each client has handled.

A condition is a start action (everything up to its first message, or its
failure), a series of `Collect`, `NewReference`, `RollcallAgain` and `Timeout`,
and an end (`Done1`, `DoneAlloc`, `Insert` then `Done2`). Messages of one
client to control keep their order; those of two clients do not. A timeout may
come at any time, but counts as a fault while an answer may still come.

Puts that `pv_put` reports as failed either had no effect ("refused") or have
it later ("late"): that is what a timeout leaves open. The puts of a
transition's header and of MsgInsert, which control does not check, succeed in
the model. Client crashes are not modelled; a client that does not answer is a
client whose answer comes too late.

### SPSCQueue and Fifo

The indices are modelled on x86-TSO: a store sits in the core's store buffer
(`wOwn`, `rOwn` ahead of `w`, `r`) until it drains; `mfence` and the locked
instructions of the mutex wait for that. `push()` does not check for room, so
the model takes from its use (queues as large as the buffer pool) that there is
some: `HasBuffer`. The condition variable may wake spuriously. Indices are
64-bit and do not wrap in the life of a DAQ; `MaxPush` bounds them for TLC.

`Fifo` is the abstract queue. `SPSCQueue` implements it with the refinement
mapping in `Promise`: the queue is the ring between the consumer's own read
index and the write index in memory, so a value enters when the store of the
index drains, and leaves when it is read.

### Readout

`buf[s][l]` is the event whose frame of lane `l` is in slot `s` (0: not in the
mask), `pebble` the datagram a worker has made in it, `tr` the transition
buffer. Every thread is a series of actions of its own: `Read` (a frame; the
event, if it was the last one missing) and `AllocateTr`, where it may block;
`Work` and `Collect` for one event of a batch; `Receive`, then `Release` lane by
lane, since the comment at `DrpBase.cc:587` asks for care with the order there,
then `LookForEnd`, the look of `_deliver()` at the input it has just delivered.
The event counter has modulus `CntMod` (24 bits in the code), the counter of the
loop over broken events `WordMod` (32 bits); a run starts shortly before the
wrap. `Unconfigure` and `Shutdown` are the steps of `unconfigure()`, each
waiting for the thread the code joins there; the flush of the driver's queue in
it is left out.

### Results

Pulse IDs are small numbers, in epochs of `MaxEntries`; `Dst` is the TEB of an
epoch. `Posted` and `Kept` say which batches leave and what stays when an input
is added, for DRPs and TEBs alike. `Collect` is a call of
`TebContributor::process()`, `Build` and `Flush` of `Teb::process()` and
`flush()`. In the receiver `Receive` or `Timeout` begins `_matchUp()`, `Match`
and `Bypass` are turns of its loop, `Done` its end. `deferred` is the set the
code orders by pulse. `Visible` is what a reader of a batch finds up to the
first end-of-list mark. Results carry only their pulse: what the trigger
decides does not matter for the way back. `DrpStart` and `TebStart` put the
wrap of the regions into the few pulses of a run.

### Recording

Control is reduced to its arcs: phase 1 here (`Configure`, `BeginRun`,
`Enable`, `Other`), then the transition goes into the stream (`Inserted`), and
`Process` answers it before anything is written, as the code does. `pc` is
where the receiver thread is; `Write`, `Reopen`, `CloseFiles` and `Closed` are
steps of it, `Drain` is the writer thread. A file is the sequence of datagrams
in it; the small data are records of where each datagram should be. A datagram
keeps the file that was open when it was buffered (`file`), a history that no
action reads and the properties compare with where the datagram ends up.
`close()` waits for the buffers only if a file is open: after `reopenFiles()` has
failed, `Closed` and `Reopen` leave what was buffered since (`file = BadFile`) for
the next file. `Faults` selects what goes wrong.

### Monitoring

One buffer index goes round: free at the MEB, requested, on the list of a TEB,
in the result of an event, written by the DRPs, on the shuffle queue, free
again. Requests under way are a queue for each TEB and MEB (`mrq`): the code has
one for each TEB, which its thread empties at every turn, so that the order of
requests of different MEBs does not matter. `region` holds what the DRPs wrote. The shared memory buffers are numbers
per queue: on the queue of returned buffers (`back`), of requests (`reqs`), with
an event (`shuffle`) or with clients (`out`). `Reconfigure("connect")` passes
through disconnect and connect, `Reconfigure("configure")` only through
unconfigure and configure.

### ParallelRun

`smd0`, `eb` and `bd` are where the three kinds of ranks are in their `start()`
methods. An exchange is a request, a member of `asking` or `bdAsking`, and an
answer in `chunkTo` or `batchTo`; there is never more than one for a client. An
event is its place in the files. `Destination` is the user's callback, a fixed
choice of the rank. It comes with one event builder (`mpi_ds.py:107`) and sets
`batch_size` to 1 (`ds_base.py:141`); since `build()` counts only the events of an
integrating detector if there is one (`eventbuilder.pyx:389`), a batch may still
hold several, which is what `Mixed` is for. Without `Eager` an `Isend` is complete
only when its message is received, so `wait_for()` waits for that.

## 3. Runs

| Run | Checks | Shows |
|---|---|---|
| `eb_order` | `InOrder`, `PoolSuffices`, `StuckOnlyBehindEmptyEpoch` | order at the application, enough events, and the only way an event can stay for ever, without loss |
| `eb_late` | `NoDoubleDelivery`, `LutSound`, `EpochsHoldEvents`, `NoSourceThrow`, `FixupOnlyWhenLost` | bookkeeping under loss, lateness and exhausted pools |
| `ctl_run` | `TypeOK`, `TriggersNeedEnable`, `SlowUpdatesEnabled`, `InsertedWhenHandled`, `QuietTransitions`, `RequestsEnd` | from reset and from configured, with a fault; setstate and chunk requests end |
| `spsc` | `TypeOK`, `NoLostWakeup`, `SlotsKept`, `IsFifo` | the queue, its liveness included |
| `readout` | `InSequence`, `SlotsIntact`, `BuffersAccounted`, `NeverStuck` | events through reader, workers and collector, over a counter wrap, a lost frame and a reset |
| `results` | `DeliveredInSequence`, `DeferredApart`, `NoneForgotten`, `AllDelivered` | inputs and results matched, two DRPs and two TEBs, every choice of events and readout groups |
| `recording` | `FilesHoldTheirRun`, `ChunksChained`, `OffsetsFindDgrams`, `ChunkTurned` | two runs in chunks, with files and chunks that do not open and transitions tried again |
| `monitoring` | `BuffersApart`, `HeldIntact`, `RequestsMatched`, `PulseIdAdvances`, `MonitoredArrive` | monitoring buffers, requests that fail, a new connection |
| `parallel_run` | `StepsInContext`, `EveryRankEnds` | events in their context and an end for all, with two event builders |
| `parallel_dest` | `EventsPlaced`, `EventsDelivered`, `EveryRankEnds` | every event to one rank, with destinations, where ranks that ask out of turn wait |

`TypeOK` is a property of the runs of `Control` and `SPSCQueue` only; with
`INVARIANT TypeOK` added to the other configurations it holds there too.

Two runs end in a violation, which is their point: each checks what a comment
or message of the code says, and the code does otherwise.

| Run | Property | What happens |
|---|---|---|
| `results_slow` | `DeliveredInSequence` | with two TEBs a SlowUpdate is marked as the end of its batch (`TebContributor.cc:366`) while inputs still follow it: those are lost, and `EbReceiver` meets a jumping index |
| `mon_stale` | `FreedOnce` | the lists of a TEB survive unconfigure, since `teb.cc:407` clears copies: two events share a monitoring buffer |

### What else the models show

These are not runs. Each is found with the constants given, the rest as in the
run named.

* `eb_order`: `StuckOnlyBehindEmptyEpoch` is exact. `expired()` returns when
  the oldest epoch is empty (`EventBuilder.cc:450`), so once contributions cease
  an incomplete event in a newer epoch is never timed out, which the comment
  above it says it is there for.
* `eb_order`, `Lossy = TRUE`: `InOrder` fails. A contribution is lost, sources
  are skewed, and an older pulse is retired after a newer one
  (`EventBuilder.cc:370`).
* `ctl_run`, `PutFaults = {"late"}`: `TriggersNeedEnable` and `QuietTransitions` fail. The put that
  enables triggers times out but takes effect (`control.py:2120`): enable has
  failed, and the next transition goes into the stream with triggers on.
* `Control`: phase 2 goes by the first message ID it reads
  (`control.py:1033`), so that an answer to an earlier attempt is taken for one
  to this. The fast thread may change the recording setting while beginrun is
  under way, as it looks at the state, which has not changed yet
  (`control.py:966`).
* `recording`: after a `reopenFiles()` that failed, `m_fd` is -1 and `close()` does
  not flush (`FileWriter.cc:236`). The Disable, EndStep and EndRun of that run, if
  they come before the buffer is full or 2 s old (`FileWriter.cc:284`), stay in it,
  and the next run's file begins with them. If the run goes on instead and the next
  attempt to open the chunk succeeds, the chunk begins with what was written
  since. `FilesHoldTheirRun` says that nothing else goes astray, nor anywhere but
  to the front of a file, behind which the file has its own run. From what the
  properties ask besides, where the Configure is and what the small data point to,
  files that begin so (`Spoilt`) are exempt: without that, `FilesHoldTheirRun` and
  `OffsetsFindDgrams` fail.
* `recording`, `Faults = {"enable"}`: `ChunksChained` fails. When enable fails
  after this DRP has numbered its next chunk, the next Enable starts that chunk
  without naming it. `{"begin"}` or `{"open"}`: after a beginrun that failed
  `m_lastIndex` is 0 and the event counter is not, so the DRP aborts at the next
  transition; with `{"begin"}` a run may also be recorded in the file of the one
  before. `{"reset"}`: files stay open over a reset and the next Configure is
  written to them, of which `DrpBase.cc:518` says "Won't ever be true for
  Configure". `{"early"}`: a beginrun as quick as the answer to EndRun has its
  file closed by `closeFiles()` of the run before.
* `readout`, `Faults = {"reset", "again"}`: `SlotsIntact` fails, since masks of
  half read events stay in the pool for the next configuration. `Faults =
  {"wrap"}`: a frame is lost where the event counter wraps, and the loop at
  `PGPDetector.cc:309`, which compares 32 with 24 bits, empties slots that are in
  use. `NumLanes = 1, RetSize = 1`: there are as many slots as DMA buffers when
  their number is a power of 2, although `DrpBase.cc:105` wants more of them, and
  the input `_deliver()` looks at may be overwritten.
* `monitoring`: `_rogReserved` is to hold buffers back for readout groups that
  trigger rarely (`teb.cc:359`), but `_monitor()` refuses them to all events.
* `parallel_run`, `NumBds = 1`, with `EventsDelivered`: it fails, since one of
  the event builders has no big data rank (`mpi_ds.py:99` asks for one in all).
* `parallel_dest`, `BatchSizes = {2}, Mixed = TRUE`:
  `EventsDelivered` fails. `node.py:431` sends only destination 0 of a batch
  that also has others. The loops at the end (`node.py:308`, `515`) count
  requests: a fast rank that asks twice takes the turn of a slow one, which then
  ends without the last transitions. `repack_parallel` always adds a footer, so
  that smd0 never finds an empty chunk and `waiting_ebs` stays empty. The
  callback naming a rank that does not exist ends the chunk (`node.py:468`).

`process()`'s comment also says that only events that time out are fixed up.
That is out of date, and the early fix-up behind a newer complete event is
right: `FixupOnlyWhenLost`.

Bounds. Two sources of which one is in every contract, with two contracts,
give every relation of two events the code distinguishes: same or different
contract, complete or not, older or newer. Four or five pulses in epochs of two
give three epochs, of which a new one can be first, in between or last.
`eb_late` has two epochs and two events in its pools, so that both run out and
slots collide. Control has one DRP and one TEB: answers of two clients in any
order, one with and one without a phase 2. Five or six messages reach from
reset to configured, or from configured through running and a chunk request or
a repeated attempt. `MaxFaults` bounds what goes wrong in one behaviour. Two
faults, e.g. a late answer and a failed put, were checked once with `Records =
FALSE, Goals = {}`, in 1.1 million states, and `RequestsEnd` once with puts that
take effect late. A queue of two
slots with five pushes goes round twice and a half.
`readout` has four slots and five events of two lanes, so that a slot is used
twice, DMA buffers run out, and the counter (modulus 8, starting at 6) wraps; one
frame may be lost. Five events hold a BeginRun between others, and one transition
buffer is the least with which it can be short. `results` has four pulses in
epochs of two, the last a transition: two epochs of each TEB or a wrap of either
region within one, and all choices of who reads out what; the window is below
the size of the region as in the code, and above what two TEBs hold in open
batches, without which the DRP would have to wait for a batch that only its own
next input closes. `recording` has ten transitions, enough for two runs, or one
with three enables and two chunks, at a threshold of one datagram.
`monitoring` has one buffer for each of two MEBs, two failed posts, which is a
request that no TEB takes, and a trigger that lets any MEB have an event; all
other choices of the trigger (`Wants`) were checked once for the invariants, in
2.9 million states. `parallel_run` has two event builders, one of which has two
big data ranks, and four events of which the first and the last are transitions,
in chunks of at most two and batches of one or two. `parallel_dest` has one event
builder with three big data ranks, so that two can wait while a batch is for the
third, and six events with transitions at the ends or in between. Each of the two
was also checked with the invariants of the other.

Deadlock is not checked in `EventBuilder` (all pulses taken, or an exception)
and `Control` (bound of messages reached), nor in the modules that follow the
data, which stop at a bound of the model or when the last event is through; what
must not stop there is stated as liveness. In `SPSCQueue` deadlock is checked: a shutdown and a startup are always
possible.

Fairness. `EventBuilder`: its thread polls with a timeout of 100 ms, so a call
in hand is finished, `expired()` is called when nothing comes, time passes, and
what a live source sends arrives. Nothing is assumed of `Die` and `Clear`.
`Control`: the main thread goes on with the transition it has begun, its timers
run out, clients serve their sockets and read the stream; nothing is assumed of
requests. `SPSCQueue`: threads run, the lock is granted, store buffers drain,
the consumer calls `pop()` again; nothing is assumed of push, shutdown and
startup. `Readout`: threads run and the detector sends; nothing is assumed of
losses and unconfigure. `Results`: collector, receiver and TEBs poll with
timeouts and triggers go on. `Monitoring`: TEBs, DRPs, MEBs and the server's
thread run; nothing is assumed of clients, which may keep what they have, nor of
requests. `ParallelRun`: ranks run and MPI delivers. `Recording` is checked for
safety alone.

## 4. Proofs

All theorems are for every value of the constants that satisfies the named
assumption of the module (`EbAssumption`, `ControlAssumption`,
`QueueAssumption`, `ReadoutAssumption`, `ResultsAssumption`, `RecordingAssumption`,
`MonitoringAssumption`, `CountsAssumption`: numbers are natural, pools and epochs not empty,
contracts are sets of sources; `RingAssumption` of `Readout` states what a power of
2 up to 2^24 is like, since the provers know nothing of `^`), and, where it is said below, a condition that
the code needs: each of these conditions has a run or a remark in section 3 that
shows what happens without it.

| Module | Theorem | Property | Condition |
|---|---|---|---|
| `EventBuilderProofs` | `TypeCorrect`, `NoContributionTwice`, `NoDanglingEntries`, `EpochsKept`, `ContributionsExpected`, `FixupJustified` | `TypeOK`, `NoDoubleDelivery`, `LutSound`, `EpochsHoldEvents`, `NoSourceThrow`, `FixupOnlyWhenLost` | |
| | `RetiredInOrder` | `InOrder` | nothing lost or late, one source in every contract |
| | `PoolLargeEnough` | `PoolSuffices` | an event for each buffer of each source |
| `ControlProofs` | `TypeCorrect`, `SlowUpdatesBetween`, `HandledBeforeInserted` | `TypeOK`, `SlowUpdatesEnabled`, `InsertedWhenHandled` | |
| | `TriggersEnabled`, `TransitionsQuiet` | `TriggersNeedEnable`, `QuietTransitions` | a put that is reported as failed has no effect later |
| `SPSCQueueProofs` | `IndicesOrdered`, `NoWakeupLost`, `NothingOverwritten`, `ImplementsFifo` | `TypeOK`, `NoLostWakeup`, `SlotsKept`, safety of `IsFifo` | |
| `ReadoutProofs` | `ReadoutBuffersAccounted` | `BuffersAccounted` | |
| | `ReadoutInSequence` | `InSequence` | no configuration after a reset that left frames (`"again"`) |
| | `ReadoutSlotsIntact` | `SlotsIntact`, unless a frame is lost | the same, and `Spare` |
| `ResultsProofs` | `DeferredBatchesApart` | `DeferredApart` | |
| | `InputsDeliveredInOrder`, `ResultsReach` | `DeliveredInSequence`, `NoneForgotten` | one TEB, or no SlowUpdates (`Whole`) |
| `ParallelRunProofs` | `ParallelStepsInContext`, `ParallelEventsPlaced` | `StepsInContext`, `EventsPlaced` | |
| | `ParallelTypes` | `TypeOK` | at least as many big data ranks as event builders |
| | `ParallelEventsDelivered` | `EventsDelivered` | the same, and batches of one event where there are destinations (`Mixed = FALSE`) |
| `RecordingProofs` | `RunsKeptApart`, `ChunksFollow`, `OffsetsRight`, `ChunkTurns` | `FilesHoldTheirRun`, `ChunksChained`, `OffsetsFindDgrams`, `ChunkTurned` | `Orderly` |
| `MonitoringProofs` | `EventsInOrder` | `PulseIdAdvances` | |
| | `BuffersInOnePlace`, `HeldNotOverwritten`, `NoEventDropped`, `NeverFreedTwice` | `BuffersApart`, `HeldIntact`, `RequestsMatched`, `FreedOnce` | a new connection before each configuration |

**EventBuilder.** None of the properties is inductive as it stands. The inductive
invariant `IInv` says where every source is: the pulses of the batch in hand are
ahead of `pos[src]` and of one epoch that is on the list (`BatchInv`); a
contribution a pending event has got, or a retired record holds, is of a pulse
its source has passed (`PendingInv`, `RetiredInv`), so the next one from that
source is new to its event, which is why nothing is delivered twice and why
`EbEvent` never throws; and the due event is complete and of the batch
(`DueInv`), so an event retired early behind it has been passed by every source
of that contract, which is `FixupJustified`. The table entries need that a
discarded epoch is empty and that a retired event's slot is cleared.
`RetiredInOrder` adds that every pulse the common source has passed is retired or
pending, so that nothing older can come after a complete event. `PoolLargeEnough`
counts: a pending event holds a contribution whose buffer its source does not have
back, so there are at most `Cardinality(Sources) * Window` of them, whatever is
lost or late. `initialize()` takes twice the buffers of one contributor, of which
its comment says "Revisit the factor of 2": for two contributors the theorem
says that this is enough, for more it says how many are.

**Control.** The invariant says which transition is running and what the clients
have of it (`OpInv`, `InboxInv`): the messages of a client are in order, those
with the last ID belong to the condition that is running, and phase 2 begins only
when all clients have handled its phase 1. From there a transition in the stream
is one that every client has handled. Triggers are enabled only in "reset" and
"unallocated", which control enters without asking the XPM, or if the state is
"running", nothing is under way and an enable is what every client handled last
(`TrigInv`); a put that takes effect after its time out breaks this.

**SPSCQueue.** The invariant adds to the properties who holds the mutex in which
step, that a consumer which has the lock has an empty store buffer, and that a
consumer about to take has seen an index beyond its own. The refinement proof
maps each action to a step of `Fifo` or a stutter: `DrainW` puts, `Take` gets,
`Decide` may stop, `Startup` restarts. The slots of two values in the queue
differ since they are less than `Capacity` apart: a lemma on remainders.

**Readout.** As long as no frame is lost, events are consecutive, and everything
follows from where each is. The receiver has got to event `Arrived`; of lane `l`
the ring holds those after it, up to `sent[l]`, each in the slot of its counter,
and nothing else (`RingInv`). Each holds a DMA buffer, of which there are no more
than slots (`CountInv`), so that a lane is never a whole ring ahead, slots of
different events differ, and a lane that completes an event completes the next
one: no jump, no throw. `FlowInv` numbers the batches under way, `first .. next -
1`, and gives each its first event, `begin[j]`. Batch `j` is in the queues of one
worker, at a place that follows from `j` and whose turn it is; the batches join
without gaps what is with the contributor, behind them, and what the reader is
at, before them; and a worker is through with what comes before its place. The
numbers and first events are no state of the code: they are under an existential
quantifier, and each step says how they change (a push appends one, the end of a
batch at the collector drops one). A BeginRun, and a new configuration,
change what the counter counts from: it comes when all is quiet, so that no slot
is renumbered while it holds something. The transition buffers need that a slot
names a transition that has not arrived (`Ahead`), until `shutdown()`
of the pool, after which a transition may be without one, the only reason to end.
`ReadoutSlotsIntact` needs a slot to spare: `_deliver()` looks at its
input when all buffers of the event are given back. `Spare` is that lanes
times slots exceed the DMA buffers. Lost frames, of which the run allows one, are
left to TLC.

**Results.** `PlaceInv` says where the result of each pulse is. An event is
*built* when all its contractors are past the pulse and its TEB holds none of
their contributions; a result is of a built event, since none is left that could
make it a second time, and for each DRP it is in one batch only: open at the TEB,
on the wire, or deferred (`ResultInv`). This needs no condition, and gives
`DeferredApart`. `ChainInv` says that what was delivered, what is left of the
batches on `_pending`, and the batch in progress are a chain in pulse order that
holds every input. Matching only moves the beginning of this chain, whatever
results come, hence `DeliveredInSequence`. A result may be thrown away by
`_deliver()` only behind the input it looks at next; with the chain this means
that its input is delivered, and so every event still to be delivered is still to
be contributed to or on its way (`ReachInv`), which is `NoneForgotten`. `Whole`
is where the end-of-list mark comes in: a batch that has one inside is not read to
its end. Least elements of sets of naturals stand in for induction over
sequences.

**Recording.** `Orderly` leaves the faults "open", "phase2" and "reopen": files
and chunks that do not open and clients that do not answer phase 2. The invariant
says that the transition control is running is the last in the stream, and that
only events can be in the stream before it is inserted; that the receiver is idle
when a transition begins; that a chunk is pending only in an Enable; and that what an
open file and its buffers hold (`Held`) only grows, by what the receiver writes, so
that its length is `offset - chunkOffset` and files beyond the open one are
empty. While no file is open the buffers have only what was not meant for any
(`Stray`), so a file opened then, being empty, can only begin with that
(`HeldOpened`, `HeldNew`); of a file that does (`Spoilt`) the invariant says
where each datagram came from, not its place. A chunk that could not be opened
stays the next one (`Stuck`), and is linked to the one before it all the same.

**Monitoring.** The order of events holds as every MEB gets every pulse of its
events from the common DRP, which passes them in order (`EventInv`). For the
buffers the invariant gives each index exactly one place (`PlaceInv`) and says
which DRPs have written it (`RegionInv`) and what an event that is held needs to
find there (`HeldInv`).

**ParallelRun.** Every history of transitions, and all that is given to a rank,
begins as the files do: `Upto(T, n)` are the transitions among the first `n`
events. `Leads(T, c, s, d)` says of events `s` on their way to someone who has
had the transitions `c` that each comes when exactly those before it were given,
and that those up to `d` were given after the last. It composes over
concatenation. What is under way to an event builder leads from its own history
to what smd0 has noted as sent to it (`EbFlow`): the batch it is at, the rest of
the chunk, the chunk on its way. What a big data rank was given leads from
nothing to what its event builder has noted (`BdFlow`). An answer is the missing
transitions and then events that lead on from the sender's history, hence
`StepsInContext`. With destinations this needs that transitions are in the part
for destination 0 of a batch, which goes out alone. `PlaceInv` puts each L1Accept
in one place: what comes to an event builder, one of its batches, or what a rank
was given. `CoverInv` says that every one that smd0 read has a place, and a rank
is ended only by an event builder that has nothing left (`AskInv`), hence
`EventsDelivered`. As many big data ranks as event builders are more than
`mpi_ds.py:99` asks for, which is content with one: an event builder without a
big data rank waits for ever for a request, with its batches, while the others
end. `Select` is a recursive function; that it takes the steps it should is
proved with least elements of sets of naturals.

Only model-checked, since the prover does not reach it: liveness
(`StuckOnlyBehindEmptyEpoch`, `RequestsEnd`, `NeverStuck`, `AllDelivered`,
`MonitoredArrive`, `EveryRankEnds`, the fairness in `IsFifo`). Everything else
that a passing run checks is stated by a theorem, under the conditions above;
`SlotsIntact` after a frame is lost is only model-checked.

## 5. Not modelled, and the plan

Not modelled at all: the fabric, the hardware access (XPM, HSD, PGP, TPR), the
configuration database, the GUI, procmgr (I/O and user interface, in which there
is no protocol of the repository's own to state); data format and numerical code
(no concurrency, and far more lines than all that is modelled); detectors other
than `PGPDetector`, whose pool, collector and receiver are the same; `mpscqueue`,
which nothing uses. Of the modelled parts: configuration aliases, step scans and
file reports of control; what `connect()` exchanges; the trigger and the
prescaler, which are a free choice; reading of files in psana.

Next:

1. Refinement of an abstract "each pulse once" builder by `EventBuilder`, and of
   an abstract in-order delivery by `Results`.
2. `PvaDetector`'s matching of PVs to timing.
