------------------------------- MODULE Readout -------------------------------
(***************************************************************************)
(* The threads of a DRP that read a detector out: psdaq/drp/PGPDetector.cc *)
(* (reader, workers, collector, shutdown), the memory pool of DrpBase.cc   *)
(* and the end of EbReceiver::process(), which gives the buffers back.     *)
(*                                                                         *)
(* The reader puts the frames of the lanes into the slot of their event    *)
(* and hands batches of whole events to workers in turn.  The collector    *)
(* takes the batches back in that turn and passes the events to the TEB    *)
(* contributor; what happens between it and the receiver is the module     *)
(* Results, which shows that nothing changes order there.                  *)
(***************************************************************************)
EXTENDS Integers, Sequences, FiniteSetsExt, SequencesExt

CONSTANTS
  NumLanes,    \* lanes in laneMask
  NumWorkers,  \* nworkers
  DmaCount,    \* DMA buffers of the driver
  RetSize,     \* DMA buffers given back at a time, EbReceiver::m_size
  TrBuffers,   \* transition buffers of the pool
  BatchSize,   \* pulse IDs per batch
  CntMod,      \* the event counter's modulus, 2^24
  WordMod,     \* unsigned's modulus, 2^32
  MaxEvents,   \* bound on the events of a behaviour
  Starts,      \* event counters to begin with
  MaxLost,     \* bound on lost frames
  MaxConfigs,  \* bound on configurations
  Skew,        \* bound on the events that a lane is ahead of another
  Faults       \* "reset": shut down at any time; "again": and configure then;
               \* "wrap": a frame is lost where the event counter wraps

ASSUME ReadoutAssumption ==
  /\ {NumLanes, NumWorkers, DmaCount, RetSize, TrBuffers, BatchSize, CntMod,
      WordMod, MaxEvents, MaxConfigs, Skew} \subseteq Nat \ {0}
  /\ MaxLost \in Nat /\ Starts \subseteq 0 .. CntMod - 1
  /\ WordMod > CntMod /\ WordMod % CntMod = 0
  /\ Faults \subseteq {"reset", "again", "wrap"}

(***************************************************************************)
(* Definitions whose comment begins with "Slip:" are wrong on purpose.     *)
(* They are used only to show that the properties notice such a slip.      *)
(***************************************************************************)

NextPowerOf2(n) == Min({2 ^ k : k \in 0 .. n} \ (0 .. n - 1))

NumBuffers == NextPowerOf2(DmaCount)
Slots  == 0 .. NumBuffers - 1
Lanes  == 0 .. NumLanes - 1
Workers == 0 .. NumWorkers - 1
Events == 1 .. MaxEvents
None   == NumBuffers                  \* no slot

\* The power of 2 is not smaller, and it divides the counter's modulus, 2^24, which
\* no driver's DMA buffers exceed.
ASSUME RingAssumption ==
  NumBuffers \in Nat /\ NumBuffers >= DmaCount /\ CntMod % NumBuffers = 0

Kinds == {"l1accept", "slowupdate", "beginrun", "transition"}
Batches == [start : 0 .. CntMod, size : 0 .. WordMod - 1]

VARIABLES
  kind,       \* [Events -> Kinds]
  zero,       \* the event counter of event n is n - zero, modulo CntMod
  from,       \* the first event of this configuration
  sent,       \* [Lanes -> 0 .. MaxEvents]: frames the lane has sent
  lost,       \* number of lost frames
  \* MemPool
  buf,        \* [Slots -> [Lanes -> 0 .. MaxEvents]]: PGPEvent; 0: not in mask
  pebble,     \* [Slots -> 0 .. MaxEvents]: the datagram, and the TEB input
  tr,         \* [Slots -> 0 .. MaxEvents]: transitionDgram; 0: null
  trFree,     \* m_transitionBuffers
  trDown,     \* it was shut down
  dmaFree,    \* buffers the driver has
  \* reader
  last,       \* m_lastComplete
  batch,      \* m_batch
  batchId,
  rworker,
  rpc,        \* <<"read">>, <<"alloc", event, slot>> or <<"exit">>
  \* workers and collector
  inq,        \* [Workers -> Seq(Batches)]
  outq,       \* [Workers -> Seq(Batches)]
  wi,         \* [Workers -> Nat]: place in the worker's batch
  cworker, ci,
  pend,       \* slots that are with the TEB contributor, in order
  \* EbReceiver
  lastIndex,
  delivered,  \* events that process() was called with in this configuration
  cur,        \* the slot that is being given back, or None
  lane,       \* the lane it has got to
  held,       \* m_count: buffers not yet given back
  \* PGPDetectorApp::unconfigure()
  spc, joined, configs,
  ended       \* an exception or abort() ended the process

stream    == <<kind, zero, from, sent, lost>>
pool      == <<buf, pebble, tr, trFree, trDown, dmaFree>>
reader    == <<last, batch, batchId, rworker, rpc>>
workers   == <<inq, outq, wi>>
collector == <<cworker, ci, pend>>
receiver  == <<lastIndex, delivered, cur, lane, held>>
control   == <<spc, joined, configs, ended>>
vars == <<stream, pool, reader, workers, collector, receiver, control>>

IsTransition(n) == kind[n] \in {"beginrun", "transition"}
Epoch(n) == n \div BatchSize
Empty(s) == \A l \in Lanes : buf[s][l] = 0
Quiet == cur = None /\ \A s \in Slots : Empty(s)

\* The event counter restarts with a BeginRun, which is sent when all is quiet.
Zero(n) == IF kind[n] = "beginrun" THEN n - 1 ELSE zero
Ctr(n) == (n - Zero(n)) % CntMod

\* SlowUpdates are so rare that each is the first event of its period, so that
\* few transition buffers suffice.  A transition precedes BeginRun, and one ends
\* the behaviour.
Init ==
  /\ kind \in [Events -> Kinds] /\ kind[MaxEvents] = "transition"
  /\ \A n \in Events \ {1} : kind[n] = "beginrun" => IsTransition(n - 1)
  /\ \A n \in Events : kind[n] = "slowupdate" => n % BatchSize = 0
  /\ last \in Starts /\ zero = 0 - last
  /\ from = 1 /\ sent = [l \in Lanes |-> 0] /\ lost = 0
  /\ buf = [s \in Slots |-> [l \in Lanes |-> 0]]
  /\ pebble = [s \in Slots |-> 0] /\ tr = [s \in Slots |-> 0]
  /\ trFree = TrBuffers /\ trDown = FALSE /\ dmaFree = DmaCount
  /\ batch = [start |-> last + 1, size |-> 0] /\ batchId = 0
  /\ rworker = 0 /\ rpc = <<"read">>
  /\ inq = [w \in Workers |-> << >>] /\ outq = [w \in Workers |-> << >>]
  /\ wi = [w \in Workers |-> 0]
  /\ cworker = 0 /\ ci = 0 /\ pend = << >>
  /\ lastIndex = last % NumBuffers /\ delivered = << >>
  /\ cur = None /\ lane = 0 /\ held = 0
  /\ spc = "run" /\ joined = 0 /\ configs = 1 /\ ended = FALSE

-----------------------------------------------------------------------------
(***************************************************************************)
(* The reader thread                                                       *)
(***************************************************************************)

\* Control goes on when a transition has come through.
MaySend(l, n) ==
  /\ n \in Events /\ \A k \in Lanes : n - sent[k] <= Skew
  /\ \A m \in from .. n - 1 : IsTransition(m) => m \in Range(delivered)
  /\ kind[n] = "beginrun" /\ (\A k \in Lanes : sent[k] < n) => Quiet

\* Event n completes the batch.
Pushes(n) == Epoch(batchId) # Epoch(n) \/ IsTransition(n)

\* The reader is through with event n; b is the batch with it.
Finish(n, b) ==
  /\ rpc' = <<"read">>
  /\ IF Pushes(n)
     THEN /\ inq' = [inq EXCEPT ![rworker] = Append(@, b)]
          /\ rworker' = (rworker + 1) % NumWorkers
          /\ batch' = [start |-> Ctr(n) + 1, size |-> 0]
          /\ batchId' = n
     ELSE batch' = b /\ UNCHANGED <<inq, rworker, batchId>>

\* Events between the last complete one and counter c: how many the loop
\* counts, which compares the 32 bit e with the 24 bit c, and their slots.
BrokenCount(prev, c) == (c - (prev + 1)) % WordMod
BrokenSlots(prev, c) ==
  {(prev + i) % NumBuffers : i \in 1 .. Min({BrokenCount(prev, c), NumBuffers})}

\* All lanes are there.  A jump of the counter is an exception unless the event
\* is an L1Accept within a second of the last one.
Complete(n, s, frames) ==
  LET begin == kind[n] = "beginrun"
      prev  == IF begin THEN 0 ELSE last
      count == BrokenCount(prev, Ctr(n))
      b0    == IF begin THEN [start |-> 1, size |-> 0] ELSE batch
      b     == [b0 EXCEPT !.size = (@ + count + 1) % WordMod]
      jump  == Ctr(n) # (prev + 1) % CntMod
      broken == IF jump THEN BrokenSlots(prev, Ctr(n)) ELSE {}
      whole == [b0 EXCEPT !.size = @ + 1]
  IN \/ /\ jump
        /\ ended' = TRUE
        /\ buf' = frames
        /\ UNCHANGED <<last, batch, batchId, rworker, rpc, inq>>
     \/ /\ jump => kind[n] = "l1accept"
        /\ buf' = [t \in Slots |->
                     IF t \in broken THEN [l \in Lanes |-> 0] ELSE frames[t]]
        /\ last' = Ctr(n)
        /\ IF kind[n] = "l1accept"
           THEN Finish(n, IF jump THEN b ELSE whole)
           ELSE /\ rpc' = <<"alloc", n, s>>
                /\ batch' = whole
                /\ UNCHANGED <<inq, rworker, batchId>>
        /\ UNCHANGED ended

\* Slip: one lane is enough.
WholeAny(frame) == \E k \in Lanes : frame[k] # 0

\* The mask is the lane mask.
Whole(frame) == \A k \in Lanes : frame[k] # 0

\* The next frame of lane l comes.
Read(l) ==
  LET n == sent[l] + 1
      s == Ctr(n) % NumBuffers
      frames == [buf EXCEPT ![s][l] = n]
  IN /\ ~ended /\ rpc = <<"read">> /\ dmaFree > 0 /\ MaySend(l, n)
     /\ sent' = [sent EXCEPT ![l] = n]
     /\ zero' = Zero(n)
     /\ dmaFree' = dmaFree - 1
     /\ IF Whole(frames[s])
        THEN Complete(n, s, frames)
        ELSE buf' = frames /\ UNCHANGED <<reader, inq, ended>>
     /\ UNCHANGED <<kind, from, lost, pebble, tr, trFree, trDown, outq, wi,
                    collector, receiver, spc, joined, configs>>

\* It has a DMA error and is given back at once, or never comes.
Lose(l) ==
  LET n == sent[l] + 1
  IN /\ ~ended /\ rpc = <<"read">> /\ MaySend(l, n) /\ lost < MaxLost
     /\ Ctr(n) \in {0, CntMod - 1} => "wrap" \in Faults
     /\ sent' = [sent EXCEPT ![l] = n]
     /\ zero' = Zero(n)
     /\ lost' = lost + 1
     /\ UNCHANGED <<kind, from, pool, reader, workers, collector, receiver, control>>

\* allocateTr() blocks until there is a buffer, or gives none after shutdown.
AllocateTr ==
  /\ ~ended /\ rpc[1] = "alloc"
  /\ LET n == rpc[2]
         s == rpc[3]
     IN \/ /\ trFree > 0
           /\ trFree' = trFree - 1
           /\ tr' = [tr EXCEPT ![s] = n]
           /\ Finish(n, batch)
        \/ /\ trFree = 0 /\ trDown
           /\ tr' = [tr EXCEPT ![s] = 0]
           /\ rpc' = <<"read">>
           /\ UNCHANGED <<trFree, inq, rworker, batch, batchId>>
  /\ UNCHANGED <<stream, buf, pebble, trDown, dmaFree, last, outq, wi,
                 collector, receiver, control>>

Terminated == spc \notin {"run", "pool"}

ReaderExits ==
  /\ ~ended /\ rpc = <<"read">> /\ Terminated
  /\ rpc' = <<"exit">>
  /\ UNCHANGED <<stream, pool, last, batch, batchId, rworker, workers,
                 collector, receiver, control>>

-----------------------------------------------------------------------------
(***************************************************************************)
(* Workers and collector.  One step is one event of a batch.               *)
(***************************************************************************)

SlotOf(b, i) == (b.start + i) % NumBuffers
FirstLane(s) == Min({l \in Lanes : buf[s][l] # 0})

\* workerFunc(): makes the datagram, unless the event is broken.
Work(w) ==
  /\ ~ended /\ w >= joined /\ inq[w] # << >>
  /\ LET b == Head(inq[w])
         s == SlotOf(b, wi[w])
         done == wi[w] + 1 = b.size
     IN /\ pebble' = IF Empty(s) THEN pebble
                     ELSE [pebble EXCEPT ![s] = buf[s][FirstLane(s)]]
        /\ wi' = [wi EXCEPT ![w] = IF done THEN 0 ELSE @ + 1]
        /\ inq' = IF done THEN [inq EXCEPT ![w] = Tail(@)] ELSE inq
        /\ outq' = IF done THEN [outq EXCEPT ![w] = Append(@, b)] ELSE outq
  /\ UNCHANGED <<stream, buf, tr, trFree, trDown, dmaFree, reader, collector,
                 receiver, control>>

\* Slip: from whichever worker has a batch.
CollectsFromAny(w) == outq[w] # << >> /\ (ci > 0 => w = cworker)

CollectsFrom(w) == w = cworker /\ outq[w] # << >>

\* collector(): passes the event on, unless it is broken.
Collect(w) ==
  /\ ~ended /\ spc # "contributor" /\ spc # "done" /\ CollectsFrom(w)
  /\ LET b == Head(outq[w])
         s == SlotOf(b, ci)
         done == ci + 1 = b.size
     IN /\ pend' = IF Empty(s) THEN pend ELSE Append(pend, s)
        /\ ci' = IF done THEN 0 ELSE ci + 1
        /\ cworker' = IF done THEN (w + 1) % NumWorkers ELSE w
        /\ outq' = IF done THEN [outq EXCEPT ![w] = Tail(@)] ELSE outq
  /\ UNCHANGED <<stream, pool, reader, inq, wi, receiver, control>>

-----------------------------------------------------------------------------
(***************************************************************************)
(* EbReceiver                                                              *)
(***************************************************************************)

\* Slip: the buffer of a SlowUpdate is not freed.
FreesTrNot(n) == IsTransition(n)

FreesTr(n) == kind[n] # "l1accept"

\* process() up to the return of buffers.  A jumping index is fatal, and so is a
\* transition without a buffer.  beginrun has reset m_lastIndex.
Receive ==
  /\ ~ended /\ spc # "done" /\ pend # << >> /\ cur = None
  /\ LET s == Head(pend)
         n == pebble[s]
         prev == IF kind[n] = "beginrun" THEN 0 ELSE lastIndex
     IN IF s # (prev + 1) % NumBuffers \/ (kind[n] # "l1accept" /\ tr[s] = 0)
        THEN ended' = TRUE /\ UNCHANGED <<lastIndex, delivered, cur, lane, trFree>>
        ELSE /\ lastIndex' = s
             /\ delivered' = Append(delivered, n)
             /\ cur' = s /\ lane' = 0
             /\ trFree' = IF FreesTr(n) THEN trFree + 1 ELSE trFree
             /\ UNCHANGED ended
  /\ pend' = Tail(pend)
  /\ UNCHANGED <<stream, buf, pebble, tr, trDown, dmaFree, reader, workers,
                 cworker, ci, held, spc, joined, configs>>

Returns(h) == h = RetSize

\* The next lane is taken out of the mask and its buffer is given back.
Release ==
  /\ ~ended /\ cur # None /\ lane < NumLanes
  /\ lane' = lane + 1
  /\ IF buf[cur][lane] = 0 THEN UNCHANGED <<buf, held, dmaFree>>
     ELSE /\ buf' = [buf EXCEPT ![cur][lane] = 0]
          /\ held' = IF Returns(held + 1) THEN 0 ELSE held + 1
          /\ dmaFree' = IF Returns(held + 1) THEN dmaFree + held + 1 ELSE dmaFree
  /\ UNCHANGED <<stream, pebble, tr, trFree, trDown, reader, workers, collector,
                 lastIndex, delivered, cur, control>>

\* EbCtrbInBase::_deliver() then looks whether that input ended its batch.
LookForEnd ==
  /\ ~ended /\ cur # None /\ lane = NumLanes
  /\ cur' = None
  /\ UNCHANGED <<stream, pool, reader, workers, collector, lastIndex, delivered,
                 lane, held, control>>

-----------------------------------------------------------------------------
(***************************************************************************)
(* unconfigure() and the next configure                                    *)
(***************************************************************************)

\* Slip: the pool of transition buffers is not shut down.
PoolDownNot == FALSE

PoolDown == TRUE

\* Nothing is under way in unconfigure, anything in a reset.
Unconfigure ==
  /\ ~ended /\ spc = "run" /\ (Quiet \/ "reset" \in Faults)
  /\ trDown' = (trDown \/ PoolDown)
  /\ spc' = "pool"
  /\ UNCHANGED <<stream, buf, pebble, tr, trFree, dmaFree, reader, workers,
                 collector, receiver, joined, configs, ended>>

\* Which thread is waited for next, and what lets it end.
Joins ==
  \/ spc = "pool" /\ spc' = "workers" /\ UNCHANGED <<joined, pend>>
  \/ /\ spc = "workers" /\ inq[joined] = << >>
     /\ joined' = joined + 1
     /\ spc' = IF joined + 1 = NumWorkers THEN "reader" ELSE "workers"
     /\ UNCHANGED pend
  \/ spc = "reader" /\ rpc = <<"exit">> /\ spc' = "collector" /\ UNCHANGED <<joined, pend>>
  \/ /\ spc = "collector" /\ outq[cworker] = << >> /\ spc' = "contributor"
     /\ UNCHANGED <<joined, pend>>
  \/ spc = "contributor" /\ cur = None /\ spc' = "done" /\ pend' = << >> /\ UNCHANGED joined

Shutdown ==
  /\ ~ended /\ Joins
  /\ UNCHANGED <<stream, pool, reader, workers, cworker, ci, receiver, configs, ended>>

\* A new PGPDetector, on the pool as it is.  The event counter restarts.
Configure ==
  LET n == Max(Range([l \in 1 .. NumLanes |-> sent[l - 1]]))
  IN /\ ~ended /\ spc = "done" /\ configs < MaxConfigs
     /\ n < MaxEvents /\ kind[n + 1] = "transition"
     /\ Quiet \/ "again" \in Faults
     /\ configs' = configs + 1 /\ spc' = "run" /\ joined' = 0
     /\ sent' = [l \in Lanes |-> n] /\ zero' = n /\ from' = n + 1
     /\ last' = 0 /\ batch' = [start |-> 1, size |-> 0] /\ batchId' = 0
     /\ rworker' = 0 /\ rpc' = <<"read">>
     /\ inq' = [w \in Workers |-> << >>] /\ outq' = [w \in Workers |-> << >>]
     /\ wi' = [w \in Workers |-> 0] /\ cworker' = 0 /\ ci' = 0
     /\ lastIndex' = 0 /\ delivered' = << >>
     /\ UNCHANGED <<kind, lost, pool, pend, cur, lane, held, ended>>

Next ==
  \/ \E l \in Lanes : Read(l)
  \/ \E l \in Lanes : Lose(l)
  \/ AllocateTr
  \/ ReaderExits
  \/ \E w \in Workers : Work(w)
  \/ \E w \in Workers : Collect(w)
  \/ Receive
  \/ Release
  \/ LookForEnd
  \/ Unconfigure
  \/ Shutdown
  \/ Configure

Spec == Init /\ [][Next]_vars

\* Each thread goes on if it can, and so do the triggers.
Fairness ==
  /\ \A l \in Lanes : WF_vars(Read(l))
  /\ WF_vars(AllocateTr) /\ WF_vars(ReaderExits)
  /\ \A w \in Workers : WF_vars(Work(w)) /\ WF_vars(Collect(w))
  /\ WF_vars(Receive \/ Release \/ LookForEnd)
  /\ WF_vars(Shutdown)

FairSpec == Spec /\ Fairness

-----------------------------------------------------------------------------
(***************************************************************************)
(* Properties                                                              *)
(***************************************************************************)

\* The type of the state.  EbReceiver never holds more DMA buffers than fit its
\* list of buffers to give back, and the counts of free buffers stay in range.
TypeOK ==
  /\ kind \in [Events -> Kinds] /\ zero \in (1 - CntMod) .. MaxEvents
  /\ from \in 1 .. MaxEvents /\ sent \in [Lanes -> 0 .. MaxEvents]
  /\ lost \in 0 .. MaxLost
  /\ buf \in [Slots -> [Lanes -> 0 .. MaxEvents]]
  /\ pebble \in [Slots -> 0 .. MaxEvents] /\ tr \in [Slots -> 0 .. MaxEvents]
  /\ trFree \in 0 .. TrBuffers /\ trDown \in BOOLEAN /\ dmaFree \in 0 .. DmaCount
  /\ last \in 0 .. CntMod - 1 /\ batch \in Batches /\ batchId \in 0 .. MaxEvents
  /\ rworker \in Workers /\ cworker \in Workers
  /\ rpc \in {<<"read">>, <<"exit">>} \cup ({"alloc"} \X Events \X Slots)
  /\ \A w \in Workers : inq[w] \in Seq(Batches) /\ outq[w] \in Seq(Batches)
  /\ wi \in [Workers -> 0 .. WordMod] /\ ci \in 0 .. WordMod
  /\ pend \in Seq(Slots) /\ delivered \in Seq(Events)
  /\ lastIndex \in Slots /\ cur \in Slots \cup {None} /\ lane \in 0 .. NumLanes
  /\ held \in 0 .. RetSize - 1
  /\ spc \in {"run", "pool", "workers", "reader", "collector", "contributor", "done"}
  /\ joined \in 0 .. NumWorkers /\ configs \in 1 .. MaxConfigs /\ ended \in BOOLEAN

\* Unless a frame is lost, the receiver gets every event of a configuration in
\* the order of the event counter, although several workers prepare them, and
\* neither the reader nor the receiver finds a reason to give up.
InSequence ==
  lost = 0 =>
    /\ \A i \in DOMAIN delivered : delivered[i] = from + i - 1
    /\ spc = "run" /\ configs = 1 => ~ended

\* The slots are a ring that is larger than the driver's: what was read for an
\* event is in its slot until the receiver has done with it, the input of which
\* _deliver() looks for the end included.
SlotsIntact ==
  /\ \A i \in DOMAIN pend : \A l \in Lanes : buf[pend[i]][l] = pebble[pend[i]]
  /\ cur # None => pebble[cur] = delivered[Len(delivered)]

\* EbReceiver never holds more DMA buffers than its list has room for, and unless
\* frames are lost or a reset leaves events behind, DMA buffers and transition
\* buffers are with the driver or the pool, with one event, or about to be given
\* back.
BuffersAccounted ==
  /\ held < RetSize
  /\ lost = 0 /\ "again" \notin Faults =>
       /\ dmaFree + held + Cardinality({f \in Slots \X Lanes : buf[f[1]][f[2]] # 0})
            = DmaCount
       /\ trFree + Cardinality({s \in Slots : tr[s] >= from /\ tr[s] \notin Range(delivered)})
            = TrBuffers

\* All events have come through, or unconfigure() is done.
Settled ==
  \/ ended \/ spc = "done"
  \/ spc = "run" /\ (lost > 0 \/ configs > 1 \/ Len(delivered) = MaxEvents)

\* No thread waits for ever: while there are no faults every event comes
\* through in the first configuration (afterwards the pool of transition
\* buffers stays shut down, and allocateTr() no longer waits for one), and
\* unconfigure(), which waits for one thread after the other, ends whatever is
\* under way when it begins.
NeverStuck == []<>Settled
=============================================================================
