---------------------------- MODULE EventBuilder ----------------------------
(***************************************************************************)
(* The event builder shared by the trigger (TEB) and monitoring (MEB)      *)
(* event builders: psdaq/psdaq/eb/EventBuilder.cc, EbEvent.cc, EbEpoch.hh  *)
(* and the contract and dispatch code of EbAppBase.cc.                     *)
(*                                                                         *)
(* Contributors (DRPs) send batches of contributions, each batch from one  *)
(* source, in pulse-ID order and within one epoch.  The builder sorts them *)
(* into events, retires events in pulse-ID order as they complete, and     *)
(* fixes up (retires with missing contributions) those that cannot         *)
(* complete.  A pulse has at most one pending event, so the doubly linked  *)
(* lists of epochs and events are sets ordered by their keys.              *)
(***************************************************************************)
EXTENDS Naturals, FiniteSets

CONSTANTS
  Sources,     \* contributor IDs
  MaxPid,      \* bound on pulse IDs
  Contracts,   \* what the readout groups of a pulse can ask for
  Duration,    \* pulse IDs per epoch and per batch (prms.maxEntries)
  NumEpochs,   \* epochs in _epochFreelist
  NumEvents,   \* events in _eventFreelist
  Window,      \* DRP buffers: contributions a source may have unretired
  Lossy,       \* a source may skip a pulse it should contribute to
  Late         \* an event may time out while its contributions still travel

Pids == 1 .. MaxPid

ASSUME EbAssumption ==
  /\ MaxPid \in Nat
  /\ Contracts \subseteq SUBSET Sources
  /\ Duration \in Nat \ {0}
  /\ NumEpochs \in Nat \ {0}
  /\ NumEvents \in Nat \ {0}
  /\ Window \in Nat
  /\ Lossy \in BOOLEAN
  /\ Late \in BOOLEAN

VARIABLES
  contract,   \* [Pids -> Contracts]: the L1 trigger's choice for each pulse
  pos,        \* [Sources -> Nat]: last pulse taken from each source
  dead,       \* sources that stopped contributing
  src,        \* source of the batch in hand
  batch,      \* pulses of the batch in hand not yet inserted
  busy,       \* process() is running
  due,        \* newest complete event of this process() call, 0 if none
  pending,    \* pulses with an event on the pending list
  remaining,  \* [Pids -> SUBSET Sources]: EbEvent::_remaining
  aged,       \* pending events older than _eventTimeout
  epochs,     \* keys of the epochs on the pending list
  eventLut,   \* [0..NumEvents-1 -> pulse or 0]
  epochLut,   \* [0..NumEpochs-1 -> epoch key or NoEpoch]
  retired,    \* records of the events handed to the application
  thrown      \* the exception that ended the process, or "none"

flow  == <<contract, pos, dead>>
call  == <<src, batch, busy, due>>
lists == <<pending, remaining, aged, epochs, eventLut, epochLut, retired>>
vars  == <<flow, call, lists, thrown>>

Epoch(p)   == p \div Duration             \* key & _mask
NoEpoch    == MaxPid + 1                  \* null entry of _epochLut
epIndex(k) == k % NumEpochs
evIndex(p) == p % NumEvents

(***************************************************************************)
(* Definitions whose comment begins with "Slip:" are wrong on purpose.     *)
(* They are used only to show that the properties notice such a slip.      *)
(***************************************************************************)

Init ==
  /\ contract \in [Pids -> Contracts]
  /\ pos = [s \in Sources |-> 0]
  /\ dead = {}
  /\ src \in Sources
  /\ batch = {}
  /\ busy = FALSE
  /\ due = 0
  /\ pending = {}
  /\ remaining = [p \in Pids |-> {}]
  /\ aged = {}
  /\ epochs = {}
  /\ eventLut = [i \in 0 .. NumEvents - 1 |-> 0]
  /\ epochLut = [i \in 0 .. NumEpochs - 1 |-> NoEpoch]
  /\ retired = {}
  /\ thrown = "none"

-----------------------------------------------------------------------------
(***************************************************************************)
(* The pending list                                                        *)
(***************************************************************************)

\* Slip: the contracts are not compared.
BlocksAnyContract(p, d, rem) ==
  rem[p] # {} /\ rem[d] # {} /\ p \notin aged

\* Slip: the age is not looked at.
BlocksForever(p, d, rem) ==
  rem[p] # {} /\ (contract[p] # contract[d] \/ rem[d] # {})

\* An incomplete event stops the flush unless it is of the same contract as
\* a complete due event, or has timed out.
Blocks(p, d, rem) ==
  /\ rem[p] # {}
  /\ contract[p] # contract[d] \/ rem[d] # {}
  /\ p \notin aged

\* Slip: everything up to d goes, however incomplete.
FlushedRegardless(d, pend, rem) == {p \in pend : p <= d}

\* The events that _flush(d) retires: the head of the list, up to d.
Flushed(d, pend, rem) ==
  {p \in pend : p <= d /\ \A q \in pend : q <= p => ~Blocks(q, d, rem)}

\* Slip: the contributors are read off the contract.
BuiltFromContract(p, rem) ==
  [pid |-> p, from |-> contract[p], missing |-> rem[p]]

\* An event as the application sees it in process(event).
Built(p, rem) ==
  [pid |-> p, from |-> contract[p] \ rem[p], missing |-> rem[p]]

\* Slip: the lookup table keeps its entry.
RetireKeepingLut(gone, pend, rem, lut) ==
  /\ pending' = pend \ gone
  /\ remaining' = rem
  /\ aged' = aged \ gone
  /\ retired' = retired \cup {Built(p, rem) : p \in gone}
  /\ eventLut' = lut

\* _retire(): off the list, to the application, out of the lookup table.
Retire(gone, pend, rem, lut) ==
  /\ pending' = pend \ gone
  /\ remaining' = rem
  /\ aged' = aged \ gone
  /\ retired' = retired \cup {Built(p, rem) : p \in gone}
  /\ eventLut' = [i \in DOMAIN lut |-> IF lut[i] \in gone THEN 0 ELSE lut[i]]

Empty(k, pend) == \A p \in pend : Epoch(p) # k

\* Slip: older epochs are discarded without a look at their events.
StaleRegardless(k) == {j \in epochs : \E i \in epochs : j < i /\ i < k}

\* _flushBefore() from _match(): the empty epochs older than the one the new
\* epoch goes after, which is the list head, and all are discarded, if the new
\* one is the oldest.
Stale(k) ==
  {j \in epochs : /\ Empty(j, pending)
                  /\ (\E i \in epochs : j < i /\ i < k) \/ (\A i \in epochs : k < i)}

-----------------------------------------------------------------------------
(***************************************************************************)
(* Contributions                                                           *)
(***************************************************************************)

\* The pulses of which the builder holds this source's contribution.
Outstanding(s) == {p \in pending : s \in contract[p] \ remaining[p]}

Todo(s) == {p \in Pids : p > pos[s] /\ s \in contract[p]}

\* A batch is in pulse order; it has a gap only if the source lost
\* contributions.
Batch(s, B) ==
  /\ B # {}
  /\ Lossy \/ \A p \in B, q \in Todo(s) : q < p => q \in B
  /\ Cardinality(Outstanding(s)) + Cardinality(B) <= Window

\* _match(): find the epoch, or discard the stale ones and make it.
Match(k) ==
  LET kept == epochs \ Stale(k)
      lut == [i \in DOMAIN epochLut |->
                IF epochLut[i] \in Stale(k) THEN NoEpoch ELSE epochLut[i]]
  IN \/ /\ k \in epochs
        /\ UNCHANGED <<epochs, epochLut, thrown>>
     \/ /\ k \notin epochs
        /\ Cardinality(kept) < NumEpochs
        /\ epochs' = kept \cup {k}
        /\ epochLut' = [lut EXCEPT ![epIndex(k)] = IF @ = NoEpoch THEN k ELSE @]
        /\ UNCHANGED thrown
     \/ /\ k \notin epochs
        /\ Cardinality(kept) >= NumEpochs
        /\ epochs' = kept /\ epochLut' = lut
        /\ thrown' = "epochs"

\* pend() returns a batch, all of one epoch: process() starts.
Receive(s, B) ==
  /\ thrown = "none" /\ ~busy
  /\ s \notin dead
  /\ Batch(s, B)
  /\ \E k \in 0 .. MaxPid : (\A p \in B : Epoch(p) = k) /\ Match(k)
  /\ src' = s /\ batch' = B /\ busy' = TRUE /\ due' = 0
  /\ UNCHANGED <<flow, pending, remaining, aged, eventLut, retired>>

\* Slip: _remaining is taken for the list of those that have contributed.
ExpectedInverted(p) == contract[p] \ (IF p \in pending THEN remaining[p] ELSE {})

\* What the event of p still waits for when the source's contribution comes:
\* a pending event is added to, otherwise one is made with the contract.
Expected(p) == IF p \in pending THEN remaining[p] ELSE contract[p]

\* Slip: the last free event is not used.
ExhaustedEarly(p) == p \notin pending /\ Cardinality(pending) >= NumEvents - 1

Exhausted(p) == p \notin pending /\ Cardinality(pending) >= NumEvents

\* _insert(): EbEvent::_add() or _event().
Inserted(p)    == pending \cup {p}
InsertedRem(p) == [remaining EXCEPT ![p] = Expected(p) \ {src}]
InsertedLut(p) == IF p \in pending THEN eventLut
                  ELSE [eventLut EXCEPT ![evIndex(p)] = p]

\* One turn of process()'s loop: take the next contribution of the batch.
Take(p) ==
  /\ thrown = "none" /\ busy
  /\ p \in batch /\ \A q \in batch : p <= q
  /\ batch' = batch \ {p}
  /\ pos' = [pos EXCEPT ![src] = p]
  /\ UNCHANGED <<contract, dead, src, busy, epochs, epochLut>>

\* Insert it.  An event that completes becomes the due one; if the one that
\* was due has another contract, that one is flushed first.
Insert(p) ==
  /\ Take(p)
  /\ ~Exhausted(p) /\ src \in Expected(p)
  /\ LET rem == InsertedRem(p)
         completes == rem[p] = {}
         switches == completes /\ due # 0 /\ contract[due] # contract[p]
         gone == IF switches THEN Flushed(due, Inserted(p), rem) ELSE {}
     IN /\ Retire(gone, Inserted(p), rem, InsertedLut(p))
        /\ due' = IF completes THEN p ELSE due
  /\ UNCHANGED thrown

\* The freelist is exhausted, or EbEvent does not wait for this source.
InsertThrows(p) ==
  /\ Take(p)
  /\ Exhausted(p) \/ src \notin Expected(p)
  /\ thrown' = IF Exhausted(p) THEN "events" ELSE "source"
  /\ UNCHANGED <<due, pending, remaining, aged, eventLut, retired>>

\* After the last contribution: flush up to the due event.
FlushDue ==
  /\ thrown = "none" /\ busy /\ batch = {} /\ due # 0
  /\ Retire(Flushed(due, pending, remaining), pending, remaining, eventLut)
  /\ busy' = FALSE /\ due' = 0
  /\ UNCHANGED <<flow, src, batch, epochs, epochLut, thrown>>

\* _flush(): up to the newest event of the newest epoch, if that has any.
FlushNewest ==
  LET newest == {p \in pending : \A k \in epochs : k <= Epoch(p)}
  IN \/ /\ newest = {}
        /\ UNCHANGED <<pending, remaining, aged, retired, eventLut>>
     \/ \E d \in newest :
          /\ \A p \in newest : p <= d
          /\ Retire(Flushed(d, pending, remaining), pending, remaining, eventLut)

\* No event completed: _tryFlush() flushes if the last flush is 100 ms ago.
TryFlush ==
  /\ thrown = "none" /\ busy /\ batch = {} /\ due = 0
  /\ FlushNewest \/ UNCHANGED <<pending, remaining, aged, retired, eventLut>>
  /\ busy' = FALSE
  /\ UNCHANGED <<flow, src, batch, due, epochs, epochLut, thrown>>

-----------------------------------------------------------------------------
(***************************************************************************)
(* Time, failure and reconfiguration                                       *)
(***************************************************************************)

OldestEmpty ==
  \E k \in epochs : Empty(k, pending) /\ \A j \in epochs : k <= j

\* pend() timed out.  If the oldest epoch has an event, try to flush all;
\* otherwise the application's flush() runs, which leaves the builder alone.
Expired ==
  /\ thrown = "none" /\ ~busy
  /\ epochs # {} /\ ~OldestEmpty
  /\ FlushNewest
  /\ UNCHANGED <<flow, call, epochs, epochLut, thrown>>

\* _eventTimeout passes for an event.  Unless Late, it is longer than the skew
\* between contributors: the live ones have delivered up to that pulse.
Age(p) ==
  /\ thrown = "none"
  /\ p \in pending \ aged
  /\ Late \/ \A s \in Sources \ dead : \A q \in Todo(s) : p < q
  /\ aged' = aged \cup {p}
  /\ UNCHANGED <<flow, call, pending, remaining, epochs, eventLut, epochLut,
                 retired, thrown>>

\* A contributor stops for good.
Die(s) ==
  /\ s \notin dead
  /\ src = s => ~busy
  /\ dead' = dead \cup {s}
  /\ UNCHANGED <<contract, pos, call, lists, thrown>>

\* unconfigure() clears the builder.  The links are gone with it, so only
\* later pulses (than m) come after it.
Clear(m) ==
  /\ thrown = "none" /\ ~busy
  /\ \A s \in Sources : pos[s] <= m
  /\ pending' = {} /\ epochs' = {} /\ aged' = {}
  /\ eventLut' = [i \in DOMAIN eventLut |-> 0]
  /\ epochLut' = [i \in DOMAIN epochLut |-> NoEpoch]
  /\ pos' = [s \in Sources |-> m]
  /\ UNCHANGED <<contract, dead, call, remaining, retired, thrown>>

Next ==
  \/ \E s \in Sources : \E B \in SUBSET Todo(s) : Receive(s, B)
  \/ \E p \in Pids : Insert(p)
  \/ \E p \in Pids : InsertThrows(p)
  \/ FlushDue
  \/ TryFlush
  \/ Expired
  \/ \E p \in Pids : Age(p)
  \/ \E s \in Sources : Die(s)
  \/ \E m \in Pids : Clear(m)

Spec == Init /\ [][Next]_vars

\* The event builder's thread polls with a 100 ms timeout, so a call in hand
\* is finished, expired() is called when nothing arrives, and time passes.
\* The fabric delivers what a live contributor sends.
Fairness ==
  /\ \A s \in Sources : WF_vars(\E B \in SUBSET Todo(s) : Receive(s, B))
  /\ WF_vars(\E p \in Pids : Insert(p) \/ InsertThrows(p))
  /\ WF_vars(FlushDue)
  /\ WF_vars(TryFlush)
  /\ WF_vars(Expired)
  /\ \A p \in Pids : WF_vars(Age(p))

FairSpec == Spec /\ Fairness

-----------------------------------------------------------------------------
(***************************************************************************)
(* Properties                                                              *)
(***************************************************************************)

\* The type of the state.  Only events on the pending list can time out, and
\* table entries are pulses, epochs or empty.
TypeOK ==
  /\ contract \in [Pids -> Contracts]
  /\ pos \in [Sources -> 0 .. MaxPid]
  /\ dead \subseteq Sources
  /\ src \in Sources
  /\ batch \subseteq Pids
  /\ busy \in BOOLEAN
  /\ due \in 0 .. MaxPid
  /\ pending \subseteq Pids
  /\ remaining \in [Pids -> SUBSET Sources]
  /\ aged \subseteq pending
  /\ epochs \subseteq 0 .. MaxPid
  /\ eventLut \in [0 .. NumEvents - 1 -> 0 .. MaxPid]
  /\ epochLut \in [0 .. NumEpochs - 1 -> 0 .. NoEpoch]
  /\ retired \subseteq [pid : Pids, from : SUBSET Sources, missing : SUBSET Sources]
  /\ thrown \in {"none", "epochs", "events", "source"}

\* Pulse IDs advance at the application: nothing pending is as old as an
\* event already retired (Teb::process() throws otherwise).
InOrder == \A r \in retired, p \in pending : r.pid < p

\* However often a pulse is retired (a late contribution makes a second event
\* of it), no contribution is handed to the application twice.
NoDoubleDelivery ==
  /\ \A r, t \in retired :
       r.pid = t.pid /\ r # t => r.from \cap t.from = {}
  /\ \A r \in retired, p \in pending :
       r.pid = p => r.from \cap (contract[p] \ remaining[p]) = {}

\* The lookup tables hold no dangling pointers: every entry is on the list,
\* in the slot its key hashes to.
LutSound ==
  /\ \A i \in DOMAIN eventLut :
       eventLut[i] # 0 => eventLut[i] \in pending /\ evIndex(eventLut[i]) = i
  /\ \A i \in DOMAIN epochLut :
       epochLut[i] # NoEpoch => epochLut[i] \in epochs /\ epIndex(epochLut[i]) = i

\* _flushBefore() never discards an epoch that still holds events.
EpochsHoldEvents == \A p \in pending : Epoch(p) \in epochs

\* Contributions from a source in pulse order always find their event
\* waiting for them: EbEvent never throws.
NoSourceThrow == thrown # "source"

\* An event fixed up before it timed out misses only contributions that can
\* no longer come: every missing source has moved past that pulse.
FixupOnlyWhenLost ==
  [][\A r \in retired' \ retired :
       r.pid \notin aged => \A s \in r.missing : pos'[s] > r.pid]_vars

\* An event is on the pending list for ever only if the oldest epoch stays
\* empty, which makes expired() return early: nothing else keeps the flushes
\* and timeouts from retiring it.
StuckOnlyBehindEmptyEpoch ==
  \A p \in Pids : <>[](p \in pending) => <>[]OldestEmpty

\* Twice the contributors' buffers are events enough for a source in every
\* contract and others in some: _event() finds one free.
PoolSuffices == thrown # "events"
=============================================================================
