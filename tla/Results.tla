------------------------------- MODULE Results -------------------------------
(***************************************************************************)
(* The way of a DRP's inputs to the trigger event builders (TEBs) and of   *)
(* the results back: psdaq/psdaq/eb/TebContributor.cc, EbCtrbInBase.cc and *)
(* the result batches of teb.cc.                                           *)
(*                                                                         *)
(* A DRP's collector thread gathers inputs into batches, each within one   *)
(* epoch of pulse IDs, queues them on _pending and sends them to the TEB   *)
(* of that epoch.  A TEB answers with batches of results.  The DRP's       *)
(* receiver thread matches results with inputs; those of several TEBs come *)
(* in any order.  That a TEB builds events in pulse ID order, provided one *)
(* DRP is in all of them, is shown for EventBuilder.                       *)
(***************************************************************************)
EXTENDS Naturals, Sequences, FiniteSetsExt, SequencesExt

CONSTANTS
  Drps,         \* the DRPs of the partition
  Common,       \* the one that is in the common readout group
  Contractors,  \* the DRPs that provide TEB input
  NumTebs,      \* number of TEBs
  MaxPid,       \* bound on pulse IDs
  Kinds,        \* kinds of datagrams: "l1accept", "slowupdate", "transition"
  MaxEntries,   \* pulse IDs per epoch
  NumBuffers,   \* slots of a DRP's input region, and of a TEB's result region
  DrpStart,     \* slots a DRP has used before the first pulse
  TebStart,     \* slots a TEB has used before the first pulse
  Window,       \* inputs a DRP may have undelivered
  TrBuffers     \* TEB_TR_BUFFERS

Pids == 1 .. MaxPid
Tebs == 0 .. NumTebs - 1

ASSUME ResultsAssumption ==
  /\ Common \in Drps /\ Contractors \subseteq Drps /\ Common \in Contractors
  /\ NumTebs \in Nat \ {0} /\ MaxPid \in Nat \ {0} /\ MaxEntries \in Nat \ {0}
  /\ NumBuffers \in Nat \ {0} /\ Window \in 1 .. NumBuffers - 1
  /\ DrpStart \in Nat /\ TebStart \in Nat
  /\ TrBuffers \in Nat \ {0}
  /\ Kinds \subseteq {"l1accept", "slowupdate", "transition"}

VARIABLES
  kind,       \* [Pids -> Kinds]
  groups,     \* [Pids -> SUBSET Drps]: who reads the pulse out
  \* DRP
  read,       \* [Drps -> 0 .. MaxPid]: last pulse the collector handled
  open,       \* [Drps -> Seq(Pids)]: _batch
  pending,    \* [Drps -> Seq(Seq(Pids))]: _pending
  inputs,     \* [Drps -> Seq(Pids)]: _inputs, left over from the first batch
  deferred,   \* [Drps -> SUBSET Seq(Pids)]: _deferred
  matching,   \* DRPs whose receiver is in _matchUp()
  delivered,  \* [Drps -> Seq(Pids)]: what process(result, index) was given
  trFree,     \* [Drps -> [Tebs -> Nat]]: transition buffers left at a TEB
  \* TEB
  got,        \* [Tebs -> SUBSET (Drps \X Pids)]: contributions not yet built
  count,      \* [Tebs -> Nat]: _eventIdx
  result,     \* [Tebs -> Seq(Pids)]: _batch of results
  dsts,       \* [Tebs -> SUBSET Drps]: its receivers
  wire        \* [Tebs -> [Drps -> Seq(Seq(Pids))]]: result batches under way

pulse == <<kind, groups>>
drp   == <<read, open, pending, inputs, deferred, matching, delivered, trFree>>
teb   == <<got, count, result, dsts, wire>>
vars  == <<pulse, drp, teb>>

Epoch(p) == p \div MaxEntries
Dst(p)   == Epoch(p) % NumTebs        \* the TEB selected for the epoch of p
InCommon(p) == Common \in groups[p]

(***************************************************************************)
(* Definitions whose comment begins with "Slip:" are wrong on purpose.     *)
(* They are used only to show that the properties notice such a slip.      *)
(***************************************************************************)

\* Transitions go to everybody; the last pulse is one.
Init ==
  /\ kind \in [Pids -> Kinds] /\ kind[MaxPid] = "transition"
  /\ groups \in [Pids -> (SUBSET Drps) \ {{}}]
  /\ \A p \in Pids : kind[p] # "l1accept" => groups[p] = Drps
  /\ read = [d \in Drps |-> 0]
  /\ open = [d \in Drps |-> << >>]
  /\ pending = [d \in Drps |-> << >>]
  /\ inputs = [d \in Drps |-> << >>]
  /\ deferred = [d \in Drps |-> {}]
  /\ matching = {}
  /\ delivered = [d \in Drps |-> << >>]
  /\ trFree = [d \in Drps |-> [t \in Tebs |-> TrBuffers]]
  /\ got = [t \in Tebs |-> {}]
  /\ count = [t \in Tebs |-> 0]
  /\ result = [t \in Tebs |-> << >>]
  /\ dsts = [t \in Tebs |-> {}]
  /\ wire = [t \in Tebs |-> [d \in Drps |-> << >>]]

-----------------------------------------------------------------------------
(***************************************************************************)
(* Batches, which DRPs and TEBs make in the same way                       *)
(***************************************************************************)

\* The region of batches starts again at its first slot, or the epoch of the
\* batch has expired: the batch is posted before p.
Closes(b, p, index) ==
  b # << >> /\ (index % NumBuffers = 0 \/ Epoch(b[1]) # Epoch(p))

Flushes(p) == kind[p] = "transition"

\* Slip: a transition is combined into the batch whatever its epoch.
PostedWithTransition(b, p, index) ==
  IF Flushes(p) THEN <<Append(b, p)>>
  ELSE IF Closes(b, p, index) THEN <<b>> ELSE << >>

\* The batches that adding p to batch b posts, and the batch that stays.
Posted(b, p, index) ==
  LET mine == IF Closes(b, p, index) THEN <<p>> ELSE Append(b, p)
  IN (IF Closes(b, p, index) THEN <<b>> ELSE << >>)
       \o (IF Flushes(p) THEN <<mine>> ELSE << >>)

Kept(b, p, index) ==
  CASE Flushes(p) -> << >>
    [] ~Flushes(p) /\ Closes(b, p, index) -> <<p>>
    [] OTHER -> Append(b, p)

-----------------------------------------------------------------------------
(***************************************************************************)
(* The collector thread: TebContributor::process()                         *)
(***************************************************************************)

\* The inputs of d up to pulse n.
Inputs(d, n) == {p \in 1 .. n : d \in groups[p]}

\* A transition is also sent alone, which marks it as the end of a list.
SentAlone(d, p) == kind[p] # "l1accept" /\ d \in Contractors /\ NumTebs > 1

\* What a reader of the batch finds: it stops at the first end of a list.
Visible(d, b) ==
  LET ends == {i \in DOMAIN b : SentAlone(d, b[i])}
  IN IF ends = {} THEN b ELSE SubSeq(b, 1, Min(ends))

\* A transition sent alone to TEB t takes one of the buffers it has for d.
TakesBuffer(d, p, t) == SentAlone(d, p) /\ Dst(p) # t

\* _post(): the batches bs are on their way, and p, if it is sent alone, goes
\* to the other TEBs, each with a transition buffer.
Post(d, bs, p) ==
  /\ got' = [t \in Tebs |-> got[t]
       \cup {c \in {d} \X Pids :
               /\ d \in Contractors
               /\ \E i \in DOMAIN bs :
                    LET b == Visible(d, bs[i])
                    IN InCommon(b[1]) /\ Dst(b[1]) = t /\ c[2] \in Range(b)}
       \cup {c \in {d} \X {p} : SentAlone(d, p) /\ Dst(p) # t}]
  /\ trFree' = [trFree EXCEPT ![d] = [t \in Tebs |->
       IF TakesBuffer(d, p, t) THEN @[t] - 1 ELSE @[t]]]

\* Slip: the batch in progress is given up without being posted.
BypassedOnly(d, p) == <<<<p>>>>

\* p goes past the TEBs, after the batch in progress is posted.
Bypassed(d, p) == (IF open[d] = << >> THEN << >> ELSE <<open[d]>>) \o <<<<p>>>>

\* The next input of d is in the common readout group or goes past the TEB.
Collect(d, p) ==
  /\ p > read[d] /\ d \in groups[p] /\ \A q \in Pids :
       read[d] < q /\ q < p => d \notin groups[q]
  /\ Cardinality(Inputs(d, read[d])) - Len(delivered[d]) < Window
  /\ SentAlone(d, p) => \A t \in Tebs \ {Dst(p)} : trFree[d][t] > 0
  /\ LET n  == DrpStart + Cardinality(Inputs(d, p))
         bs == IF InCommon(p) THEN Posted(open[d], p, n)
               ELSE Bypassed(d, p)
     IN /\ open' = [open EXCEPT ![d] =
              IF InCommon(p) THEN Kept(@, p, n) ELSE << >>]
        /\ pending' = [pending EXCEPT ![d] =
              @ \o [i \in DOMAIN bs |-> Visible(d, bs[i])]]
        /\ Post(d, bs, p)
  /\ read' = [read EXCEPT ![d] = p]
  /\ UNCHANGED <<pulse, inputs, deferred, matching, delivered, count, result,
                 dsts, wire>>

-----------------------------------------------------------------------------
(***************************************************************************)
(* The TEB                                                                 *)
(***************************************************************************)

Pending(t) == {c[2] : c \in got[t]}

\* Posts batches of results to those that are to get one.
Send(t, bs, to) ==
  wire' = [wire EXCEPT ![t] = [d \in Drps |->
             @[d] \o (IF d \in to THEN bs ELSE << >>)]]

\* Slip: the receivers are those of the newest event.
ReceiversLast(t, p, closes) == groups[p]

\* The receivers of the batch that p is in.
Receivers(t, p, closes) == groups[p] \cup (IF closes THEN {} ELSE dsts[t])

\* Teb::process() of an event of this TEB's epochs: a result.  The batch that
\* closes goes to its own receivers, the one that p flushes to those of p too.
Respond(t, p) ==
  LET cur == result[t]
      closes == Closes(cur, p, TebStart + count[t])
      bs == Posted(cur, p, TebStart + count[t])
      to == Receivers(t, p, closes)
  IN /\ wire' = [wire EXCEPT ![t] = [d \in Drps |->
           @[d] \o (IF closes /\ d \in dsts[t] THEN <<bs[1]>> ELSE << >>)
                \o (IF Flushes(p) /\ d \in to THEN <<bs[Len(bs)]>> ELSE << >>)]]
     /\ result' = [result EXCEPT ![t] = Kept(cur, p, TebStart + count[t])]
     /\ dsts' = [dsts EXCEPT ![t] = IF Flushes(p) THEN {} ELSE to]
     /\ UNCHANGED trFree

\* A transition that another TEB responds to: the batch in progress is posted,
\* the transition buffers are given back.
Acknowledge(t, p) ==
  /\ IF result[t] # << >> /\ (Flushes(p) \/ Epoch(result[t][1]) # Epoch(p))
     THEN /\ Send(t, <<result[t]>>, dsts[t])
          /\ result' = [result EXCEPT ![t] = << >>]
          /\ dsts' = [dsts EXCEPT ![t] = {}]
     ELSE UNCHANGED <<wire, result, dsts>>
  /\ trFree' = [d \in Drps |->
       IF <<d, p>> \in got[t] THEN [trFree[d] EXCEPT ![t] = @ + 1] ELSE trFree[d]]

\* The oldest event is complete and processed.
Build(t, p) ==
  /\ p \in Pending(t) /\ \A q \in Pending(t) : p <= q
  /\ \A d \in groups[p] \cap Contractors : <<d, p>> \in got[t]
  /\ IF Dst(p) = t THEN Respond(t, p) ELSE Acknowledge(t, p)
  /\ got' = [got EXCEPT ![t] = @ \ (Drps \X {p})]
  /\ count' = [count EXCEPT ![t] = @ + 1]
  /\ UNCHANGED <<pulse, read, open, pending, inputs, deferred, matching,
                 delivered>>

\* Slip: the batch that was posted is not given up.
FlushKeeping(t) ==
  /\ got[t] = {} /\ result[t] # << >>
  /\ Send(t, <<result[t]>>, dsts[t])
  /\ UNCHANGED <<pulse, drp, got, count, result, dsts>>

\* Teb::flush(): the event builder timed out and is empty.
Flush(t) ==
  /\ got[t] = {} /\ result[t] # << >>
  /\ Send(t, <<result[t]>>, dsts[t])
  /\ result' = [result EXCEPT ![t] = << >>]
  /\ dsts' = [dsts EXCEPT ![t] = {}]
  /\ UNCHANGED <<pulse, drp, got, count>>

-----------------------------------------------------------------------------
(***************************************************************************)
(* The receiver thread: EbCtrbInBase::_process()                           *)
(***************************************************************************)

\* A batch of results arrives and is deferred.
Receive(d, t) ==
  /\ d \notin matching /\ wire[t][d] # << >>
  /\ deferred' = [deferred EXCEPT ![d] = @ \cup {Head(wire[t][d])}]
  /\ wire' = [wire EXCEPT ![t][d] = Tail(@)]
  /\ matching' = matching \cup {d}
  /\ UNCHANGED <<pulse, read, open, pending, inputs, delivered, trFree, got,
                 count, result, dsts>>

\* The inputs to go on with: what was left, or a new batch.
Current(d) == IF inputs[d] # << >> THEN inputs[d]
              ELSE IF pending[d] # << >> THEN Head(pending[d]) ELSE << >>

\* Nothing arrives for 100 ms: sweep.
Timeout(d) ==
  /\ d \notin matching /\ \A t \in Tebs : wire[t][d] = << >>
  /\ Current(d) # << >> /\ (deferred[d] # {} \/ ~InCommon(Current(d)[1]))
  /\ matching' = matching \cup {d}
  /\ UNCHANGED <<pulse, read, open, pending, inputs, deferred, delivered,
                 trFree, teb>>

\* _deliverBypass(): an input of which no TEB knows.
Bypass(d) ==
  /\ d \in matching /\ Current(d) # << >> /\ ~InCommon(Current(d)[1])
  /\ delivered' = [delivered EXCEPT ![d] = Append(@, Current(d)[1])]
  /\ pending' = [pending EXCEPT ![d] = Tail(@)]
  /\ inputs' = [inputs EXCEPT ![d] = << >>]
  /\ UNCHANGED <<pulse, read, open, deferred, matching, trFree, teb>>

\* The oldest of the deferred batches.
Oldest(d, rs) == rs \in deferred[d] /\ \A q \in deferred[d] : rs[1] <= q[1]

\* _deliver(): how many of the inputs have their result in rs.
Matched(is, rs) ==
  LET unmatched == {i \in DOMAIN is : is[i] \notin Range(rs)}
  IN IF unmatched = {} THEN Len(is) ELSE Min(unmatched) - 1

\* The results that remain: those newer than the inputs that are through, and
\* than the next input.  A result without an input is discarded.
Rest(is, rs) ==
  LET n == Matched(is, rs)
      bound == IF n = Len(is) THEN is[n] ELSE is[n + 1]
      newer == {i \in DOMAIN rs : rs[i] > bound}
  IN IF newer = {} THEN << >> ELSE SubSeq(rs, Min(newer), Len(rs))

\* One turn of _matchUp()'s loop.  It ends if neither results nor inputs got
\* any further.
Match(d) ==
  /\ d \in matching /\ Current(d) # << >> /\ InCommon(Current(d)[1])
  /\ \E rs \in deferred[d] :
       /\ Oldest(d, rs)
       /\ LET is   == Current(d)
              n    == Matched(is, rs)
              rest == Rest(is, rs)
          IN /\ delivered' = [delivered EXCEPT ![d] = @ \o SubSeq(is, 1, n)]
             /\ inputs' = [inputs EXCEPT ![d] = SubSeq(is, n + 1, Len(is))]
             /\ pending' = [pending EXCEPT ![d] =
                              IF n = Len(is) THEN Tail(@) ELSE @]
             /\ deferred' = [deferred EXCEPT ![d] =
                  (@ \ {rs}) \cup (IF rest = << >> THEN {} ELSE {rest})]
             /\ matching' = IF n = 0 /\ rest = rs THEN matching \ {d} ELSE matching
  /\ UNCHANGED <<pulse, read, open, trFree, teb>>

\* There are no inputs, or no results for them.
Done(d) ==
  /\ d \in matching
  /\ Current(d) # << >> => InCommon(Current(d)[1]) /\ deferred[d] = {}
  /\ matching' = matching \ {d}
  /\ inputs' = [inputs EXCEPT ![d] = Current(d)]
  /\ UNCHANGED <<pulse, read, open, pending, deferred, delivered, trFree, teb>>

Next ==
  \/ \E d \in Drps, p \in Pids : Collect(d, p)
  \/ \E t \in Tebs, p \in Pids : Build(t, p)
  \/ \E t \in Tebs : Flush(t)
  \/ \E d \in Drps, t \in Tebs : Receive(d, t)
  \/ \E d \in Drps : Timeout(d)
  \/ \E d \in Drps : Bypass(d)
  \/ \E d \in Drps : Match(d)
  \/ \E d \in Drps : Done(d)

Spec == Init /\ [][Next]_vars

\* The threads of DRPs and TEBs poll with timeouts and the triggers go on.
Collector(d) == \E p \in Pids : Collect(d, p)
Receiver(d)  == (\E t \in Tebs : Receive(d, t)) \/ Timeout(d) \/ Bypass(d)
                  \/ Match(d) \/ Done(d)
Builder(t)   == (\E p \in Pids : Build(t, p)) \/ Flush(t)

Fairness ==
  /\ \A d \in Drps : WF_vars(Collector(d)) /\ WF_vars(Receiver(d))
  /\ \A t \in Tebs : WF_vars(Builder(t))

FairSpec == Spec /\ Fairness

-----------------------------------------------------------------------------
(***************************************************************************)
(* Properties                                                              *)
(***************************************************************************)

Batches == Seq(Pids) \ {<< >>}

\* The type of the state.  Batches are never empty, and a DRP never takes more
\* transition buffers at a TEB than that has for it (_getTrBufIdx()).
TypeOK ==
  /\ kind \in [Pids -> Kinds] /\ groups \in [Pids -> SUBSET Drps]
  /\ read \in [Drps -> 0 .. MaxPid]
  /\ \A d \in Drps :
       /\ open[d] \in Seq(Pids) /\ inputs[d] \in Seq(Pids)
       /\ pending[d] \in Seq(Batches) /\ deferred[d] \subseteq Batches
       /\ delivered[d] \in Seq(Pids)
       /\ \A t \in Tebs : trFree[d][t] \in 0 .. TrBuffers /\ wire[t][d] \in Seq(Batches)
  /\ matching \subseteq Drps
  /\ got \in [Tebs -> SUBSET (Drps \X Pids)]
  /\ \A t \in Tebs : count[t] \in 0 .. MaxPid /\ result[t] \in Seq(Pids)
  /\ dsts \in [Tebs -> SUBSET Drps]

\* EbReceiver::process() aborts on a "jumping index": the inputs of a DRP are
\* delivered in the order they were collected in, none left out, none twice,
\* in whatever order the TEBs answer.
DeliveredInSequence ==
  \A d \in Drps :
    /\ \A i, j \in DOMAIN delivered[d] : i < j => delivered[d][i] < delivered[d][j]
    /\ \A q \in Range(delivered[d]) :
         q \in Inputs(d, read[d]) /\ Inputs(d, q) \subseteq Range(delivered[d])

\* _defer() asserts that no two deferred batches start with the same pulse.
DeferredApart ==
  \A d \in Drps : \A a, b \in deferred[d] : a # b => Range(a) \cap Range(b) = {}

\* An input for which neither a TEB holds the result nor one is on the wire or
\* deferred is in a batch that a TEB has yet to build: none waits for a result
\* that cannot come.
NoneForgotten ==
  \A d \in Drps : \A p \in Inputs(d, read[d]) :
    LET t == Dst(p)
    IN \/ p \in Range(delivered[d])
       \/ p \in Range(open[d])
       \/ ~InCommon(p)
       \/ p \in Pending(t)
       \/ p \in Range(result[t]) /\ d \in dsts[t]
       \/ \E k \in DOMAIN wire[t][d] : p \in Range(wire[t][d][k])
       \/ \E rs \in deferred[d] : p \in Range(rs)
       \/ \E c \in Contractors \cap groups[p] : read[c] < p \/ p \in Range(open[c])

\* Everything that was read out is delivered.
AllDelivered == <>(\A d \in Drps : Range(delivered[d]) = Inputs(d, MaxPid))
=============================================================================
