------------------------- MODULE EventBuilderProofs -------------------------
(***************************************************************************)
(* Proofs about the event builder, for any contributors, contracts, pool   *)
(* sizes and batch size, whether or not contributions are lost or late.    *)
(* Two theorems need more: that events come out in order, that nothing is  *)
(* lost or late and some contributor is in all contracts; that the pool    *)
(* suffices, that it has an event for every buffer of every contributor.   *)
(***************************************************************************)
EXTENDS EventBuilder, FiniteSetTheorems, TLAPS

-----------------------------------------------------------------------------
(***************************************************************************)
(* The inductive invariant                                                 *)
(***************************************************************************)

\* The batch in hand: what is left of it lies ahead of the source's position
\* and of the due event, in contracts that name the source.
BatchInv ==
  /\ batch # {} => busy
  /\ \A p \in batch : pos[src] < p /\ due < p /\ src \in contract[p]
  /\ thrown = "none" => \A p \in batch : Epoch(p) \in epochs

\* The due event is a complete event on the list.
DueInv == due # 0 => due \in pending /\ remaining[due] = {}

\* An event records only what its sources have delivered.
PendingInv ==
  \A p \in pending :
    /\ remaining[p] \subseteq contract[p]
    /\ \A s \in contract[p] \ remaining[p] : p <= pos[s]

RetiredInv == \A r \in retired : \A s \in r.from : r.pid <= pos[s]

IdleInv == ~busy => due = 0

IInv ==
  /\ TypeOK /\ BatchInv /\ DueInv /\ PendingInv /\ RetiredInv /\ IdleInv
  /\ NoDoubleDelivery /\ LutSound /\ EpochsHoldEvents /\ NoSourceThrow

LEMMA InitInv == Init => IInv
<1> SUFFICES ASSUME Init PROVE IInv
  OBVIOUS
<1>1. TypeOK
  <2>1. NumEvents \in Nat /\ NumEpochs \in Nat /\ MaxPid \in Nat
    BY EbAssumption DEF EbAssumption
  <2>2. /\ pos \in [Sources -> 0 .. MaxPid]
        /\ remaining \in [Pids -> SUBSET Sources]
    BY <2>1 DEF Init
  <2>3. /\ eventLut \in [0 .. NumEvents - 1 -> 0 .. MaxPid]
        /\ epochLut \in [0 .. NumEpochs - 1 -> 0 .. NoEpoch]
    BY <2>1 DEF Init, NoEpoch
  <2>4. busy \in BOOLEAN
    BY Zenon DEF Init
  <2> QED
    BY <2>1, <2>2, <2>3, <2>4 DEF Init, TypeOK
<1>2. BatchInv /\ DueInv /\ PendingInv /\ RetiredInv /\ IdleInv
  BY DEF Init, BatchInv, DueInv, PendingInv, RetiredInv, IdleInv
<1>3. NoDoubleDelivery /\ LutSound /\ EpochsHoldEvents /\ NoSourceThrow
  BY DEF Init, NoDoubleDelivery, LutSound, EpochsHoldEvents, NoSourceThrow
<1> QED
  BY <1>1, <1>2, <1>3 DEF IInv

-----------------------------------------------------------------------------
(***************************************************************************)
(* Retirement                                                              *)
(***************************************************************************)

\* What Retire() needs of the list it is given, and what it keeps: the lists
\* passed to it are those of the state, or those after an insertion.
ListInv(pend, rem, lut, ps) ==
  /\ pend \subseteq Pids
  /\ rem \in [Pids -> SUBSET Sources]
  /\ lut \in [0 .. NumEvents - 1 -> 0 .. MaxPid]
  /\ \A p \in pend : /\ rem[p] \subseteq contract[p]
                     /\ \A s \in contract[p] \ rem[p] : p <= ps[s]
  /\ \A i \in DOMAIN lut : lut[i] # 0 => lut[i] \in pend /\ evIndex(lut[i]) = i
  /\ \A r \in retired, p \in pend :
       r.pid = p => r.from \cap (contract[p] \ rem[p]) = {}

LEMMA RetireInv ==
  ASSUME NEW gone, NEW pend, NEW rem, NEW lut,
         ListInv(pend, rem, lut, pos'), gone \subseteq pend,
         TypeOK, aged \subseteq pend, NoDoubleDelivery,
         \A r \in retired : \A s \in r.from : r.pid <= pos'[s],
         pos' \in [Sources -> 0 .. MaxPid],
         contract' = contract,
         Retire(gone, pend, rem, lut)
  PROVE  /\ pending' \subseteq Pids /\ pending' = pend \ gone
         /\ remaining' \in [Pids -> SUBSET Sources] /\ remaining' = rem
         /\ aged' \subseteq pending'
         /\ eventLut' \in [0 .. NumEvents - 1 -> 0 .. MaxPid]
         /\ retired' \subseteq [pid : Pids, from : SUBSET Sources, missing : SUBSET Sources]
         /\ PendingInv' /\ RetiredInv' /\ NoDoubleDelivery'
         /\ \A i \in DOMAIN eventLut' :
              eventLut'[i] # 0 => eventLut'[i] \in pending' /\ evIndex(eventLut'[i]) = i
<1> USE EbAssumption DEF EbAssumption
<1>1. /\ pending' = pend \ gone /\ remaining' = rem /\ aged' = aged \ gone
      /\ retired' = retired \cup {Built(p, rem) : p \in gone}
      /\ eventLut' = [i \in DOMAIN lut |-> IF lut[i] \in gone THEN 0 ELSE lut[i]]
  BY DEF Retire
<1>2. \A p \in gone : Built(p, rem).pid = p /\ Built(p, rem).from = contract[p] \ rem[p]
                      /\ Built(p, rem).missing = rem[p]
  BY DEF Built
<1>3. \A p \in gone : contract[p] \subseteq Sources
  BY DEF ListInv, TypeOK
<1>4. retired' \subseteq [pid : Pids, from : SUBSET Sources, missing : SUBSET Sources]
  <2>1. \A p \in gone : Built(p, rem) \in [pid : Pids, from : SUBSET Sources, missing : SUBSET Sources]
    BY <1>3 DEF Built, ListInv
  <2> QED BY <1>1, <2>1 DEF TypeOK
<1>5. /\ eventLut' \in [0 .. NumEvents - 1 -> 0 .. MaxPid]
      /\ \A i \in DOMAIN eventLut' :
              eventLut'[i] # 0 => eventLut'[i] \in pending' /\ evIndex(eventLut'[i]) = i
  BY <1>1 DEF ListInv
<1>6. PendingInv'
  BY <1>1 DEF PendingInv, ListInv
<1>7. RetiredInv'
  <2> SUFFICES ASSUME NEW r \in retired', NEW s \in r.from PROVE r.pid <= pos'[s]
    BY DEF RetiredInv
  <2>1. CASE r \in retired
    BY <2>1
  <2>2. CASE r \in {Built(p, rem) : p \in gone}
    <3>1. PICK p \in gone : r = Built(p, rem)
      BY <2>2
    <3> QED BY <3>1, <1>2 DEF ListInv
  <2> QED BY <1>1, <2>1, <2>2
<1>8. NoDoubleDelivery'
  <2>1. ASSUME NEW r \in retired', NEW t \in retired', r.pid = t.pid, r # t
        PROVE  r.from \cap t.from = {}
    <3>1. CASE r \in retired /\ t \in retired
      BY <2>1, <3>1 DEF NoDoubleDelivery
    <3>2. CASE r \in retired /\ t \in {Built(p, rem) : p \in gone}
      <4>1. PICK p \in gone : t = Built(p, rem)
        BY <3>2
      <4> QED BY <2>1, <3>2, <4>1, <1>2 DEF ListInv
    <3>3. CASE r \in {Built(p, rem) : p \in gone} /\ t \in retired
      <4>1. PICK p \in gone : r = Built(p, rem)
        BY <3>3
      <4> QED BY <2>1, <3>3, <4>1, <1>2, SMTT(30) DEF ListInv
    <3>4. CASE r \in {Built(p, rem) : p \in gone} /\ t \in {Built(p, rem) : p \in gone}
      <4>1. PICK p \in gone : r = Built(p, rem)
        BY <3>4
      <4>2. PICK q \in gone : t = Built(q, rem)
        BY <3>4
      <4> QED BY <2>1, <4>1, <4>2, <1>2
    <3> QED BY <1>1, <3>1, <3>2, <3>3, <3>4
  <2>2. ASSUME NEW r \in retired', NEW p \in pending', r.pid = p
        PROVE  r.from \cap (contract'[p] \ remaining'[p]) = {}
    <3>1. CASE r \in retired
      BY <1>1, <2>2, <3>1 DEF ListInv
    <3>2. CASE r \in {Built(q, rem) : q \in gone}
      BY <1>1, <1>2, <2>2, <3>2
    <3> QED BY <1>1, <3>1, <3>2
  <2> QED BY <2>1, <2>2 DEF NoDoubleDelivery
<1> QED
  BY <1>1, <1>4, <1>5, <1>6, <1>7, <1>8 DEF ListInv, TypeOK

\* The list of a reachable state is fit to be flushed.
LEMMA StateListInv ==
  ASSUME IInv, pos' = pos
  PROVE  ListInv(pending, remaining, eventLut, pos')
BY DEF IInv, TypeOK, PendingInv, LutSound, NoDoubleDelivery, ListInv

LEMMA FlushedOnList ==
  ASSUME NEW d, NEW pend, NEW rem
  PROVE  Flushed(d, pend, rem) \subseteq {p \in pend : p <= d}
BY DEF Flushed

\* A flush of the list of the state, as FlushDue and FlushNewest do.
LEMMA FlushKeepsInv ==
  ASSUME IInv, NEW d,
         Retire(Flushed(d, pending, remaining), pending, remaining, eventLut),
         UNCHANGED <<flow, epochs, epochLut, thrown>>,
         src' = src, batch' = batch, busy' = FALSE, due' = 0, batch = {}
  PROVE  IInv'
<1> DEFINE gone == Flushed(d, pending, remaining)
<1>1. pos' = pos /\ contract' = contract /\ dead' = dead /\ epochs' = epochs
      /\ epochLut' = epochLut /\ thrown' = thrown
  BY DEF flow
<1>2. gone \subseteq pending
  BY FlushedOnList
<1>3. /\ ListInv(pending, remaining, eventLut, pos')
      /\ aged \subseteq pending /\ TypeOK /\ NoDoubleDelivery
      /\ \A r \in retired : \A s \in r.from : r.pid <= pos'[s]
      /\ pos' \in [Sources -> 0 .. MaxPid]
  BY <1>1, StateListInv DEF IInv, TypeOK, RetiredInv
<1>4. /\ pending' \subseteq Pids /\ pending' = pending \ gone
      /\ remaining' \in [Pids -> SUBSET Sources] /\ remaining' = remaining
      /\ aged' \subseteq pending'
      /\ eventLut' \in [0 .. NumEvents - 1 -> 0 .. MaxPid]
      /\ retired' \subseteq [pid : Pids, from : SUBSET Sources, missing : SUBSET Sources]
      /\ PendingInv' /\ RetiredInv' /\ NoDoubleDelivery'
      /\ \A i \in DOMAIN eventLut' :
           eventLut'[i] # 0 => eventLut'[i] \in pending' /\ evIndex(eventLut'[i]) = i
  BY <1>1, <1>2, <1>3, RetireInv
<1>5. TypeOK'
  <2>1. busy' \in BOOLEAN
    BY Zenon
  <2>2. due' \in 0 .. MaxPid /\ batch' \subseteq Pids
    BY EbAssumption DEF EbAssumption, IInv, TypeOK
  <2> QED BY <1>1, <1>4, <2>1, <2>2 DEF IInv, TypeOK
<1>6. BatchInv' /\ DueInv' /\ IdleInv'
  BY DEF BatchInv, DueInv, IdleInv
<1>7. LutSound' /\ EpochsHoldEvents' /\ NoSourceThrow'
  BY <1>1, <1>4 DEF IInv, LutSound, EpochsHoldEvents, NoSourceThrow
<1> QED
  BY <1>4, <1>5, <1>6, <1>7 DEF IInv

LEMMA FlushNewestKeepsInv ==
  ASSUME IInv, FlushNewest \/ UNCHANGED <<pending, remaining, aged, retired, eventLut>>,
         UNCHANGED <<flow, epochs, epochLut, thrown>>,
         src' = src, batch' = batch, busy' = FALSE, due' = 0, batch = {}
  PROVE  IInv'
<1>1. CASE UNCHANGED <<pending, remaining, aged, retired, eventLut>>
  <2>1. TypeOK'
    <3>1. busy' \in BOOLEAN
      BY Zenon
    <3>2. due' \in 0 .. MaxPid /\ batch' \subseteq Pids
      BY EbAssumption DEF EbAssumption, IInv, TypeOK
    <3> QED BY <1>1, <3>1, <3>2 DEF IInv, TypeOK, flow
  <2>3. PendingInv' /\ RetiredInv' /\ NoDoubleDelivery' /\ LutSound'
    BY <1>1 DEF IInv, PendingInv, RetiredInv, NoDoubleDelivery, LutSound, flow
  <2>2. BatchInv' /\ DueInv' /\ IdleInv' /\ EpochsHoldEvents' /\ NoSourceThrow'
    BY <1>1 DEF IInv, BatchInv, DueInv, IdleInv, EpochsHoldEvents, NoSourceThrow, flow
  <2> QED BY <2>1, <2>2, <2>3 DEF IInv
<1>2. ASSUME NEW d, Retire(Flushed(d, pending, remaining), pending, remaining, eventLut)
      PROVE  IInv'
  BY <1>2, FlushKeepsInv
<1> QED
  BY <1>1, <1>2 DEF FlushNewest

-----------------------------------------------------------------------------
(***************************************************************************)
(* Contributions                                                           *)
(***************************************************************************)

LEMMA ReceiveKeepsInv ==
  ASSUME IInv, NEW s \in Sources, NEW B \in SUBSET Todo(s), Receive(s, B)
  PROVE  IInv'
<1> USE EbAssumption DEF EbAssumption
<1>1. PICK k \in 0 .. MaxPid : (\A p \in B : Epoch(p) = k) /\ Match(k)
  BY DEF Receive
<1>2. /\ UNCHANGED <<contract, pos, dead, pending, remaining, aged, eventLut, retired>>
      /\ src' = s /\ batch' = B /\ busy' = TRUE /\ due' = 0
      /\ thrown = "none"
  BY DEF Receive, flow
<1>3. /\ epochs' \subseteq 0 .. MaxPid
      /\ epochLut' \in [0 .. NumEpochs - 1 -> 0 .. NoEpoch]
      /\ thrown' \in {"none", "epochs"}
      /\ thrown' = "none" => k \in epochs'
      /\ epochs \ Stale(k) \subseteq epochs'
      /\ \A i \in DOMAIN epochLut' :
           epochLut'[i] # NoEpoch => epochLut'[i] \in epochs' /\ epIndex(epochLut'[i]) = i
  <2>1. /\ epochs \subseteq 0 .. MaxPid
        /\ epochLut \in [0 .. NumEpochs - 1 -> 0 .. NoEpoch]
        /\ \A i \in DOMAIN epochLut :
             epochLut[i] # NoEpoch => epochLut[i] \in epochs /\ epIndex(epochLut[i]) = i
    BY DEF IInv, TypeOK, LutSound
  <2>2. epIndex(k) \in 0 .. NumEpochs - 1 /\ NoEpoch \in 0 .. NoEpoch
        /\ k \in 0 .. NoEpoch
    BY DEF epIndex, NoEpoch
  <2> DEFINE lut == [i \in DOMAIN epochLut |->
                       IF epochLut[i] \in Stale(k) THEN NoEpoch ELSE epochLut[i]]
  <2>3. /\ lut \in [0 .. NumEpochs - 1 -> 0 .. NoEpoch]
        /\ \A i \in DOMAIN lut :
             lut[i] # NoEpoch => lut[i] \in epochs \ Stale(k) /\ epIndex(lut[i]) = i
    BY <2>1, <2>2
  <2>4. CASE k \in epochs /\ UNCHANGED <<epochs, epochLut, thrown>>
    BY <2>1, <2>4, <1>2
  <2>5. CASE /\ epochs' = (epochs \ Stale(k)) \cup {k}
             /\ epochLut' = [lut EXCEPT ![epIndex(k)] = IF @ = NoEpoch THEN k ELSE @]
             /\ thrown' = thrown
    BY <2>1, <2>2, <2>3, <2>5, <1>2
  <2>6. CASE epochs' = epochs \ Stale(k) /\ epochLut' = lut /\ thrown' = "epochs"
    BY <2>1, <2>3, <2>6
  <2> QED BY <1>1, <2>4, <2>5, <2>6 DEF Match
<1>4. TypeOK'
  <2>1. B \subseteq Pids
    BY DEF Todo
  <2> QED BY <1>2, <1>3, <2>1 DEF IInv, TypeOK
<1>5. EpochsHoldEvents'
  BY <1>2, <1>3 DEF IInv, EpochsHoldEvents, Stale, Empty
<1>6. BatchInv'
  BY <1>1, <1>2, <1>3 DEF BatchInv, Todo, Pids
<1>7. DueInv' /\ PendingInv' /\ RetiredInv' /\ IdleInv' /\ NoDoubleDelivery'
  BY <1>2 DEF IInv, DueInv, PendingInv, RetiredInv, IdleInv, NoDoubleDelivery
<1>8. LutSound' /\ NoSourceThrow'
  BY <1>2, <1>3 DEF IInv, LutSound, NoSourceThrow
<1> QED
  BY <1>4, <1>5, <1>6, <1>7, <1>8 DEF IInv

LEMMA InsertKeepsInv ==
  ASSUME IInv, NEW p \in Pids, Insert(p)
  PROVE  IInv'
<1> USE EbAssumption DEF EbAssumption
<1> DEFINE rem == InsertedRem(p)
           completes == rem[p] = {}
           switches == completes /\ due # 0 /\ contract[due] # contract[p]
           gone == IF switches THEN Flushed(due, Inserted(p), rem) ELSE {}
<1>1. /\ thrown = "none" /\ busy = TRUE /\ p \in batch /\ \A q \in batch : p <= q
      /\ batch' = batch \ {p} /\ pos' = [pos EXCEPT ![src] = p]
      /\ UNCHANGED <<contract, dead, src, busy, epochs, epochLut, thrown>>
      /\ src \in Expected(p)
      /\ Retire(gone, Inserted(p), rem, InsertedLut(p))
      /\ due' = IF completes THEN p ELSE due
  <2>1. busy = TRUE
    BY Zenon DEF Insert, Take, IInv, TypeOK
  <2> QED BY <2>1 DEF Insert, Take
<1>2. /\ pos[src] < p /\ due < p /\ src \in contract[p] /\ Epoch(p) \in epochs
      /\ src \in Sources /\ pos' \in [Sources -> 0 .. MaxPid]
      /\ pos'[src] = p /\ \A s \in Sources : pos[s] <= pos'[s]
      /\ pos \in [Sources -> 0 .. MaxPid] /\ due \in 0 .. MaxPid
  BY <1>1 DEF IInv, BatchInv, TypeOK, Pids
<1>3. gone \subseteq {q \in Inserted(p) : q <= due} /\ p \notin gone
  BY <1>2, FlushedOnList DEF Pids
<1>4. /\ Expected(p) \subseteq contract[p]
      /\ contract \in [Pids -> Contracts] /\ contract[p] \subseteq Sources
      /\ remaining \in [Pids -> SUBSET Sources]
      /\ rem = [remaining EXCEPT ![p] = Expected(p) \ {src}]
  BY DEF IInv, TypeOK, PendingInv, Expected, InsertedRem
<1>5. \A r \in retired : \A s \in r.from : s \in Sources /\ r.pid \in Pids /\ r.pid <= pos[s]
  BY DEF IInv, TypeOK, RetiredInv
<1>6. ListInv(Inserted(p), rem, InsertedLut(p), pos')
  <2>1. Inserted(p) \subseteq Pids /\ rem \in [Pids -> SUBSET Sources]
    BY <1>4 DEF Inserted, IInv, TypeOK
  <2>2. /\ InsertedLut(p) \in [0 .. NumEvents - 1 -> 0 .. MaxPid]
        /\ \A i \in DOMAIN InsertedLut(p) : InsertedLut(p)[i] # 0 =>
             InsertedLut(p)[i] \in Inserted(p) /\ evIndex(InsertedLut(p)[i]) = i
    <3>1. evIndex(p) \in 0 .. NumEvents - 1
      BY DEF evIndex, Pids
    <3> QED BY <3>1 DEF InsertedLut, Inserted, IInv, TypeOK, LutSound, Pids
  <2>3. ASSUME NEW q \in Inserted(p)
        PROVE  /\ rem[q] \subseteq contract[q]
               /\ \A s \in contract[q] \ rem[q] : q <= pos'[s]
    <3>1. CASE q # p
      <4>1. q \in pending /\ rem[q] = remaining[q] /\ q \in Pids
        BY <3>1, <1>4, <2>3 DEF Inserted, IInv, TypeOK
      <4>2. contract[q] \subseteq Sources
        BY <1>4, <4>1
      <4>3. ASSUME NEW s \in contract[q] \ rem[q] PROVE q <= pos'[s]
        <5>1. q <= pos[s] /\ s \in Sources
          BY <4>1, <4>2, <4>3 DEF IInv, PendingInv
        <5> QED BY <5>1, <4>1, <1>2 DEF Pids
      <4> QED BY <4>1, <4>3 DEF IInv, PendingInv
    <3>2. CASE q = p
      <4>1. rem[p] = Expected(p) \ {src}
        BY <1>4
      <4>2. ASSUME NEW s \in contract[p] \ rem[p] PROVE p <= pos'[s]
        <5>1. CASE s = src
          BY <5>1, <1>2 DEF Pids
        <5>2. CASE s # src
          <6>1. p \in pending /\ s \in contract[p] \ remaining[p]
            BY <5>2, <4>1, <4>2 DEF Expected
          <6>2. p <= pos[s] /\ s \in Sources
            BY <6>1, <1>4 DEF IInv, PendingInv
          <6> QED BY <6>2, <1>2 DEF Pids
        <5> QED BY <5>1, <5>2
      <4> QED BY <3>2, <4>1, <4>2, <1>4
    <3> QED BY <3>1, <3>2
  <2>4. ASSUME NEW r \in retired, NEW q \in Inserted(p), r.pid = q
        PROVE  r.from \cap (contract[q] \ rem[q]) = {}
    <3>1. CASE q # p
      <4>1. q \in pending /\ rem[q] = remaining[q]
        BY <3>1, <1>4, <2>4 DEF Inserted, IInv, TypeOK
      <4> QED BY <2>4, <4>1 DEF IInv, NoDoubleDelivery
    <3>2. CASE q = p
      <4>1. rem[p] = Expected(p) \ {src}
        BY <1>4
      <4>2. src \notin r.from
        BY <1>2, <1>5, <2>4, <3>2 DEF Pids
      <4>3. p \in pending => r.from \cap (contract[p] \ remaining[p]) = {}
        BY <2>4, <3>2 DEF IInv, NoDoubleDelivery
      <4> QED BY <3>2, <4>1, <4>2, <4>3 DEF Expected
    <3> QED BY <3>1, <3>2
  <2> QED BY <2>1, <2>2, <2>3, <2>4 DEF ListInv
<1>7. /\ gone \subseteq Inserted(p) /\ TypeOK /\ NoDoubleDelivery
      /\ aged \subseteq Inserted(p)
      /\ \A r \in retired : \A s \in r.from : r.pid <= pos'[s]
  <2>1. \A r \in retired : \A s \in r.from : r.pid <= pos'[s]
    <3> SUFFICES ASSUME NEW r \in retired, NEW s \in r.from PROVE r.pid <= pos'[s]
      OBVIOUS
    <3>1. s \in Sources /\ r.pid \in Nat /\ r.pid <= pos[s]
      BY <1>5 DEF Pids
    <3> QED BY <3>1, <1>2
  <2>2. gone \subseteq Inserted(p)
    BY <1>3
  <2>3. TypeOK /\ NoDoubleDelivery /\ aged \subseteq Inserted(p)
    BY DEF IInv, TypeOK, Inserted
  <2> QED BY <2>1, <2>2, <2>3
<1>8. /\ pending' \subseteq Pids /\ pending' = Inserted(p) \ gone
      /\ remaining' \in [Pids -> SUBSET Sources] /\ remaining' = rem
      /\ aged' \subseteq pending'
      /\ eventLut' \in [0 .. NumEvents - 1 -> 0 .. MaxPid]
      /\ retired' \subseteq [pid : Pids, from : SUBSET Sources, missing : SUBSET Sources]
      /\ PendingInv' /\ RetiredInv' /\ NoDoubleDelivery'
      /\ \A i \in DOMAIN eventLut' :
           eventLut'[i] # 0 => eventLut'[i] \in pending' /\ evIndex(eventLut'[i]) = i
  <2> HIDE DEF gone, rem
  <2> QED BY <1>1, <1>2, <1>6, <1>7, RetireInv
<1>9. TypeOK'
  <2>1. due' \in 0 .. MaxPid
    BY <1>1, <1>2 DEF Pids
  <2> QED BY <1>1, <1>2, <1>8, <2>1 DEF IInv, TypeOK
<1>10. BatchInv'
  <2>1. ASSUME NEW q \in batch'
        PROVE  p < q /\ due < q /\ src \in contract[q] /\ Epoch(q) \in epochs
    <3>1. q \in batch /\ q # p /\ p <= q /\ q \in Nat /\ p \in Nat
      BY <1>1, <2>1 DEF IInv, TypeOK, Pids
    <3>2. due < q /\ src \in contract[q] /\ Epoch(q) \in epochs
      BY <3>1, <1>1 DEF IInv, BatchInv
    <3> QED BY <3>1, <3>2
  <2>2. \A q \in batch' : pos'[src'] < q /\ due' < q /\ src' \in contract'[q]
    <3> HIDE DEF completes
    <3> QED BY <1>1, <1>2, <2>1
  <2>3. busy'
    BY <1>1
  <2> QED BY <1>1, <2>1, <2>2, <2>3 DEF BatchInv
<1>11. DueInv'
  <2>1. CASE completes
    BY <2>1, <1>1, <1>3, <1>8 DEF DueInv, Inserted
  <2>2. CASE ~completes
    <3>1. gone = {} /\ due' = due
      BY <2>2, <1>1
    <3>2. due # 0 => due \in pending /\ remaining[due] = {} /\ due # p
      BY <1>2 DEF IInv, DueInv, Pids
    <3>3. due # 0 => rem[due] = remaining[due]
      BY <3>2, <1>4 DEF IInv, TypeOK
    <3> QED BY <3>1, <3>2, <3>3, <1>8 DEF DueInv, Inserted
  <2> QED BY <2>1, <2>2
<1>12. IdleInv' /\ NoSourceThrow'
  BY <1>1 DEF IInv, IdleInv, NoSourceThrow
<1>13. EpochsHoldEvents' /\ LutSound'
  BY <1>1, <1>2, <1>8 DEF IInv, EpochsHoldEvents, LutSound, Inserted
<1> QED
  BY <1>8, <1>9, <1>10, <1>11, <1>12, <1>13 DEF IInv

\* A contribution always finds its event waiting for it, so the only
\* exception is the exhausted pool.
LEMMA InsertThrowsKeepsInv ==
  ASSUME IInv, NEW p \in Pids, InsertThrows(p)
  PROVE  IInv'
<1> USE EbAssumption DEF EbAssumption
<1>1. /\ thrown = "none" /\ p \in batch /\ \A q \in batch : p <= q
      /\ batch' = batch \ {p} /\ pos' = [pos EXCEPT ![src] = p]
      /\ UNCHANGED <<contract, dead, src, busy, epochs, epochLut>>
      /\ UNCHANGED <<due, pending, remaining, aged, eventLut, retired>>
      /\ thrown' = IF Exhausted(p) THEN "events" ELSE "source"
  BY DEF InsertThrows, Take
<1>2. /\ pos[src] < p /\ src \in contract[p] /\ src \in Sources
      /\ pos' \in [Sources -> 0 .. MaxPid]
      /\ pos'[src] = p /\ \A s \in Sources : pos[s] <= pos'[s]
      /\ pos \in [Sources -> 0 .. MaxPid]
  BY <1>1 DEF IInv, BatchInv, TypeOK, Pids
<1>3. src \in Expected(p)
  <2>1. p \in pending /\ src \notin remaining[p] => p <= pos[src]
    BY <1>2 DEF IInv, PendingInv
  <2> QED BY <1>2, <2>1 DEF Expected, Pids
<1>4. thrown' = "events"
  BY <1>1, <1>3 DEF InsertThrows
<1>5. TypeOK'
  BY <1>1, <1>2, <1>4 DEF IInv, TypeOK
<1>6. BatchInv'
  <2>1. ASSUME NEW q \in batch' PROVE pos'[src] < q /\ due < q /\ src \in contract[q]
    <3>1. q \in batch /\ q # p /\ p <= q /\ q \in Nat /\ p \in Nat
      BY <1>1, <2>1 DEF IInv, TypeOK, Pids
    <3>2. due < q /\ src \in contract[q]
      BY <3>1 DEF IInv, BatchInv
    <3> QED BY <3>1, <3>2, <1>2
  <2>2. busy' = busy /\ batch # {}
    BY <1>1
  <2>3. busy
    BY <2>2, Zenon DEF IInv, BatchInv
  <2> QED BY <1>1, <1>4, <2>1, <2>2, <2>3 DEF BatchInv
<1>7. PendingInv'
  <2> SUFFICES ASSUME NEW q \in pending, NEW s \in contract[q] \ remaining[q]
               PROVE  q <= pos'[s]
    BY <1>1 DEF IInv, PendingInv
  <2>1. s \in Sources /\ q \in Nat
    BY DEF IInv, TypeOK, Pids
  <2>2. q <= pos[s]
    BY DEF IInv, PendingInv
  <2> QED BY <1>2, <2>1, <2>2
<1>8. RetiredInv'
  <2> SUFFICES ASSUME NEW r \in retired, NEW s \in r.from PROVE r.pid <= pos'[s]
    BY <1>1 DEF RetiredInv
  <2>1. s \in Sources /\ r.pid \in Nat /\ r.pid <= pos[s]
    BY DEF IInv, TypeOK, RetiredInv, Pids
  <2> QED BY <1>2, <2>1
<1>9. DueInv' /\ NoDoubleDelivery' /\ LutSound' /\ EpochsHoldEvents' /\ NoSourceThrow'
  BY <1>1, <1>4 DEF IInv, DueInv, NoDoubleDelivery, LutSound, EpochsHoldEvents, NoSourceThrow
<1>10. IdleInv'
  BY <1>1 DEF IInv, IdleInv
<1> QED
  BY <1>5, <1>6, <1>7, <1>8, <1>9, <1>10 DEF IInv

-----------------------------------------------------------------------------
(***************************************************************************)
(* Time, failure and reconfiguration                                       *)
(***************************************************************************)

LEMMA ExpiredKeepsInv == ASSUME IInv, Expired PROVE IInv'
<1>1. /\ ~busy /\ UNCHANGED <<flow, epochs, epochLut, thrown>>
      /\ UNCHANGED <<src, batch, busy, due>> /\ FlushNewest
  BY DEF Expired, call
<1>2. busy' = FALSE
  BY <1>1, Zenon DEF IInv, TypeOK
<1>3. batch = {} /\ due' = 0
  BY <1>1 DEF IInv, BatchInv, IdleInv
<1> QED
  BY <1>1, <1>2, <1>3, FlushNewestKeepsInv

LEMMA ClearKeepsInv ==
  ASSUME IInv, NEW m \in Pids, Clear(m)
  PROVE  IInv'
<1> USE EbAssumption DEF EbAssumption
<1>1. /\ thrown = "none" /\ ~busy
      /\ \A s \in Sources : pos[s] <= m
      /\ pending' = {} /\ epochs' = {} /\ aged' = {}
      /\ eventLut' = [i \in DOMAIN eventLut |-> 0]
      /\ epochLut' = [i \in DOMAIN epochLut |-> NoEpoch]
      /\ pos' = [s \in Sources |-> m]
      /\ UNCHANGED <<contract, dead, src, batch, busy, due, remaining, retired, thrown>>
  BY DEF Clear, call
<1>2. batch = {} /\ due = 0
  BY <1>1 DEF IInv, BatchInv, IdleInv
<1>3. TypeOK'
  <2>1. /\ eventLut' \in [0 .. NumEvents - 1 -> 0 .. MaxPid]
        /\ epochLut' \in [0 .. NumEpochs - 1 -> 0 .. NoEpoch]
        /\ pos' \in [Sources -> 0 .. MaxPid]
    BY <1>1 DEF IInv, TypeOK, NoEpoch, Pids
  <2> QED BY <1>1, <2>1 DEF IInv, TypeOK
<1>4. RetiredInv'
  <2> SUFFICES ASSUME NEW r \in retired, NEW s \in r.from PROVE r.pid <= pos'[s]
    BY <1>1 DEF RetiredInv
  <2>1. s \in Sources /\ r.pid \in Nat /\ r.pid <= pos[s] /\ pos[s] \in Nat
    BY DEF IInv, TypeOK, RetiredInv, Pids
  <2>2. pos[s] <= m /\ pos'[s] = m /\ m \in Nat
    BY <1>1, <2>1 DEF Pids
  <2> QED BY <2>1, <2>2
<1>5. BatchInv' /\ DueInv' /\ PendingInv' /\ IdleInv'
  BY <1>1, <1>2 DEF BatchInv, DueInv, PendingInv, IdleInv
<1>6. NoDoubleDelivery' /\ LutSound' /\ EpochsHoldEvents' /\ NoSourceThrow'
  BY <1>1 DEF IInv, NoDoubleDelivery, LutSound, EpochsHoldEvents, NoSourceThrow
<1> QED
  BY <1>3, <1>4, <1>5, <1>6 DEF IInv

\* Steps that only age an event, lose a contributor, or stutter.
LEMMA PassiveKeepsInv ==
  ASSUME IInv,
         UNCHANGED <<contract, pos, call, pending, remaining, epochs, eventLut,
                     epochLut, retired, thrown>>,
         aged' \subseteq pending, dead' \subseteq Sources
  PROVE  IInv'
<1>1. TypeOK'
  BY DEF IInv, TypeOK, call
<1>2. BatchInv' /\ DueInv' /\ PendingInv' /\ RetiredInv' /\ IdleInv'
  BY DEF IInv, BatchInv, DueInv, PendingInv, RetiredInv, IdleInv, call
<1>3. NoDoubleDelivery' /\ LutSound' /\ EpochsHoldEvents' /\ NoSourceThrow'
  BY DEF IInv, NoDoubleDelivery, LutSound, EpochsHoldEvents, NoSourceThrow
<1> QED
  BY <1>1, <1>2, <1>3 DEF IInv

LEMMA NextKeepsInv == IInv /\ [Next]_vars => IInv'
<1> SUFFICES ASSUME IInv, [Next]_vars PROVE IInv'
  OBVIOUS
<1>1. ASSUME NEW s \in Sources, NEW B \in SUBSET Todo(s), Receive(s, B) PROVE IInv'
  BY <1>1, ReceiveKeepsInv
<1>2. ASSUME NEW p \in Pids, Insert(p) PROVE IInv'
  BY <1>2, InsertKeepsInv
<1>3. ASSUME NEW p \in Pids, InsertThrows(p) PROVE IInv'
  BY <1>3, InsertThrowsKeepsInv
<1>4. CASE FlushDue
  BY <1>4, FlushKeepsInv DEF FlushDue
<1>5. CASE TryFlush
  BY <1>5, FlushNewestKeepsInv DEF TryFlush
<1>6. CASE Expired
  BY <1>6, ExpiredKeepsInv
<1>7. ASSUME NEW p \in Pids, Age(p) PROVE IInv'
  BY <1>7, PassiveKeepsInv DEF Age, flow, IInv, TypeOK
<1>8. ASSUME NEW s \in Sources, Die(s) PROVE IInv'
  BY <1>8, PassiveKeepsInv DEF Die, lists, IInv, TypeOK
<1>9. ASSUME NEW m \in Pids, Clear(m) PROVE IInv'
  BY <1>9, ClearKeepsInv
<1>10. CASE UNCHANGED vars
  BY <1>10, PassiveKeepsInv DEF vars, flow, lists, IInv, TypeOK
<1> QED
  BY <1>1, <1>2, <1>3, <1>4, <1>5, <1>6, <1>7, <1>8, <1>9, <1>10 DEF Next

LEMMA Invariance == Spec => []IInv
BY InitInv, NextKeepsInv, PTL DEF Spec

-----------------------------------------------------------------------------
(***************************************************************************)
(* Results                                                                 *)
(***************************************************************************)

\* The state of EventBuilder.cc is well typed whatever arrives.
THEOREM TypeCorrect == Spec => []TypeOK
<1>1. IInv => TypeOK
  BY DEF IInv
<1> QED BY <1>1, Invariance, PTL

\* _retire() never hands the application a contribution twice, not even when
\* a late contribution recreates the event of a pulse that timed out.
THEOREM NoContributionTwice == Spec => []NoDoubleDelivery
<1>1. IInv => NoDoubleDelivery
  BY DEF IInv
<1> QED BY <1>1, Invariance, PTL

\* The entries of _eventLut and _epochLut point to events and epochs on the
\* list.
THEOREM NoDanglingEntries == Spec => []LutSound
<1>1. IInv => LutSound
  BY DEF IInv
<1> QED BY <1>1, Invariance, PTL

\* _flushBefore() discards no epoch from under an event.
THEOREM EpochsKept == Spec => []EpochsHoldEvents
<1>1. IInv => EpochsHoldEvents
  BY DEF IInv
<1> QED BY <1>1, Invariance, PTL

\* EbEvent's check that a contribution takes a bit down never throws.
THEOREM ContributionsExpected == Spec => []NoSourceThrow
<1>1. IInv => NoSourceThrow
  BY DEF IInv
<1> QED BY <1>1, Invariance, PTL

\* _flush() fixes up an event ahead of its timeout only when the missing
\* contributors have already sent later contributions.
THEOREM FixupJustified == Spec => FixupOnlyWhenLost
<1> DEFINE Step == \A r \in retired' \ retired :
                     r.pid \notin aged => \A s \in r.missing : pos'[s] > r.pid
<1>1. ASSUME NEW d, NEW pend, NEW rem, NEW lut,
             Retire(Flushed(d, pend, rem), pend, rem, lut),
             pend \subseteq Pids, rem \in [Pids -> SUBSET Sources],
             contract \in [Pids -> SUBSET Sources], pos' \in [Sources -> 0 .. MaxPid],
             d \in pend, \A s \in contract[d] \ rem[d] : d <= pos'[s],
             \A p \in pend : rem[p] \subseteq contract[p]
      PROVE  Step
  <2> SUFFICES ASSUME NEW p \in Flushed(d, pend, rem), p \notin aged, NEW s \in rem[p]
               PROVE  pos'[s] > p
    BY <1>1 DEF Retire, Built
  <2>1. p \in pend /\ p <= d /\ ~Blocks(p, d, rem) /\ p \in Pids /\ d \in Pids
    <3>1. p \in pend /\ p <= d /\ \A q \in pend : q <= p => ~Blocks(q, d, rem)
      BY DEF Flushed
    <3>2. p <= p /\ p \in Pids /\ d \in Pids
      BY <1>1, <3>1 DEF Pids
    <3> QED BY <3>1, <3>2
  <2>2. contract[p] = contract[d] /\ rem[d] = {}
    BY <2>1 DEF Blocks
  <2>3. s \in contract[d] \ rem[d] /\ s \in Sources /\ p # d
    BY <1>1, <2>1, <2>2
  <2>4. d <= pos'[s] /\ pos'[s] \in 0 .. MaxPid
    BY <1>1, <2>3
  <2> QED BY <2>1, <2>3, <2>4, EbAssumption DEF Pids, EbAssumption
<1>2. IInv /\ [Next]_vars => [Step]_vars
  <2> SUFFICES ASSUME IInv, Next PROVE Step
    BY DEF vars
  <2>1. contract \in [Pids -> SUBSET Sources]
    BY EbAssumption DEF IInv, TypeOK, EbAssumption
  <2>2. ASSUME NEW d \in pending, pos' = pos,
               Retire(Flushed(d, pending, remaining), pending, remaining, eventLut)
        PROVE  Step
    BY <1>1, <2>1, <2>2 DEF IInv, TypeOK, PendingInv
  <2>3. CASE retired' = retired
    BY <2>3
  <2>4. ASSUME NEW p \in Pids, Insert(p) PROVE Step
    <3> DEFINE rem == InsertedRem(p)
               switches == rem[p] = {} /\ due # 0 /\ contract[due] # contract[p]
    <3>1. CASE ~switches
      BY <2>4, <3>1 DEF Insert, Retire
    <3>2. CASE switches
      <4>1. Retire(Flushed(due, Inserted(p), rem), Inserted(p), rem, InsertedLut(p))
        BY <2>4, <3>2 DEF Insert
      <4>2. /\ due \in pending /\ remaining[due] = {} /\ due # p
            /\ pos' = [pos EXCEPT ![src] = p] /\ pos[src] < p /\ src \in Sources
        BY <2>4, <3>2, EbAssumption
           DEF EbAssumption, Insert, Take, IInv, TypeOK, DueInv, BatchInv, Pids
      <4>3. /\ rem = [remaining EXCEPT ![p] = Expected(p) \ {src}]
            /\ remaining \in [Pids -> SUBSET Sources] /\ Expected(p) \subseteq contract[p]
        BY DEF InsertedRem, IInv, TypeOK, Expected, PendingInv
      <4>4. /\ Inserted(p) \subseteq Pids /\ rem \in [Pids -> SUBSET Sources]
            /\ rem[due] = {} /\ due \in Inserted(p)
            /\ \A q \in Inserted(p) : rem[q] \subseteq contract[q]
        <5>1. Inserted(p) \subseteq Pids /\ due \in Inserted(p) /\ pending \subseteq Pids
          BY <4>2 DEF Inserted, IInv, TypeOK
        <5>2. rem \in [Pids -> SUBSET Sources] /\ rem[due] = {}
          BY <4>2, <4>3, <5>1, <2>1
        <5>3. \A q \in Inserted(p) : rem[q] \subseteq contract[q]
          BY <4>3, <5>1 DEF Inserted, IInv, PendingInv
        <5> QED BY <5>1, <5>2, <5>3
      <4>5. /\ pos' \in [Sources -> 0 .. MaxPid]
            /\ \A s \in contract[due] \ rem[due] : due <= pos'[s]
        <5>1. pos \in [Sources -> 0 .. MaxPid] /\ p \in 0 .. MaxPid /\ due \in Nat
              /\ contract[due] \subseteq Sources
          BY <4>2, <2>1, EbAssumption DEF EbAssumption, IInv, TypeOK, Pids
        <5>2. ASSUME NEW s \in contract[due] PROVE due <= pos[s]
          BY <4>2, <5>2 DEF IInv, PendingInv
        <5>3. ASSUME NEW s \in contract[due] PROVE due <= pos'[s]
          BY <4>2, <5>1, <5>2, EbAssumption DEF EbAssumption
        <5> QED BY <4>2, <5>1, <5>3
      <4> HIDE DEF rem, switches
      <4> QED BY <1>1, <2>1, <4>1, <4>4, <4>5
    <3> QED BY <3>1, <3>2
  <2>5. CASE FlushDue
    BY <2>2, <2>5 DEF FlushDue, flow, IInv, DueInv
  <2>6. ASSUME FlushNewest, pos' = pos PROVE Step
    BY <2>2, <2>6 DEF FlushNewest
  <2>7. CASE TryFlush
    BY <2>3, <2>6, <2>7 DEF TryFlush, flow
  <2>8. CASE Expired
    BY <2>6, <2>8 DEF Expired, flow
  <2> QED
    BY <2>3, <2>4, <2>5, <2>7, <2>8
       DEF Next, Receive, InsertThrows, Age, Die, Clear, lists
<1> QED
  BY <1>2, Invariance, PTL DEF Spec, FixupOnlyWhenLost

-----------------------------------------------------------------------------
(***************************************************************************)
(* Every event has a contribution                                          *)
(***************************************************************************)

HasOneInv ==
  /\ \A p \in pending : contract[p] \ remaining[p] # {}
  /\ \A r \in retired : r.from # {}

\* Retirement hands on what the event has.
LEMMA RetireHasOne ==
  ASSUME NEW gone, NEW pend, NEW rem, NEW lut, Retire(gone, pend, rem, lut),
         gone \subseteq pend, contract' = contract,
         \A p \in pend : contract[p] \ rem[p] # {},
         \A r \in retired : r.from # {}
  PROVE  HasOneInv'
<1>1. /\ pending' = pend \ gone /\ remaining' = rem
      /\ retired' = retired \cup {Built(p, rem) : p \in gone}
  BY DEF Retire
<1>2. \A p \in gone : Built(p, rem).from = contract[p] \ rem[p]
  BY DEF Built
<1> QED
  BY <1>1, <1>2 DEF HasOneInv

LEMMA InsertHasOne ==
  ASSUME IInv, HasOneInv, NEW p \in Pids, Insert(p)
  PROVE  HasOneInv'
<1> DEFINE rem == InsertedRem(p)
           completes == rem[p] = {}
           switches == completes /\ due # 0 /\ contract[due] # contract[p]
           gone == IF switches THEN Flushed(due, Inserted(p), rem) ELSE {}
<1>1. Retire(gone, Inserted(p), rem, InsertedLut(p)) /\ contract' = contract /\ p \in batch
  BY DEF Insert, Take
<1>2. gone \subseteq Inserted(p)
  BY FlushedOnList
<1>3. src \in contract[p] /\ remaining \in [Pids -> SUBSET Sources]
  BY <1>1 DEF IInv, BatchInv, TypeOK
<1>4. rem[p] = Expected(p) \ {src} /\ \A q \in pending \ {p} : rem[q] = remaining[q]
  BY <1>3 DEF InsertedRem, IInv, TypeOK
<1> HIDE DEF rem, gone
<1>5. \A q \in Inserted(p) : contract[q] \ rem[q] # {}
  BY <1>3, <1>4 DEF Inserted, HasOneInv
<1> QED
  BY <1>1, <1>2, <1>5, RetireHasOne DEF HasOneInv

LEMMA HasOneNext == IInv /\ HasOneInv /\ [Next]_vars => HasOneInv'
<1> SUFFICES ASSUME IInv, HasOneInv, [Next]_vars PROVE HasOneInv'
  OBVIOUS
<1>1. CASE UNCHANGED <<contract, pending, remaining, retired>>
  BY <1>1 DEF HasOneInv
<1>2. ASSUME NEW s \in Sources, NEW B \in SUBSET Todo(s), Receive(s, B)
      PROVE  UNCHANGED <<contract, pending, remaining, retired>>
  BY <1>2 DEF Receive, flow
<1>3. ASSUME NEW p \in Pids, Insert(p) PROVE HasOneInv'
  BY <1>3, InsertHasOne
<1>4. ASSUME NEW p \in Pids, InsertThrows(p)
      PROVE  UNCHANGED <<contract, pending, remaining, retired>>
  BY <1>4 DEF InsertThrows, Take
<1>5. ASSUME NEW d, contract' = contract,
             Retire(Flushed(d, pending, remaining), pending, remaining, eventLut)
      PROVE  HasOneInv'
  BY <1>5, FlushedOnList, RetireHasOne DEF HasOneInv
<1>6. CASE FlushDue
  BY <1>5, <1>6 DEF FlushDue, flow
<1>7. CASE TryFlush
  BY <1>1, <1>5, <1>7 DEF TryFlush, FlushNewest, flow
<1>8. CASE Expired
  BY <1>1, <1>5, <1>8 DEF Expired, FlushNewest, flow
<1>9. ASSUME NEW p \in Pids, Age(p)
      PROVE  UNCHANGED <<contract, pending, remaining, retired>>
  BY <1>9 DEF Age, flow
<1>10. ASSUME NEW s \in Sources, Die(s)
       PROVE  UNCHANGED <<contract, pending, remaining, retired>>
  BY <1>10 DEF Die, lists
<1>11. ASSUME NEW m \in Pids, Clear(m) PROVE HasOneInv'
  BY <1>11 DEF Clear, HasOneInv
<1>12. CASE UNCHANGED vars
  BY <1>1, <1>12 DEF vars, flow, lists
<1> QED
  BY <1>1, <1>2, <1>3, <1>4, <1>6, <1>7, <1>8, <1>9, <1>10, <1>11, <1>12 DEF Next

LEMMA HasOneAlways == Spec => []HasOneInv
<1>1. Init => HasOneInv
  BY DEF Init, HasOneInv
<1> QED
  BY <1>1, HasOneNext, Invariance, PTL DEF Spec

-----------------------------------------------------------------------------
(***************************************************************************)
(* Order of retirement                                                     *)
(*                                                                         *)
(* If nothing is lost or late and some source is in every contract, events *)
(* are retired in pulse-ID order.  That source is what makes it so: once   *)
(* it has delivered a pulse, the events of all earlier pulses that others  *)
(* still have to deliver are on the list, and block the flush.             *)
(***************************************************************************)

\* The source x is in every contract.
Common(x) == \A C \in Contracts : x \in C

Live == Sources \ dead

\* A live source delivers the batch in hand, which has no gap.
GapInv ==
  /\ busy => src \notin dead
  /\ \A b \in batch, q \in Todo(src) : q < b => q \in batch

\* An event times out only when nothing as old is to come.
AgedInv == \A p \in aged, s \in Live : \A q \in Todo(s) : p < q

\* Pulses up to the position of x that a live source still has to deliver
\* are on the list and wait for it.
ComingInv(x) ==
  thrown = "none" =>
    \A s \in Live : \A q \in Todo(s) :
      q <= pos[x] => q \in pending /\ s \in remaining[q]

\* Nothing as old as a retired event is to come.
PastInv == \A r \in retired, s \in Live : \A q \in Todo(s) : r.pid < q

OInv(x) ==
  /\ GapInv /\ AgedInv /\ ComingInv(x) /\ PastInv /\ InOrder

\* What a flush retires has nothing as old to come, and nothing as old stays
\* on the list.  The list is that of the state, or that after an insertion.
LEMMA FlushOrder ==
  ASSUME NEW x \in Sources, Common(x), NEW d, NEW pend, NEW rem,
         pend \subseteq Pids, d \in pend,
         contract \in [Pids -> Contracts], contract' = contract,
         pos' \in [Sources -> 0 .. MaxPid],
         \A p \in pend : \A s \in contract[p] \ rem[p] : p <= pos'[s],
         \A p \in aged, s \in Live : \A q \in Todo(s)' : p < q,
         \A s \in Live : \A q \in Todo(s)' :
           q <= pos'[x] => q \in pend /\ s \in rem[q]
  PROVE  \A r \in Flushed(d, pend, rem) :
           /\ \A s \in Live : \A q \in Todo(s)' : r < q
           /\ \A p \in pend \ Flushed(d, pend, rem) : r < p
<1> USE EbAssumption DEF EbAssumption
<1> SUFFICES ASSUME NEW r \in Flushed(d, pend, rem)
             PROVE  /\ \A s \in Live : \A q \in Todo(s)' : r < q
                    /\ \A p \in pend \ Flushed(d, pend, rem) : r < p
  OBVIOUS
<1>1. r \in pend /\ r <= d /\ \A q \in pend : q <= r => ~Blocks(q, d, rem)
  BY DEF Flushed
<1>2. r \in Pids /\ d \in Pids /\ \A p \in Pids : p \in Nat
  BY <1>1 DEF Pids
<1>3. \A p \in pend : p <= r => \/ rem[p] = {} \/ p \in aged
                                \/ contract[p] = contract[d] /\ rem[d] = {}
  BY <1>1 DEF Blocks
<1>4. ASSUME NEW p \in pend \ Flushed(d, pend, rem) PROVE r < p
  <2>1. p \in Pids
    OBVIOUS
  <2>2. ASSUME p <= r PROVE p \in Flushed(d, pend, rem)
    <3>1. p <= d /\ \A q \in pend : q <= p => q <= r
      BY <1>1, <1>2, <2>1, <2>2
    <3> QED
      BY <1>1, <3>1 DEF Flushed
  <2> QED
    BY <1>2, <2>1, <2>2
<1>5. ASSUME NEW s \in Live, NEW q \in Todo(s)', q <= r PROVE FALSE
  <2>1. q \in Pids /\ q > pos'[s] /\ s \in contract[q] /\ s \in Sources
    BY DEF Todo, Live
  <2>2. r \notin aged /\ q \notin aged
    BY <1>2, <1>5, <2>1
  <2>3. x \in contract[r] /\ x \in contract[d]
    BY <1>2 DEF Common
  <2>4. /\ pos'[x] \in Nat /\ pos'[s] \in Nat /\ q \in Nat /\ r \in Nat /\ d \in Nat
    BY <1>2, <2>1
  <2>5. r <= pos'[x]
    <3>1. CASE rem[r] = {}
      BY <1>1, <2>3, <3>1
    <3>2. CASE rem[d] = {}
      <4>1. d <= pos'[x]
        BY <2>3, <3>2
      <4> QED
        BY <1>1, <2>4, <4>1
    <3> QED
      BY <1>1, <1>3, <2>2, <2>4, <3>1, <3>2
  <2>6. q \in pend /\ s \in rem[q]
    BY <1>5, <2>4, <2>5
  <2>7. contract[q] = contract[d] /\ rem[d] = {}
    BY <1>3, <1>5, <2>2, <2>6
  <2>8. d <= pos'[s]
    BY <2>1, <2>7
  <2> QED
    BY <1>1, <1>5, <2>1, <2>4, <2>8
<1>6. \A s \in Live : \A q \in Todo(s)' : q \in Nat
  BY DEF Todo, Pids
<1> QED
  BY <1>2, <1>4, <1>5, <1>6

\* Retiring such events keeps the order.
LEMMA RetireOrder ==
  ASSUME NEW x \in Sources, NEW gone, NEW pend, NEW rem, NEW lut,
         Retire(gone, pend, rem, lut), dead' = dead, pend \subseteq Pids, gone \subseteq pend,
         \A r \in gone : /\ \A s \in Live : \A q \in Todo(s)' : r < q
                         /\ \A p \in pend \ gone : r < p,
         \A r \in retired : /\ \A s \in Live : \A q \in Todo(s)' : r.pid < q
                            /\ \A p \in pend : r.pid < p,
         \A p \in aged, s \in Live : \A q \in Todo(s)' : p < q,
         \A s \in Live : \A q \in Todo(s)' :
           q <= pos'[x] => q \in pend /\ s \in rem[q]
  PROVE  AgedInv' /\ ComingInv(x)' /\ PastInv' /\ InOrder'
<1> USE EbAssumption DEF EbAssumption
<1>1. /\ pending' = pend \ gone /\ remaining' = rem /\ aged' = aged \ gone
      /\ retired' = retired \cup {Built(p, rem) : p \in gone}
      /\ Live' = Live
  BY DEF Retire, Live
<1>2. \A p \in gone : Built(p, rem).pid = p
  BY DEF Built
<1>3. AgedInv'
  BY <1>1 DEF AgedInv
<1>4. ComingInv(x)'
  <2> SUFFICES ASSUME NEW s \in Live, NEW q \in Todo(s)', q <= pos'[x]
               PROVE  q \in pending' /\ s \in remaining'[q]
    BY <1>1 DEF ComingInv
  <2>1. q \in pend /\ s \in rem[q]
    OBVIOUS
  <2>2. q \notin gone
    BY <2>1 DEF Pids
  <2> QED
    BY <1>1, <2>1, <2>2
<1>5. PastInv' /\ InOrder'
  <2> SUFFICES ASSUME NEW r \in retired'
               PROVE  /\ \A s \in Live : \A q \in Todo(s)' : r.pid < q
                      /\ \A p \in pending' : r.pid < p
    BY <1>1 DEF PastInv, InOrder
  <2>1. CASE r \in retired
    BY <1>1, <2>1
  <2>2. CASE r \in {Built(p, rem) : p \in gone}
    <3>1. PICK p \in gone : r = Built(p, rem)
      BY <2>2
    <3>2. r.pid = p
      BY <1>2, <3>1
    <3> QED
      BY <1>1, <3>2
  <2> QED
    BY <1>1, <2>1, <2>2
<1> QED
  BY <1>3, <1>4, <1>5

\* A flush of the list of the state.
LEMMA FlushKeepsOrder ==
  ASSUME NEW x \in Sources, Common(x), IInv, OInv(x), NEW d \in pending,
         Retire(Flushed(d, pending, remaining), pending, remaining, eventLut),
         UNCHANGED <<contract, pos, dead, thrown, src, batch>>, thrown = "none",
         batch = {}, ~busy'
  PROVE  OInv(x)'
<1>1. Todo(src)' = Todo(src) /\ \A s \in Live : Todo(s)' = Todo(s)
  BY DEF Todo
<1>2. /\ pending \subseteq Pids /\ contract \in [Pids -> Contracts]
      /\ pos' \in [Sources -> 0 .. MaxPid]
      /\ \A p \in pending : \A s \in contract[p] \ remaining[p] : p <= pos'[s]
  BY DEF IInv, TypeOK, PendingInv
<1>3. /\ \A p \in aged, s \in Live : \A q \in Todo(s)' : p < q
      /\ \A s \in Live : \A q \in Todo(s)' :
           q <= pos'[x] => q \in pending /\ s \in remaining[q]
      /\ \A r \in retired : /\ \A s \in Live : \A q \in Todo(s)' : r.pid < q
                            /\ \A p \in pending : r.pid < p
  BY <1>1 DEF OInv, AgedInv, ComingInv, PastInv, InOrder
<1>4. \A r \in Flushed(d, pending, remaining) :
        /\ \A s \in Live : \A q \in Todo(s)' : r < q
        /\ \A p \in pending \ Flushed(d, pending, remaining) : r < p
  BY <1>2, <1>3, FlushOrder
<1>5. Flushed(d, pending, remaining) \subseteq pending
  BY FlushedOnList
<1>6. AgedInv' /\ ComingInv(x)' /\ PastInv' /\ InOrder'
  BY <1>2, <1>3, <1>4, <1>5, RetireOrder
<1> QED
  BY <1>6 DEF OInv, GapInv

\* After an insertion, the pulses up to the position of x that a live source
\* still has to deliver are on the list: those before were, and the pulse
\* inserted has just got its place.
LEMMA InsertedComing ==
  ASSUME NEW x \in Sources, Common(x), IInv, OInv(x), NEW p \in Pids, Take(p),
         src \in Expected(p), NEW s \in Live, NEW q \in Todo(s)', q <= pos'[x]
  PROVE  q \in Inserted(p) /\ s \in InsertedRem(p)[q]
<1> USE EbAssumption DEF EbAssumption
<1>1. /\ thrown = "none" /\ p \in batch /\ \A b \in batch : p <= b
      /\ pos' = [pos EXCEPT ![src] = p] /\ contract' = contract /\ src \in Sources
      /\ pos \in [Sources -> 0 .. MaxPid] /\ contract \in [Pids -> Contracts]
      /\ remaining \in [Pids -> SUBSET Sources] /\ pending \subseteq Pids
      /\ pos[src] < p
  BY DEF Take, IInv, TypeOK, BatchInv
<1>2. /\ q \in Pids /\ q > pos'[s] /\ s \in contract[q] /\ s \in Sources
      /\ x \in contract[q]
  BY <1>1 DEF Todo, Live, Common
<1>3. p \in Nat /\ q \in Nat /\ pos'[src] = p /\ \A t \in Sources : t # src => pos'[t] = pos[t]
  BY <1>1, <1>2 DEF Pids
<1>4. q > pos[s] /\ q \in Todo(s)
  BY <1>1, <1>2, <1>3 DEF Todo
<1>5. q <= pos[x] \/ (x = src /\ pos[x] < q /\ q <= p)
  BY <1>1, <1>2, <1>3
<1>6. /\ InsertedRem(p)[p] = Expected(p) \ {src}
      /\ q # p => InsertedRem(p)[q] = remaining[q]
  BY <1>1, <1>2 DEF InsertedRem
<1>7. ASSUME q = p, q \in pending => s \in remaining[q]
      PROVE  q \in Inserted(p) /\ s \in InsertedRem(p)[q]
  <2>1. s # src
    BY <1>2, <1>3, <1>7
  <2> QED
    BY <1>2, <1>6, <1>7, <2>1 DEF Inserted, Expected
<1>8. CASE q <= pos[x]
  <2>1. q \in pending /\ s \in remaining[q]
    BY <1>1, <1>4, <1>8 DEF OInv, ComingInv
  <2> QED
    BY <1>6, <1>7, <2>1 DEF Inserted
<1>9. CASE x = src /\ pos[x] < q /\ q <= p
  <2>1. q \in Todo(src)
    BY <1>2, <1>9 DEF Todo
  <2>2. q \in batch
    BY <1>1, <1>3, <1>9, <2>1 DEF OInv, GapInv
  <2>3. q = p
    BY <1>1, <1>3, <1>9, <2>2
  <2>4. q \in pending => s \in remaining[q]
    <3>1. pos[s] \in Nat
      BY <1>1, <1>2
    <3> QED
      BY <1>2, <1>3, <1>4, <3>1 DEF IInv, PendingInv
  <2> QED
    BY <1>7, <2>3, <2>4
<1> QED
  BY <1>5, <1>8, <1>9

LEMMA InsertKeepsOrder ==
  ASSUME NEW x \in Sources, Common(x), IInv, OInv(x), NEW p \in Pids, Insert(p)
  PROVE  OInv(x)'
<1> USE EbAssumption DEF EbAssumption
<1> DEFINE rem == InsertedRem(p)
           completes == rem[p] = {}
           switches == completes /\ due # 0 /\ contract[due] # contract[p]
           gone == IF switches THEN Flushed(due, Inserted(p), rem) ELSE {}
<1>1. /\ Take(p) /\ busy /\ src \in Expected(p) /\ UNCHANGED <<contract, dead, src, thrown>>
      /\ p \in batch /\ batch' = batch \ {p} /\ pos' = [pos EXCEPT ![src] = p]
      /\ Retire(gone, Inserted(p), rem, InsertedLut(p))
  BY DEF Insert, Take
<1>2. /\ pos \in [Sources -> 0 .. MaxPid] /\ src \in Sources /\ pos[src] < p
      /\ contract \in [Pids -> Contracts] /\ pending \subseteq Pids /\ batch \subseteq Pids
      /\ due # 0 => due \in pending
      /\ remaining \in [Pids -> SUBSET Sources]
  BY <1>1 DEF IInv, TypeOK, BatchInv, DueInv
<1>3. /\ pos' \in [Sources -> 0 .. MaxPid] /\ \A s \in Sources : pos[s] <= pos'[s]
      /\ pos'[src] = p
  BY <1>1, <1>2 DEF Pids
<1>4. \A s \in Sources : Todo(s)' \subseteq Todo(s)
  BY <1>1, <1>2, <1>3 DEF Todo, Pids
<1>5. src \in Live /\ p \in Todo(src) /\ \A s \in Live : s \in Sources
  BY <1>1, <1>2 DEF OInv, GapInv, Live, Todo, IInv, BatchInv
<1>6. /\ \A t \in aged, s \in Live : \A q \in Todo(s)' : t < q
      /\ \A r \in retired : \A s \in Live : \A q \in Todo(s)' : r.pid < q
  BY <1>4, <1>5 DEF OInv, AgedInv, PastInv
<1>7. \A r \in retired : \A q \in Inserted(p) : r.pid < q
  BY <1>5 DEF OInv, PastInv, InOrder, Inserted
<1>8. \A s \in Live : \A q \in Todo(s)' :
        q <= pos'[x] => q \in Inserted(p) /\ s \in rem[q]
  BY <1>1, InsertedComing
<1>9. ASSUME NEW q \in Inserted(p), NEW s \in contract[q] \ rem[q] PROVE q <= pos'[s]
  <2>1. q \in Pids /\ s \in Sources /\ s \in contract[q]
    BY <1>2 DEF Inserted
  <2>2. ASSUME q \in pending, s \notin remaining[q] PROVE q <= pos'[s]
    <3>1. q <= pos[s]
      BY <2>1, <2>2 DEF IInv, PendingInv
    <3> QED
      BY <1>2, <1>3, <2>1, <3>1 DEF Pids
  <2>3. CASE q # p
    BY <1>2, <2>1, <2>2, <2>3 DEF InsertedRem, Inserted
  <2>4. CASE q = p
    <3>1. rem[p] = Expected(p) \ {src}
      BY <1>2 DEF InsertedRem
    <3>2. CASE s = src
      BY <1>3, <2>4, <3>2 DEF Pids
    <3> QED
      BY <1>9, <2>1, <2>2, <2>4, <3>1, <3>2 DEF Expected
  <2> QED
    BY <2>3, <2>4
<1>10. Inserted(p) \subseteq Pids /\ gone \subseteq Inserted(p) /\ (due # 0 => due \in Inserted(p))
  BY <1>2, FlushedOnList DEF Inserted
<1>11. \A r \in gone : /\ \A s \in Live : \A q \in Todo(s)' : r < q
                       /\ \A q \in Inserted(p) \ gone : r < q
  <2>1. CASE ~switches
    BY <2>1
  <2>2. CASE switches
    <3>1. gone = Flushed(due, Inserted(p), rem) /\ due \in Inserted(p)
      BY <1>10, <2>2
    <3> HIDE DEF rem, gone, switches
    <3> QED
      BY <1>1, <1>2, <1>3, <1>6, <1>8, <1>9, <1>10, <3>1, FlushOrder
  <2> QED
    BY <2>1, <2>2
<1>12. AgedInv' /\ ComingInv(x)' /\ PastInv' /\ InOrder'
  <2> HIDE DEF rem, gone
  <2> QED
    BY <1>1, <1>6, <1>7, <1>8, <1>10, <1>11, RetireOrder
<1>13. GapInv'
  <2>1. ASSUME NEW b \in batch', NEW q \in Todo(src)', q < b PROVE q \in batch'
    <3>1. q \in batch
      BY <1>1, <1>2, <1>4, <2>1 DEF OInv, GapInv
    <3>2. q # p
      BY <1>1, <1>3 DEF Todo, Pids
    <3> QED
      BY <1>1, <3>1, <3>2
  <2>2. src \notin dead
    BY <1>5 DEF Live
  <2>3. src' = src /\ dead' = dead
    BY <1>1
  <2> QED
    BY <2>1, <2>2, <2>3 DEF GapInv, Todo
<1> QED
  BY <1>12, <1>13 DEF OInv

LEMMA ReceiveKeepsOrder ==
  ASSUME ~Lossy, NEW x \in Sources, IInv, OInv(x), NEW s \in Sources,
         NEW B \in SUBSET Todo(s), Receive(s, B)
  PROVE  OInv(x)'
<1>1. /\ UNCHANGED <<contract, pos, dead, pending, remaining, aged, retired>>
      /\ src' = s /\ batch' = B /\ s \notin dead /\ thrown = "none"
      /\ \A p \in B, q \in Todo(s) : q < p => q \in B
  BY DEF Receive, Batch, flow
<1>2. \A t \in Sources : Todo(t)' = Todo(t)
  BY <1>1 DEF Todo
<1>3. Live' = Live /\ \A t \in Live : t \in Sources
  BY <1>1 DEF Live
<1>4. GapInv'
  <2>1. Todo(src)' = Todo(s)
    BY <1>1, <1>2 DEF Todo
  <2> QED
    BY <1>1, <2>1 DEF GapInv
<1>5. AgedInv' /\ ComingInv(x)' /\ PastInv'
  BY <1>1, <1>2, <1>3 DEF OInv, AgedInv, ComingInv, PastInv
<1>6. InOrder'
  BY <1>1 DEF OInv, InOrder
<1> QED
  BY <1>4, <1>5, <1>6 DEF OInv

\* An exception ends the process: nothing is inserted or retired.
LEMMA InsertThrowsKeepsOrder ==
  ASSUME NEW x \in Sources, IInv, OInv(x), NEW p \in Pids, InsertThrows(p)
  PROVE  OInv(x)'
<1> USE EbAssumption DEF EbAssumption
<1>1. /\ p \in batch /\ batch' = batch \ {p} /\ pos' = [pos EXCEPT ![src] = p]
      /\ UNCHANGED <<contract, dead, src, busy, pending, remaining, aged, retired>>
      /\ thrown' # "none"
  BY DEF InsertThrows, Take
<1>2. /\ pos \in [Sources -> 0 .. MaxPid] /\ src \in Sources /\ pos[src] < p
      /\ batch \subseteq Pids /\ contract \in [Pids -> Contracts]
  BY <1>1 DEF IInv, TypeOK, BatchInv
<1>3. \A s \in Sources : Todo(s)' \subseteq Todo(s)
  BY <1>1, <1>2 DEF Todo, Pids
<1>4. Live' = Live /\ \A s \in Live : s \in Sources
  BY <1>1 DEF Live
<1>5. GapInv'
  <2>1. ASSUME NEW b \in batch', NEW q \in Todo(src)', q < b PROVE q \in batch'
    <3>1. q \in Todo(src) /\ q # p
      BY <1>1, <1>2 DEF Todo, Pids
    <3> QED
      BY <1>1, <2>1, <3>1 DEF OInv, GapInv
  <2>2. busy' => src' \notin dead'
    BY <1>1 DEF OInv, GapInv
  <2> QED
    BY <2>1, <2>2 DEF GapInv
<1>6. AgedInv' /\ ComingInv(x)' /\ PastInv' /\ InOrder'
  BY <1>1, <1>3, <1>4 DEF OInv, AgedInv, ComingInv, PastInv, InOrder
<1> QED
  BY <1>5, <1>6 DEF OInv

\* unconfigure() leaves nothing pending, and only later pulses to come.
LEMMA ClearKeepsOrder ==
  ASSUME NEW x \in Sources, IInv, HasOneInv, OInv(x), NEW m \in Pids, Clear(m)
  PROVE  OInv(x)'
<1> USE EbAssumption DEF EbAssumption
<1>1. /\ ~busy /\ pending' = {} /\ aged' = {} /\ pos' = [s \in Sources |-> m]
      /\ \A s \in Sources : pos[s] <= m
      /\ UNCHANGED <<contract, dead, src, batch, busy, retired>>
  BY DEF Clear, call
<1>2. batch = {}
  BY <1>1 DEF IInv, BatchInv
<1>3. ASSUME NEW s \in Sources, NEW q \in Todo(s)' PROVE m < q /\ q \in Nat /\ m \in Nat
  BY <1>1, <1>3 DEF Todo, Pids
<1>4. ASSUME NEW r \in retired PROVE r.pid <= m /\ r.pid \in Nat
  <2>1. r.pid \in Nat /\ r.from \subseteq Sources /\ r.from # {}
    BY DEF IInv, TypeOK, HasOneInv, Pids
  <2>2. PICK s \in Sources : s \in r.from
    BY <2>1
  <2>3. r.pid <= pos[s] /\ pos[s] \in Nat /\ pos[s] <= m /\ m \in Nat
    BY <1>1, <2>2 DEF IInv, TypeOK, RetiredInv, Pids
  <2> QED
    BY <2>1, <2>3
<1>5. GapInv' /\ AgedInv' /\ InOrder'
  BY <1>1, <1>2 DEF GapInv, AgedInv, InOrder
<1>6. PastInv'
  BY <1>1, <1>3, <1>4 DEF PastInv, Live
<1>7. ComingInv(x)'
  BY <1>1, <1>3 DEF ComingInv, Live
<1> QED
  BY <1>5, <1>6, <1>7 DEF OInv

\* Steps that leave the lists alone: a contributor dies, an event times out
\* with nothing as old to come, or nothing happens.
LEMMA PassiveKeepsOrder ==
  ASSUME NEW x \in Sources, OInv(x), dead \subseteq dead',
         UNCHANGED <<contract, pos, src, batch, busy, pending, remaining, retired, thrown>>,
         busy => src \notin dead',
         \A p \in aged' \ aged, s \in Live : \A q \in Todo(s) : p < q
  PROVE  OInv(x)'
<1>1. Live' \subseteq Live /\ Todo(src)' = Todo(src) /\ \A s \in Live : Todo(s)' = Todo(s)
  BY DEF Live, Todo
<1>2. GapInv'
  BY <1>1 DEF OInv, GapInv
<1>3. AgedInv' /\ ComingInv(x)' /\ PastInv' /\ InOrder'
  BY <1>1 DEF OInv, AgedInv, ComingInv, PastInv, InOrder
<1> QED
  BY <1>2, <1>3 DEF OInv

LEMMA OrderNext ==
  ASSUME ~Lossy, ~Late, NEW x \in Sources, Common(x)
  PROVE  IInv /\ HasOneInv /\ OInv(x) /\ [Next]_vars => OInv(x)'
<1> SUFFICES ASSUME IInv, HasOneInv, OInv(x), [Next]_vars PROVE OInv(x)'
  OBVIOUS
<1>1. ASSUME NEW s \in Sources, NEW B \in SUBSET Todo(s), Receive(s, B) PROVE OInv(x)'
  BY <1>1, ReceiveKeepsOrder
<1>2. ASSUME NEW p \in Pids, Insert(p) PROVE OInv(x)'
  BY <1>2, InsertKeepsOrder
<1>3. ASSUME NEW p \in Pids, InsertThrows(p) PROVE OInv(x)'
  BY <1>3, InsertThrowsKeepsOrder
<1>4. CASE FlushDue
  <2>1. due \in pending
    BY <1>4 DEF FlushDue, IInv, DueInv
  <2>2. ~busy'
    BY <1>4 DEF FlushDue
  <2> QED
    BY <1>4, <2>1, <2>2, FlushKeepsOrder DEF FlushDue, flow
<1>5. ASSUME UNCHANGED <<flow, pending, remaining, aged, retired>>, batch = {},
             UNCHANGED <<src, batch, thrown>>, ~busy'
      PROVE  OInv(x)'
  <2>1. Live' = Live /\ Todo(src)' = Todo(src) /\ \A s \in Live : Todo(s)' = Todo(s)
    BY <1>5 DEF Live, Todo, flow
  <2>2. GapInv' /\ AgedInv'
    BY <1>5, <2>1 DEF OInv, GapInv, AgedInv
  <2>3. ComingInv(x)' /\ PastInv' /\ InOrder'
    BY <1>5, <2>1 DEF OInv, ComingInv, PastInv, InOrder, flow
  <2> QED
    BY <2>2, <2>3 DEF OInv
<1>6. ASSUME FlushNewest \/ UNCHANGED <<pending, remaining, aged, retired, eventLut>>,
             batch = {}, UNCHANGED <<flow, src, batch, thrown>>, ~busy', thrown = "none"
      PROVE  OInv(x)'
  <2>1. CASE UNCHANGED <<pending, remaining, aged, retired, eventLut>>
    BY <1>5, <1>6, <2>1
  <2>2. ASSUME NEW d \in pending,
               Retire(Flushed(d, pending, remaining), pending, remaining, eventLut)
        PROVE  OInv(x)'
    BY <1>6, <2>2, FlushKeepsOrder DEF flow
  <2> QED
    BY <1>6, <2>1, <2>2 DEF FlushNewest
<1>7. CASE TryFlush
  BY <1>6, <1>7 DEF TryFlush
<1>8. CASE Expired
  <2>1. batch = {} /\ ~busy'
    BY <1>8 DEF Expired, call, IInv, BatchInv
  <2> QED
    BY <1>6, <1>8, <2>1 DEF Expired, call
<1>9. ASSUME NEW p \in Pids, Age(p) PROVE OInv(x)'
  <2>1. \A t \in aged' \ aged, s \in Live : \A q \in Todo(s) : t < q
    BY <1>9 DEF Age, Live
  <2>2. busy => src \notin dead'
    BY <1>9 DEF Age, flow, OInv, GapInv
  <2> QED
    BY <1>9, <2>1, <2>2, PassiveKeepsOrder DEF Age, flow, call
<1>10. ASSUME NEW s \in Sources, Die(s) PROVE OInv(x)'
  <2>1. busy => src \notin dead'
    BY <1>10 DEF Die, OInv, GapInv
  <2> QED
    BY <1>10, <2>1, PassiveKeepsOrder DEF Die, call, lists
<1>11. ASSUME NEW m \in Pids, Clear(m) PROVE OInv(x)'
  BY <1>11, ClearKeepsOrder
<1>12. CASE UNCHANGED vars
  <2>1. busy => src \notin dead'
    BY <1>12 DEF vars, flow, OInv, GapInv
  <2> QED
    BY <1>12, <2>1, PassiveKeepsOrder DEF vars, flow, call, lists
<1> QED
  BY <1>1, <1>2, <1>3, <1>4, <1>7, <1>8, <1>9, <1>10, <1>11, <1>12 DEF Next

\* Pulse IDs advance at the application, as Teb::process() requires, if no
\* contribution is lost or later than the timeout and some contributor is in
\* every contract; contributors may die and the builder be reconfigured.
THEOREM RetiredInOrder ==
  ~Lossy /\ ~Late /\ (\E x \in Sources : Common(x)) => (Spec => []InOrder)
<1> SUFFICES ASSUME ~Lossy, ~Late, NEW x \in Sources, Common(x)
             PROVE  Spec => []InOrder
  OBVIOUS
<1>1. Init => OInv(x)
  <2> SUFFICES ASSUME Init PROVE OInv(x)
    OBVIOUS
  <2>1. \A s \in Live : \A q \in Todo(s) : ~(q <= pos[x])
    BY DEF Init, Todo, Pids
  <2> QED
    BY <2>1 DEF Init, OInv, GapInv, AgedInv, ComingInv, PastInv, InOrder
<1>2. IInv /\ HasOneInv /\ OInv(x) /\ [Next]_vars => OInv(x)'
  BY OrderNext
<1>3. OInv(x) => InOrder
  BY DEF OInv
<1> QED
  BY <1>1, <1>2, <1>3, Invariance, HasOneAlways, PTL DEF Spec

-----------------------------------------------------------------------------
(***************************************************************************)
(* The pool of events                                                      *)
(*                                                                         *)
(* A contributor has Window buffers, so at most Window contributions of it *)
(* are in unretired events and in the batch in hand.  Every event on the   *)
(* list holds a contribution, so there are at most Window of them for each *)
(* contributor.                                                            *)
(***************************************************************************)

\* Sets of at most n elements each, one for each element of S, cover at most
\* n elements for each element of S.
LEMMA CoverBound ==
  ASSUME NEW S, IsFiniteSet(S), NEW n \in Nat, NEW P, NEW O,
         \A s \in S : IsFiniteSet(O[s]) /\ Cardinality(O[s]) <= n,
         \A p \in P : \E s \in S : p \in O[s]
  PROVE  IsFiniteSet(P) /\ Cardinality(P) <= Cardinality(S) * n
<1> DEFINE size(s) == Cardinality(O[s])
           count(s) == CHOOSE f : f \in Bijection(1 .. size(s), O[s])
           cover(p) == CHOOSE s \in S : p \in O[s]
           index(p) == CHOOSE i \in 1 .. size(cover(p)) : count(cover(p))[i] = p
           h == [p \in P |-> <<cover(p), index(p)>>]
<1>1. ASSUME NEW s \in S
      PROVE  size(s) \in Nat /\ size(s) <= n /\ count(s) \in Bijection(1 .. size(s), O[s])
  BY FS_CardinalityType DEF ExistsBijection
<1>2. ASSUME NEW p \in P PROVE cover(p) \in S /\ p \in O[cover(p)]
  OBVIOUS
<1> HIDE DEF cover, count, size
<1>3. ASSUME NEW p \in P
      PROVE  index(p) \in 1 .. size(cover(p)) /\ count(cover(p))[index(p)] = p
  <2>1. \E i \in 1 .. size(cover(p)) : count(cover(p))[i] = p
    BY <1>1, <1>2 DEF Bijection, Surjection
  <2> QED
    BY <2>1
<1> HIDE DEF index
<1>4. ASSUME NEW p \in P PROVE index(p) \in 1 .. n
  BY <1>1, <1>2, <1>3
<1>5. h \in [P -> S \X (1 .. n)]
  BY <1>2, <1>4
<1>6. ASSUME NEW p \in P, NEW q \in P, h[p] = h[q] PROVE p = q
  <2>1. cover(p) = cover(q) /\ index(p) = index(q)
    BY <1>6
  <2> QED
    BY <1>3, <2>1
<1>7. h \in Injection(P, S \X (1 .. n))
  BY <1>5, <1>6 DEF Injection, IsInjective
<1>8. IsFiniteSet(1 .. n) /\ Cardinality(1 .. n) = n
  BY FS_Interval
<1>9. IsFiniteSet(S \X (1 .. n)) /\ Cardinality(S \X (1 .. n)) = Cardinality(S) * n
  BY <1>8, FS_Product
<1> HIDE DEF h
<1> QED
  BY <1>7, <1>9, FS_Injection

\* The contributors' buffers hold what is outstanding.
OutInv ==
  /\ \A s \in Sources : Cardinality(Outstanding(s)) <= Window
  /\ Cardinality(Outstanding(src)) + Cardinality(batch) <= Window

LEMMA PidsFinite ==
  ASSUME NEW T \in SUBSET Pids
  PROVE  IsFiniteSet(T) /\ Cardinality(T) \in Nat
<1>1. IsFiniteSet(Pids)
  BY EbAssumption, FS_Interval DEF Pids, EbAssumption
<1> QED
  BY <1>1, FS_Subset, FS_CardinalityType

LEMMA OneMore ==
  ASSUME NEW T \in SUBSET Pids, NEW p \in Pids
  PROVE  /\ IsFiniteSet(T \cup {p}) /\ Cardinality(T \cup {p}) \in Nat
         /\ Cardinality(T \cup {p}) <= Cardinality(T) + 1
<1>1. IsFiniteSet(T) /\ Cardinality(T) \in Nat
  BY PidsFinite
<1>2. /\ IsFiniteSet(T \cup {p})
      /\ Cardinality(T \cup {p}) = IF p \in T THEN Cardinality(T) ELSE Cardinality(T) + 1
  BY <1>1, FS_AddElement
<1> QED
  BY <1>1, <1>2

\* Less outstanding, and a batch no larger.
LEMMA FewerOut ==
  ASSUME IInv, OutInv, src' = src, batch' \subseteq batch,
         \A s \in Sources : Outstanding(s)' \subseteq Outstanding(s)
  PROVE  OutInv'
<1>1. \A s \in Sources : Outstanding(s) \in SUBSET Pids
  BY DEF Outstanding, IInv, TypeOK
<1>2. batch \in SUBSET Pids /\ batch' \in SUBSET Pids /\ src \in Sources
  BY DEF IInv, TypeOK
<1>3. \A s \in Sources : Cardinality(Outstanding(s)') <= Cardinality(Outstanding(s))
  BY <1>1, PidsFinite, FS_Subset
<1>4. Cardinality(batch') <= Cardinality(batch)
  BY <1>2, PidsFinite, FS_Subset
<1>5. \A s \in Sources : Cardinality(Outstanding(s)) \in Nat /\ Cardinality(Outstanding(s)') \in Nat
  BY <1>1, PidsFinite
<1>6. Cardinality(batch) \in Nat /\ Cardinality(batch') \in Nat
  BY <1>2, PidsFinite
<1> QED
  BY <1>2, <1>3, <1>4, <1>5, <1>6, EbAssumption DEF OutInv, EbAssumption

\* A flush takes events off the list, and nothing else.
LEMMA RetireOut ==
  ASSUME NEW gone, NEW lut, Retire(gone, pending, remaining, lut), contract' = contract
  PROVE  \A s \in Sources : Outstanding(s)' \subseteq Outstanding(s)
BY DEF Retire, Outstanding

\* An insertion moves a contribution from the batch to its event.
LEMMA InsertOut ==
  ASSUME IInv, OutInv, NEW p \in Pids, Insert(p)
  PROVE  OutInv'
<1> USE EbAssumption DEF EbAssumption
<1>1. /\ p \in batch /\ batch' = batch \ {p} /\ UNCHANGED <<contract, src>>
      /\ pending' \subseteq Inserted(p) /\ remaining' = InsertedRem(p)
  BY DEF Insert, Take, Retire
<1>2. /\ remaining \in [Pids -> SUBSET Sources] /\ pending \subseteq Pids /\ src \in Sources
      /\ batch \in SUBSET Pids
  BY DEF IInv, TypeOK
<1>3. /\ remaining'[p] = Expected(p) \ {src}
      /\ \A q \in pending : q # p => remaining'[q] = remaining[q]
  BY <1>1, <1>2 DEF InsertedRem
<1>4. \A s \in Sources : s # src => Outstanding(s)' \subseteq Outstanding(s)
  BY <1>1, <1>3 DEF Outstanding, Inserted, Expected
<1>5. Outstanding(src)' \subseteq Outstanding(src) \cup {p}
  BY <1>1, <1>3 DEF Outstanding, Inserted, Expected
<1>6. \A s \in Sources : Outstanding(s) \in SUBSET Pids
  BY <1>2 DEF Outstanding
<1>7. \A s \in Sources : IsFiniteSet(Outstanding(s)) /\ Cardinality(Outstanding(s)) \in Nat
  BY <1>6, PidsFinite
<1>8. \A s \in Sources : s # src => Cardinality(Outstanding(s)') <= Cardinality(Outstanding(s))
  BY <1>4, <1>7, FS_Subset
<1>9. /\ Cardinality(batch) \in Nat /\ IsFiniteSet(batch)
      /\ Cardinality(batch') \in Nat /\ Cardinality(batch') = Cardinality(batch) - 1
  <2>1. Cardinality(batch) \in Nat /\ IsFiniteSet(batch)
    BY <1>2, PidsFinite
  <2>2. Cardinality(batch') = Cardinality(batch) - 1
    BY <1>1, <2>1, FS_RemoveElement
  <2>3. batch' \in SUBSET Pids
    BY <1>1, <1>2
  <2>4. Cardinality(batch') \in Nat
    BY <2>3, PidsFinite
  <2> QED
    BY <2>1, <2>2, <2>4
<1>10. Cardinality(Outstanding(src)') <= Cardinality(Outstanding(src)) + 1
       /\ Cardinality(Outstanding(src)') \in Nat
  <2> DEFINE O == Outstanding(src) \cup {p}
  <2>1. IsFiniteSet(O) /\ Cardinality(O) <= Cardinality(Outstanding(src)) + 1
    BY <1>2, <1>6, OneMore
  <2>2. Outstanding(src)' \in SUBSET O /\ Outstanding(src)' \in SUBSET Pids /\ O \in SUBSET Pids
    BY <1>2, <1>5, <1>6
  <2> HIDE DEF O
  <2>3. Cardinality(Outstanding(src)') <= Cardinality(O)
    BY <2>1, <2>2, FS_Subset
  <2>4. Cardinality(Outstanding(src)') \in Nat /\ Cardinality(O) \in Nat
    BY <2>2, PidsFinite
  <2> QED
    BY <1>2, <1>7, <2>1, <2>3, <2>4
<1>11. \A s \in Sources : s # src => Cardinality(Outstanding(s)') \in Nat
  BY <1>4, <1>6, PidsFinite
<1>12. src' = src
  BY <1>1
<1>13. Cardinality(Outstanding(src)') + Cardinality(batch') <= Window
  BY <1>2, <1>7, <1>9, <1>10 DEF OutInv
<1>14. \A s \in Sources : Cardinality(Outstanding(s)') <= Window
  BY <1>2, <1>7, <1>8, <1>9, <1>10, <1>11, <1>12, <1>13 DEF OutInv
<1> QED
  BY <1>12, <1>13, <1>14 DEF OutInv

LEMMA OutNext == IInv /\ OutInv /\ [Next]_vars => OutInv'
<1> SUFFICES ASSUME IInv, OutInv, [Next]_vars PROVE OutInv'
  OBVIOUS
<1> DEFINE Fewer == /\ src' = src /\ batch' \subseteq batch
                    /\ \A s \in Sources : Outstanding(s)' \subseteq Outstanding(s)
<1>1. CASE Fewer
  BY <1>1, FewerOut
<1>2. ASSUME NEW s \in Sources, NEW B \in SUBSET Todo(s), Receive(s, B) PROVE OutInv'
  <2>1. /\ UNCHANGED <<contract, pending, remaining>> /\ src' = s /\ batch' = B
        /\ Cardinality(Outstanding(s)) + Cardinality(B) <= Window
    BY <1>2 DEF Receive, Batch, flow
  <2>2. \A t \in Sources : Outstanding(t)' = Outstanding(t)
    BY <2>1 DEF Outstanding
  <2>3. Outstanding(src)' = Outstanding(s)
    BY <2>1 DEF Outstanding
  <2> QED
    BY <2>1, <2>2, <2>3 DEF OutInv
<1>3. ASSUME NEW p \in Pids, Insert(p) PROVE OutInv'
  BY <1>3, InsertOut
<1>4. ASSUME NEW p \in Pids, InsertThrows(p) PROVE Fewer
  BY <1>4 DEF InsertThrows, Take, Outstanding
<1>5. ASSUME UNCHANGED <<contract, pending, remaining, src, batch>> PROVE Fewer
  BY <1>5 DEF Outstanding
<1>6. ASSUME NEW gone, Retire(gone, pending, remaining, eventLut),
             UNCHANGED <<contract, src, batch>>
      PROVE  Fewer
  BY <1>6, RetireOut
<1>7. CASE FlushDue
  BY <1>1, <1>6, <1>7 DEF FlushDue, flow
<1>8. CASE TryFlush \/ Expired
  BY <1>1, <1>5, <1>6, <1>8 DEF TryFlush, Expired, FlushNewest, flow, call
<1>9. ASSUME NEW p \in Pids, Age(p) PROVE Fewer
  BY <1>5, <1>9 DEF Age, flow, call
<1>10. ASSUME NEW s \in Sources, Die(s) PROVE Fewer
  BY <1>5, <1>10 DEF Die, call, lists
<1>11. ASSUME NEW m \in Pids, Clear(m) PROVE Fewer
  BY <1>11 DEF Clear, call, Outstanding
<1>12. CASE UNCHANGED vars
  BY <1>1, <1>5, <1>12 DEF vars, flow, call, lists
<1> HIDE DEF Fewer
<1> QED
  BY <1>1, <1>2, <1>3, <1>4, <1>7, <1>8, <1>9, <1>10, <1>11, <1>12 DEF Next

\* With that many events, one is free for the next contribution.
LEMMA OneFree ==
  ASSUME IInv, HasOneInv, OutInv, IsFiniteSet(Sources),
         Cardinality(Sources) * Window <= NumEvents, NEW p \in batch
  PROVE  ~Exhausted(p)
<1> USE EbAssumption DEF EbAssumption
<1> DEFINE O == [s \in Sources |-> IF s = src THEN Outstanding(s) \cup {p} ELSE Outstanding(s)]
           P == pending \cup {p}
<1>1. p \in Pids /\ pending \in SUBSET Pids /\ batch \in SUBSET Pids /\ src \in Sources
      /\ contract \in [Pids -> SUBSET Sources]
  BY DEF IInv, TypeOK
<1>2. \A s \in Sources : Outstanding(s) \in SUBSET Pids
  BY <1>1 DEF Outstanding
<1>3. \A s \in Sources : IsFiniteSet(Outstanding(s)) /\ Cardinality(Outstanding(s)) \in Nat
  BY <1>2, PidsFinite
<1>4. Cardinality(batch) >= 1 /\ Cardinality(batch) \in Nat
  <2>1. Cardinality(batch) \in Nat /\ IsFiniteSet(batch)
    BY <1>1, PidsFinite
  <2>2. Cardinality(batch) # 0
    BY <2>1, FS_EmptySet
  <2> QED
    BY <2>1, <2>2
<1>5. ASSUME NEW s \in Sources PROVE IsFiniteSet(O[s]) /\ Cardinality(O[s]) <= Window
  <2>1. CASE s # src
    BY <1>3, <2>1 DEF OutInv
  <2>2. CASE s = src
    <3>1. O[s] = Outstanding(src) \cup {p}
      BY <2>2
    <3>2. IsFiniteSet(O[s]) /\ Cardinality(O[s]) <= Cardinality(Outstanding(src)) + 1
      BY <1>1, <1>2, <3>1, OneMore
    <3>3. O[s] \in SUBSET Pids
      BY <1>1, <1>2, <3>1
    <3>4. Cardinality(O[s]) \in Nat
      BY <3>3, PidsFinite
    <3> QED
      BY <1>1, <1>3, <1>4, <3>2, <3>4 DEF OutInv
  <2> QED
    BY <2>1, <2>2
<1>6. ASSUME NEW q \in P PROVE \E s \in Sources : q \in O[s]
  <2>1. CASE q = p
    BY <1>1, <2>1
  <2>2. CASE q # p
    <3>1. q \in pending /\ contract[q] \ remaining[q] # {}
      BY <2>2 DEF HasOneInv
    <3>2. PICK s \in Sources : s \in contract[q] \ remaining[q]
      BY <1>1, <3>1
    <3>3. q \in Outstanding(s)
      BY <3>1, <3>2 DEF Outstanding
    <3> QED
      BY <3>3
  <2> QED
    BY <2>1, <2>2
<1>7. Cardinality(P) <= Cardinality(Sources) * Window
  <2> HIDE DEF O, P
  <2> QED
    BY <1>5, <1>6, CoverBound
<1>8. IsFiniteSet(pending) /\ Cardinality(pending) \in Nat
  BY <1>1, PidsFinite
<1>9. p \notin pending => Cardinality(P) = Cardinality(pending) + 1
  BY <1>8, FS_AddElement
<1>10. Cardinality(Sources) \in Nat
  BY FS_CardinalityType
<1>11. Cardinality(Sources) * Window \in Nat
  BY <1>10
<1> QED
  BY <1>7, <1>8, <1>9, <1>11 DEF Exhausted

\* _event() finds a free event if the pool has one for each buffer of each
\* contributor, whatever is lost or late.  The factor 2 of EventBuilder's
\* constructor is enough for two contributors.
THEOREM PoolLargeEnough ==
  IsFiniteSet(Sources) /\ Cardinality(Sources) * Window <= NumEvents
    => (Spec => []PoolSuffices)
<1> SUFFICES ASSUME IsFiniteSet(Sources), Cardinality(Sources) * Window <= NumEvents
             PROVE  Spec => []PoolSuffices
  OBVIOUS
<1>1. Init => OutInv /\ PoolSuffices
  <2> SUFFICES ASSUME Init PROVE OutInv /\ PoolSuffices
    OBVIOUS
  <2>1. batch = {} /\ \A s \in Sources : Outstanding(s) = {}
    BY DEF Init, Outstanding
  <2>2. src \in Sources /\ thrown = "none" /\ Window \in Nat
    BY EbAssumption DEF Init, EbAssumption
  <2>3. Cardinality({}) = 0
    BY FS_EmptySet
  <2> QED
    BY <2>1, <2>2, <2>3 DEF OutInv, PoolSuffices
<1>2. IInv /\ HasOneInv /\ OutInv /\ PoolSuffices /\ [Next]_vars => PoolSuffices'
  <2> SUFFICES ASSUME IInv, HasOneInv, OutInv, PoolSuffices, [Next]_vars PROVE PoolSuffices'
    OBVIOUS
  <2>1. ASSUME NEW p \in Pids, InsertThrows(p) PROVE PoolSuffices'
    <3>1. ~Exhausted(p)
      BY <2>1, OneFree DEF InsertThrows, Take
    <3> QED
      BY <2>1, <3>1 DEF InsertThrows, PoolSuffices
  <2>2. ASSUME NEW s \in Sources, NEW B \in SUBSET Todo(s), Receive(s, B) PROVE PoolSuffices'
    BY <2>2 DEF Receive, Match, PoolSuffices
  <2> QED
    BY <2>1, <2>2 DEF Next, Insert, FlushDue, TryFlush, Expired, Age, Die, Clear, vars,
       PoolSuffices
<1> QED
  BY <1>1, <1>2, OutNext, Invariance, HasOneAlways, PTL DEF Spec
=============================================================================
