--------------------------- MODULE ResultsProofs ---------------------------
(***************************************************************************)
(* Proofs about Results, for every number of DRPs, TEBs and pulses and     *)
(* every size of epochs, regions and windows.                              *)
(*                                                                         *)
(* The inputs of a DRP are a chain: what was delivered, what is left of    *)
(* the batches on _pending, and the batch in progress.  ChainInv says that *)
(* this chain is in pulse order and holds every input, so that whatever    *)
(* results come, and in whatever order, what is delivered is the beginning *)
(* of the inputs.  ResultInv says where the result of a pulse is: an event *)
(* is built when all its contributions are there, after which none can     *)
(* come, so that its result is made once and is, for each DRP, in one      *)
(* batch only.  ReachInv says that each event is still to be built or its  *)
(* result is on its way to each DRP that reads the pulse out.              *)
(*                                                                         *)
(* ChainInv and ReachInv need that what a reader finds in a batch is all   *)
(* of it (Whole): of SlowUpdates sent to several TEBs this is not so.      *)
(***************************************************************************)
EXTENDS Results, SequenceTheorems, WellFoundedInduction, TLAPS

Increasing(s) == \A i, j \in DOMAIN s : i < j => s[i] < s[j]

\* The collector of c is through with pulse p.
Past(c, p) == p <= read[c] /\ p \notin Range(open[c])

\* What is left of the batches on _pending.
Left(d) == IF inputs[d] = << >> THEN pending[d]
           ELSE [pending[d] EXCEPT ![1] = inputs[d]]

\* Event p is built.
Built(p) ==
  /\ InCommon(p)
  /\ \A c \in Contractors \cap groups[p] : Past(c, p) /\ <<c, p>> \notin got[Dst(p)]

\* The type of the state, as far as the proofs need it.  Inputs that are left over
\* are of a batch that is still on _pending.
TypeInv ==
  /\ kind \in [Pids -> Kinds] /\ groups \in [Pids -> SUBSET Drps]
  /\ read \in [Drps -> 0 .. MaxPid]
  /\ open \in [Drps -> Seq(Pids)] /\ inputs \in [Drps -> Seq(Pids)]
  /\ pending \in [Drps -> Seq(Batches)] /\ deferred \in [Drps -> SUBSET Batches]
  /\ \A d \in Drps : inputs[d] # << >> => pending[d] # << >>
  /\ delivered \in [Drps -> Seq(Pids)]
  /\ got \in [Tebs -> SUBSET (Drps \X Pids)]
  /\ result \in [Tebs -> Seq(Pids)] /\ dsts \in [Tebs -> SUBSET Drps]
  /\ wire \in [Tebs -> [Drps -> Seq(Batches)]]

\* Datagrams other than L1Accepts go to every DRP.
KindInv == \A p \in Pids : kind[p] # "l1accept" => groups[p] = Drps

\* The batch in progress: inputs of the common readout group, of one epoch, in
\* order, none of which ends a batch.
OpenInv ==
  \A d \in Drps :
    /\ Increasing(open[d])
    /\ \A p \in Range(open[d]) :
         /\ p <= read[d] /\ d \in groups[p] /\ InCommon(p) /\ ~Flushes(p)
         /\ Epoch(p) = Epoch(open[d][1])

\* Contributions are of contractors; those at the TEB that responds to the pulse
\* are of contractors that are through with it.
GotInv ==
  \A t \in Tebs : \A c \in Drps, p \in Pids :
    <<c, p>> \in got[t] => /\ c \in Contractors \cap groups[p] /\ InCommon(p)
                           /\ Dst(p) = t => Past(c, p)

\* A result is of an event that is built, and is in one place.
ResultInv ==
  /\ \A t \in Tebs : \A p \in Range(result[t]) : Dst(p) = t /\ Built(p)
  /\ \A t \in Tebs, d \in Drps : \A k \in DOMAIN wire[t][d] :
       \A p \in Range(wire[t][d][k]) :
         /\ Dst(p) = t /\ Built(p) /\ p \notin Range(result[t])
         /\ \A l \in DOMAIN wire[t][d] : p \in Range(wire[t][d][l]) => l = k
  /\ \A d \in Drps : \A rs \in deferred[d] : \A p \in Range(rs) :
       /\ Built(p) /\ p \notin Range(result[Dst(p)])
       /\ \A k \in DOMAIN wire[Dst(p)][d] : p \notin Range(wire[Dst(p)][d][k])
       /\ \A qs \in deferred[d] : p \in Range(qs) => qs = rs

\* The chain of the inputs of d up to pulse n: what was delivered, what is left of the
\* batches on _pending, the batch in progress.
Chain(d, ds, ls, os, n) ==
  /\ Increasing(ds)
  /\ \A i \in DOMAIN ls :
       Increasing(ls[i]) /\ \A k \in DOMAIN ls[i] : InCommon(ls[i][k]) \/ Len(ls[i]) = 1
  /\ \A q \in Range(ds) :
       /\ q \in Inputs(d, n)
       /\ \A p \in Range(os) : q < p
       /\ \A i \in DOMAIN ls : \A p \in Range(ls[i]) : q < p
  /\ \A i \in DOMAIN ls : \A q \in Range(ls[i]) :
       /\ q \in Inputs(d, n)
       /\ \A p \in Range(os) : q < p
       /\ \A j \in DOMAIN ls : i < j => \A p \in Range(ls[j]) : q < p
  /\ \A p \in Inputs(d, n) :
       \/ p \in Range(ds) \/ p \in Range(os)
       \/ \E i \in DOMAIN ls : p \in Range(ls[i])

ChainInv == \A d \in Drps : Chain(d, delivered[d], Left(d), open[d], read[d])

\* Where the result of p for d is, if it is not delivered.
Reaches(d, p) ==
  \/ p \in Pending(Dst(p))
  \/ p \in Range(result[Dst(p)]) /\ d \in dsts[Dst(p)]
  \/ \E k \in DOMAIN wire[Dst(p)][d] : p \in Range(wire[Dst(p)][d][k])
  \/ \E rs \in deferred[d] : p \in Range(rs)

\* An event is yet to be contributed to, or it reaches those that read it out.
ReachInv ==
  \A d \in Drps, p \in Pids : d \in groups[p] /\ InCommon(p) =>
    \/ p \in Range(delivered[d])
    \/ Reaches(d, p)
    \/ \E c \in Contractors \cap groups[p] : ~Past(c, p)

\* What a reader finds in a batch is all of it.
Whole == NumTebs = 1 \/ "slowupdate" \notin Kinds

PlaceInv == TypeInv /\ KindInv /\ OpenInv /\ GotInv /\ ResultInv
QueueInv == ChainInv /\ ReachInv

-----------------------------------------------------------------------------
(***************************************************************************)
(* Numbers and sequences                                                   *)
(***************************************************************************)

\* Every nonempty set of naturals has a least member.
LEMMA LeastNat ==
  ASSUME NEW T \in SUBSET Nat, T # {}
  PROVE  \E x \in T : \A y \in T : x <= y
<1> DEFINE R == {pair \in Nat \X Nat : pair[1] < pair[2]}
<1>1. R = OpToRel(<, Nat)
  BY DEF OpToRel
<1>2. IsWellFoundedOn(R, Nat)
  BY <1>1, NatLessThanWellFounded
<1>3. PICK x \in T : \A y \in T : ~(<<y, x>> \in R)
  <2> HIDE DEF R
  <2> QED
    BY <1>2, WFMin
<1>4. ASSUME NEW y \in T
      PROVE  x <= y
  <2>1. <<y, x>> \in Nat \X Nat /\ <<y, x>>[1] = y /\ <<y, x>>[2] = x
    OBVIOUS
  <2>2. ~(y < x)
    BY <1>3, <2>1
  <2> QED
    BY <2>2
<1> QED
  BY <1>4

\* Min, the least member.
LEMMA MinNat ==
  ASSUME NEW T \in SUBSET Nat, T # {}
  PROVE  Min(T) \in T /\ \A y \in T : Min(T) <= y
BY LeastNat DEF Min

\* Every pulse has a TEB.
LEMMA DstTeb ==
  ASSUME NEW p \in Pids
  PROVE  Dst(p) \in Tebs
<1>1. p \in Nat /\ MaxEntries \in Nat \ {0} /\ NumTebs \in Nat \ {0}
  BY ResultsAssumption DEF Pids
<1>2. p \div MaxEntries \in Nat
  BY <1>1
<1>3. \A n \in Nat : n % NumTebs \in 0 .. NumTebs - 1
  BY <1>1
<1> QED
  BY <1>2, <1>3 DEF Dst, Epoch, Tebs

\* Appending to an increasing sequence.
LEMMA AppendIncreasing ==
  ASSUME NEW s \in Seq(Nat), NEW x \in Nat, Increasing(s), \A y \in Range(s) : y < x
  PROVE  Increasing(Append(s, x))
<1>1. \A i \in DOMAIN s : s[i] \in Range(s)
  BY DEF Range
<1> QED
  BY <1>1 DEF Increasing

LEMMA EmptyRange == Range(<< >>) = {}
BY DEF Range

LEMMA OneRange == \A x : Range(<<x>>) = {x}
BY DEF Range

\* The members of a sequence that is appended to.
LEMMA AppendRange ==
  ASSUME NEW S, NEW s \in Seq(S), NEW x \in S
  PROVE  Range(Append(s, x)) = Range(s) \cup {x}
<1>1. Append(s, x) = s \o <<x>> /\ <<x>> \in Seq(S)
  BY AppendIsConcat
<1>2. Range(s \o <<x>>) = Range(s) \cup Range(<<x>>)
  BY <1>1, RangeConcatenation, SMTT(30)
<1> QED
  BY <1>1, <1>2, OneRange

-----------------------------------------------------------------------------
(***************************************************************************)
(* Batches                                                                 *)
(***************************************************************************)

LEMMA PairConcat ==
  ASSUME NEW x, NEW y
  PROVE  /\ <<x>> \o <<y>> = <<x, y>> /\ <<x>> \o << >> = <<x>>
         /\ << >> \o <<y>> = <<y>> /\ << >> \o << >> = << >>
<1> DEFINE S == {x, y}
<1>1. <<x>> \in Seq(S) /\ <<y>> \in Seq(S) /\ << >> \in Seq(S) /\ <<x, y>> \in Seq(S)
  OBVIOUS
<1> HIDE DEF S
<1>2. <<x>> \o <<y>> = <<x, y>>
  <2>1. /\ Len(<<x>> \o <<y>>) = 2 /\ <<x>> \o <<y>> \in Seq(S)
        /\ (<<x>> \o <<y>>)[1] = x /\ (<<x>> \o <<y>>)[2] = y
    BY <1>1, ConcatProperties
  <2>2. Len(<<x, y>>) = 2 /\ \A i \in 1 .. 2 : (<<x>> \o <<y>>)[i] = <<x, y>>[i]
    BY <2>1
  <2> QED
    BY <1>1, <2>1, <2>2, SeqEqual
<1> QED
  BY <1>1, <1>2, ConcatEmptySeq

\* The four ways in which a pulse is added to a batch.
LEMMA BatchCases ==
  ASSUME NEW b \in Seq(Pids), NEW p \in Pids, NEW n
  PROVE  \/ /\ Closes(b, p, n) /\ Flushes(p)
            /\ Posted(b, p, n) = <<b, <<p>>>> /\ Kept(b, p, n) = << >>
         \/ /\ Closes(b, p, n) /\ ~Flushes(p)
            /\ Posted(b, p, n) = <<b>> /\ Kept(b, p, n) = <<p>>
         \/ /\ ~Closes(b, p, n) /\ Flushes(p)
            /\ Posted(b, p, n) = <<Append(b, p)>> /\ Kept(b, p, n) = << >>
         \/ /\ ~Closes(b, p, n) /\ ~Flushes(p)
            /\ Posted(b, p, n) = << >> /\ Kept(b, p, n) = Append(b, p)
<1>1. \A x, y \in Seq(Pids) :
        /\ <<x>> \o <<y>> = <<x, y>> /\ <<x>> \o << >> = <<x>>
        /\ << >> \o <<y>> = <<y>> /\ << >> \o << >> = << >>
  BY PairConcat
<1>2. CASE Closes(b, p, n) /\ Flushes(p)
  <2>1. Posted(b, p, n) = <<b>> \o <<<<p>>>>
    BY <1>2 DEF Posted
  <2>2. <<b>> \o <<<<p>>>> = <<b, <<p>>>>
    BY PairConcat
  <2> QED
    BY <1>2, <2>1, <2>2 DEF Kept
<1>3. CASE Closes(b, p, n) /\ ~Flushes(p)
  BY <1>1, <1>3 DEF Posted, Kept
<1>4. CASE ~Closes(b, p, n) /\ Flushes(p)
  BY <1>1, <1>4 DEF Posted, Kept
<1>5. CASE ~Closes(b, p, n) /\ ~Flushes(p)
  BY <1>1, <1>5 DEF Posted, Kept
<1> QED
  BY <1>2, <1>3, <1>4, <1>5

\* The batches that leave when d collects p.
Sent(d, p) ==
  IF InCommon(p) THEN Posted(open[d], p, DrpStart + Cardinality(Inputs(d, p)))
  ELSE Bypassed(d, p)

\* What they are, and what is left.
LEMMA CollectCases ==
  ASSUME TypeInv, NEW d \in Drps, NEW p \in Pids, Collect(d, p)
  PROVE  /\ open' = [open EXCEPT ![d] = open'[d]]
         /\ \/ /\ Sent(d, p) = << >> /\ open'[d] = Append(open[d], p)
               /\ InCommon(p) /\ ~Flushes(p)
               /\ open[d] # << >> => Epoch(open[d][1]) = Epoch(p)
            \/ /\ Sent(d, p) = <<open[d]>> /\ open[d] # << >> /\ open'[d] = <<p>>
               /\ InCommon(p) /\ ~Flushes(p)
            \/ /\ Sent(d, p) = <<open[d], <<p>>>> /\ open[d] # << >>
               /\ open'[d] = << >>
            \/ /\ Sent(d, p) = <<<<p>>>> /\ open[d] = << >> /\ open'[d] = << >>
            \/ /\ Sent(d, p) = <<Append(open[d], p)>> /\ open'[d] = << >>
               /\ open[d] # << >>
               /\ InCommon(p) /\ Epoch(open[d][1]) = Epoch(p)
<1> DEFINE n == DrpStart + Cardinality(Inputs(d, p))
<1>1. open[d] \in Seq(Pids) /\ open \in [Drps -> Seq(Pids)]
  BY DEF TypeInv
<1>2. open' = [open EXCEPT ![d] = IF InCommon(p) THEN Kept(open[d], p, n) ELSE << >>]
  BY DEF Collect
<1>3. open' = [open EXCEPT ![d] = open'[d]]
  BY <1>1, <1>2
<1>4. CASE InCommon(p)
  <2>1. open'[d] = Kept(open[d], p, n) /\ Sent(d, p) = Posted(open[d], p, n)
    BY <1>1, <1>2, <1>4 DEF Sent
  <2>2. Closes(open[d], p, n) => open[d] # << >>
    BY DEF Closes
  <2>3. ~Closes(open[d], p, n) => open[d] = << >> \/ Epoch(open[d][1]) = Epoch(p)
    BY DEF Closes
  <2>4. open[d] = << >> => Append(open[d], p) = <<p>>
    BY <1>1
  <2> HIDE DEF n
  <2> QED
    BY <1>1, <1>3, <1>4, <2>1, <2>2, <2>3, <2>4, BatchCases
<1>5. CASE ~InCommon(p)
  <2>1. open'[d] = << >> /\ Sent(d, p) = Bypassed(d, p)
    BY <1>1, <1>2, <1>5 DEF Sent
  <2>2. Bypassed(d, p) = IF open[d] = << >> THEN <<<<p>>>> ELSE <<open[d], <<p>>>>
    BY PairConcat DEF Bypassed
  <2> QED
    BY <1>3, <2>1, <2>2
<1> QED
  BY <1>4, <1>5

\* A batch of d that leaves when p is added.
Leaves(d, p, b) ==
  /\ b \in Batches /\ Increasing(b)
  /\ ~InCommon(b[1]) => Len(b) = 1
  /\ \A k \in DOMAIN b :
       /\ b[k] \in Range(open[d]) \cup {p}
       /\ k < Len(b) => b[k] \in Range(open[d])
       /\ InCommon(b[k]) <=> InCommon(b[1])
       /\ Epoch(b[k]) = Epoch(b[1])

\* The batches that leave are in order, before what stays, and nothing is lost.
LEMMA CollectBatches ==
  ASSUME TypeInv, OpenInv, NEW d \in Drps, NEW p \in Pids, Collect(d, p)
  PROVE  /\ Sent(d, p) \in Seq(Batches)
         /\ \A i \in DOMAIN Sent(d, p) : Leaves(d, p, Sent(d, p)[i])
         /\ \A i, j \in DOMAIN Sent(d, p) : i < j =>
              \A q \in Range(Sent(d, p)[i]), r \in Range(Sent(d, p)[j]) : q < r
         /\ \A i \in DOMAIN Sent(d, p) :
              \A q \in Range(Sent(d, p)[i]), r \in Range(open'[d]) : q < r
         /\ \A q \in Range(open[d]) \cup {p} :
              \/ q \in Range(open'[d])
              \/ \E i \in DOMAIN Sent(d, p) : q \in Range(Sent(d, p)[i])
         /\ Range(open'[d]) \subseteq Range(open[d]) \cup {p}
         /\ OpenInv'
<1> DEFINE b == open[d]
<1>1. /\ open \in [Drps -> Seq(Pids)] /\ read \in [Drps -> 0 .. MaxPid]
      /\ b \in Seq(Pids) /\ Pids \subseteq Nat /\ read[d] \in Nat /\ b \in Seq(Nat)
  <2>1. Pids \subseteq Nat /\ MaxPid \in Nat
    BY ResultsAssumption DEF Pids
  <2>2. open \in [Drps -> Seq(Pids)] /\ read \in [Drps -> 0 .. MaxPid] /\ b \in Seq(Pids)
    BY DEF TypeInv
  <2>3. b \in Seq(Nat)
    BY <2>1, <2>2, SeqMonotonic
  <2> QED
    BY <2>1, <2>2, <2>3
<1>2. /\ Increasing(b) /\ p > read[d] /\ d \in groups[p]
      /\ \A q \in Range(b) : /\ q \in Pids /\ q < p /\ d \in groups[q] /\ InCommon(q)
                             /\ ~Flushes(q) /\ Epoch(q) = Epoch(b[1])
  <2>1. \A q \in Range(b) : q \in Pids /\ q <= read[d]
    BY <1>1, RangeOfSeq DEF OpenInv
  <2>2. p > read[d] /\ d \in groups[p] /\ p \in Nat
    BY <1>1 DEF Collect
  <2>3. \A q \in Range(b) : q \in Nat /\ q < p
    <3>1. \A i, j, k \in Nat : i <= j /\ k > j => i < k
      OBVIOUS
    <3>2. Pids \subseteq Nat /\ read[d] \in Nat
      BY <1>1
    <3> QED
      BY <2>1, <2>2, <3>1, <3>2, Zenon
  <2> QED
    BY <2>1, <2>2, <2>3 DEF OpenInv
<1>3. \A k \in DOMAIN b : b[k] \in Range(b)
  BY DEF Range
<1>4. b # << >> => Leaves(d, p, b)
  BY <1>1, <1>2, <1>3 DEF Leaves, Batches
<1>5. Leaves(d, p, <<p>>)
  BY <1>1 DEF Leaves, Batches, Increasing
<1>6. ASSUME b # << >>, InCommon(p), Epoch(b[1]) = Epoch(p)
      PROVE  Leaves(d, p, Append(b, p))
  <2>1. Increasing(Append(b, p))
    BY <1>1, <1>2, AppendIncreasing
  <2>2. Append(b, p) \in Batches /\ Append(b, p)[1] = b[1] /\ b[1] \in Range(b)
    <3>1. Len(b) >= 1 /\ 1 \in DOMAIN b
      BY <1>1, <1>6, EmptySeq
    <3> QED
      BY <1>1, <1>3, <3>1, AppendProperties DEF Batches
  <2>3. \A k \in DOMAIN Append(b, p) :
          \/ k < Len(Append(b, p)) /\ Append(b, p)[k] \in Range(b)
          \/ k = Len(Append(b, p)) /\ Append(b, p)[k] = p
    BY <1>1, <1>3
  <2>4. InCommon(b[1])
    BY <1>2, <2>2
  <2> HIDE DEF b
  <2> QED
    BY <1>2, <1>6, <2>1, <2>2, <2>3, <2>4 DEF Leaves, b
<1>7. Range(<<p>>) = {p} /\ Range(Append(b, p)) = Range(b) \cup {p} /\ Range(<< >>) = {}
  BY <1>1, OneRange, EmptyRange, AppendRange
<1>8. /\ \A x : DOMAIN <<x>> = {1} /\ <<x>>[1] = x
      /\ \A x, y : DOMAIN <<x, y>> = {1, 2} /\ <<x, y>>[1] = x /\ <<x, y>>[2] = y
      /\ \A x : x \in Batches => <<x>> \in Seq(Batches)
      /\ \A x, y : x \in Batches /\ y \in Batches => <<x, y>> \in Seq(Batches)
  OBVIOUS
<1>9. \A q : Leaves(d, p, q) => q \in Batches
  BY DEF Leaves
<1>10. open' = [open EXCEPT ![d] = open'[d]] /\ UNCHANGED <<groups, kind>>
       /\ read' = [read EXCEPT ![d] = p]
  BY CollectCases DEF Collect, pulse
<1>11. ASSUME Range(open'[d]) \subseteq Range(b) \cup {p},
              Increasing(open'[d]),
              \A q \in Range(open'[d]) :
                InCommon(q) /\ ~Flushes(q) /\ Epoch(q) = Epoch(open'[d][1])
       PROVE  OpenInv'
  <2> SUFFICES ASSUME NEW e \in Drps
               PROVE  /\ Increasing(open[e])'
                      /\ \A q \in Range(open'[e]) :
                           /\ q <= read'[e] /\ e \in groups[q] /\ InCommon(q) /\ ~Flushes(q)
                           /\ Epoch(q) = Epoch(open'[e][1])
    BY <1>10 DEF OpenInv, InCommon, Flushes
  <2>1. CASE e = d
    <3>1. read'[d] = p
      BY <1>1, <1>10
    <3>2. \A q \in Range(open'[d]) : q \in Nat /\ q <= p /\ d \in groups[q]
      <4>1. \A q \in Range(b) \cup {p} : q \in Nat /\ q <= p /\ d \in groups[q]
        <5>1. p \in Nat /\ p <= p
          BY <1>1
        <5>2. \A i, j \in Nat : i < j => i <= j
          OBVIOUS
        <5>3. \A q \in Range(b) : q \in Nat /\ q < p /\ d \in groups[q]
          BY <1>1, <1>2
        <5> QED
          BY <1>2, <5>1, <5>2, <5>3
      <4> QED
        BY <1>11, <4>1
    <3> QED
      BY <1>11, <2>1, <3>1, <3>2 DEF Increasing
  <2>2. CASE e # d
    <3>1. open'[e] = open[e] /\ read'[e] = read[e]
      BY <1>1, <1>10, <2>2
    <3> QED
      BY <3>1 DEF OpenInv, Increasing
  <2> QED
    BY <2>1, <2>2
<1> HIDE DEF b
<1>12. CASE /\ Sent(d, p) = << >> /\ open'[d] = Append(b, p)
            /\ InCommon(p) /\ ~Flushes(p)
            /\ b # << >> => Epoch(b[1]) = Epoch(p)
  <2>1. Increasing(Append(b, p))
    BY <1>1, <1>2, AppendIncreasing
  <2>2. Append(b, p)[1] = IF b = << >> THEN p ELSE b[1]
    BY <1>1
  <2>3. b = << >> => Range(b) = {}
    BY EmptyRange
  <2>4. OpenInv'
    BY <1>2, <1>7, <1>11, <1>12, <2>1, <2>2, <2>3
  <2> QED
    BY <1>7, <1>12, <2>4 DEF b
<1>13. CASE /\ Sent(d, p) = <<b>> /\ b # << >> /\ open'[d] = <<p>>
            /\ InCommon(p) /\ ~Flushes(p)
  <2>1. Increasing(<<p>>) /\ <<p>>[1] = p
    BY DEF Increasing
  <2>2. OpenInv'
    BY <1>7, <1>11, <1>13, <2>1
  <2> QED
    BY <1>2, <1>4, <1>7, <1>8, <1>9, <1>13, <2>2 DEF b
<1>14. open'[d] = << >> => OpenInv'
  <2>1. Increasing(<< >>)
    BY DEF Increasing
  <2> QED
    BY <1>7, <1>11, <2>1
<1>15. CASE Sent(d, p) = <<b, <<p>>>> /\ b # << >> /\ open'[d] = << >>
  BY <1>2, <1>4, <1>5, <1>7, <1>8, <1>9, <1>14, <1>15 DEF b
<1>16. CASE Sent(d, p) = <<<<p>>>> /\ b = << >> /\ open'[d] = << >>
  BY <1>2, <1>5, <1>7, <1>8, <1>9, <1>14, <1>16 DEF b
<1>17. CASE /\ Sent(d, p) = <<Append(b, p)>> /\ open'[d] = << >> /\ b # << >>
            /\ InCommon(p) /\ Epoch(b[1]) = Epoch(p)
  <2>1. Leaves(d, p, Append(b, p))
    BY <1>6, <1>17
  <2> QED
    <3>1. /\ DOMAIN Sent(d, p) = {1} /\ Sent(d, p)[1] = Append(b, p)
          /\ Sent(d, p) \in Seq(Batches)
      BY <1>8, <1>9, <1>17, <2>1
    <3>2. Range(open'[d]) = {} /\ OpenInv'
      BY <1>7, <1>14, <1>17
    <3>3. \A i, j \in DOMAIN Sent(d, p) : ~(i < j)
      BY <3>1
    <3>4. \A q \in Range(open[d]) \cup {p} : q \in Range(Sent(d, p)[1])
      BY <1>7, <3>1 DEF b
    <3> QED
      BY <2>1, <3>1, <3>2, <3>3, <3>4
<1> QED
  BY <1>12, <1>13, <1>15, <1>16, <1>17, CollectCases DEF b

\* What a reader finds of a batch is its beginning.
LEMMA VisiblePart ==
  ASSUME NEW d \in Drps, NEW b \in Batches
  PROVE  /\ Visible(d, b) \in Batches /\ Visible(d, b)[1] = b[1]
         /\ Range(Visible(d, b)) \subseteq Range(b)
<1> DEFINE ends == {i \in DOMAIN b : SentAlone(d, b[i])}
<1>1. b \in Seq(Pids) /\ b # << >>
  BY DEF Batches
<1>2. CASE ends = {}
  BY <1>2 DEF Visible
<1>3. CASE ends # {}
  <2>1. ends \in SUBSET Nat /\ ends \subseteq 1 .. Len(b)
    BY <1>1
  <2>2. PICK n : n = Min(ends)
    OBVIOUS
  <2>3. n \in 1 .. Len(b)
    BY <1>3, <2>1, <2>2, MinNat
  <2>4. Visible(d, b) = SubSeq(b, 1, n)
    BY <1>3, <2>2 DEF Visible
  <2>5. /\ SubSeq(b, 1, n) \in Seq(Pids) /\ Len(SubSeq(b, 1, n)) = n
        /\ \A i \in 1 .. n : SubSeq(b, 1, n)[i] = b[i]
    BY <1>1, <2>3
  <2>6. SubSeq(b, 1, n) # << >> /\ SubSeq(b, 1, n)[1] = b[1]
    BY <2>3, <2>5
  <2>7. ASSUME NEW x \in Range(SubSeq(b, 1, n))
        PROVE  x \in Range(b)
    <3>1. PICK i \in DOMAIN SubSeq(b, 1, n) : x = SubSeq(b, 1, n)[i]
      BY DEF Range
    <3>2. i \in 1 .. n /\ i \in DOMAIN b
      BY <1>1, <2>3, <2>5
    <3>3. x = b[i]
      BY <2>5, <3>1, <3>2
    <3> QED
      BY <3>2, <3>3 DEF Range
  <2> QED
    BY <2>4, <2>5, <2>6, <2>7 DEF Batches
<1> QED
  BY <1>2, <1>3

\* It is all of it, if only what ends a batch is sent alone.
LEMMA VisibleWhole ==
  ASSUME Whole, TypeInv, OpenInv, NEW d \in Drps, NEW p \in Pids,
         NEW b \in Batches, Leaves(d, p, b)
  PROVE  Visible(d, b) = b
<1> DEFINE ends == {i \in DOMAIN b : SentAlone(d, b[i])}
<1>1. b \in Seq(Pids) /\ b # << >> /\ Len(b) \in Nat \ {0}
  BY EmptySeq DEF Batches
<1>2. \A i \in ends : i = Len(b)
  <2> SUFFICES ASSUME NEW i \in DOMAIN b, SentAlone(d, b[i]), i # Len(b)
               PROVE  FALSE
    OBVIOUS
  <2>1. i \in 1 .. Len(b) /\ i < Len(b) /\ b[i] \in Pids
    BY <1>1
  <2>2. ~Flushes(b[i])
    BY <2>1 DEF Leaves, OpenInv
  <2>3. kind[b[i]] \in Kinds /\ kind[b[i]] \in {"l1accept", "slowupdate", "transition"}
    BY <2>1, ResultsAssumption DEF TypeInv
  <2> QED
    BY <2>2, <2>3 DEF SentAlone, Flushes, Whole
<1>3. CASE ends = {}
  BY <1>3 DEF Visible
<1>4. CASE ends # {}
  <2>1. ends = {Len(b)}
    BY <1>2, <1>4
  <2>2. PICK n : n = Min(ends)
    OBVIOUS
  <2>3. n = Len(b)
    BY <1>1, <2>1, <2>2, MinNat
  <2>4. Visible(d, b) = SubSeq(b, 1, n)
    BY <1>4, <2>2 DEF Visible
  <2> QED
    BY <1>1, <2>3, <2>4, SubSeqFull
<1> QED
  BY <1>3, <1>4

\* The contributions that arrive when d collects p.
LEMMA CollectGot ==
  ASSUME TypeInv, KindInv, OpenInv, NEW d \in Drps, NEW p \in Pids, Collect(d, p)
  PROVE  /\ got' \in [Tebs -> SUBSET (Drps \X Pids)]
         /\ \A t \in Tebs : got[t] \subseteq got'[t]
         /\ \A t \in Tebs, c \in Drps, q \in Pids : <<c, q>> \in got'[t] =>
              \/ <<c, q>> \in got[t]
              \/ /\ c = d /\ c \in Contractors \cap groups[q] /\ InCommon(q)
                 /\ q \in Range(open[d]) \cup {p}
                 /\ Dst(q) = t => q \notin Range(open'[d])
         /\ Whole /\ d \in Contractors =>
              \A q \in Range(open[d]) \cup {p} :
                q \notin Range(open'[d]) /\ InCommon(q) => <<d, q>> \in got'[Dst(q)]
<1> DEFINE bs == Sent(d, p)
           New(t) == {c \in {d} \X Pids :
               /\ d \in Contractors
               /\ \E i \in DOMAIN bs : /\ InCommon(Visible(d, bs[i])[1])
                                       /\ Dst(Visible(d, bs[i])[1]) = t
                                       /\ c[2] \in Range(Visible(d, bs[i]))}
           Alone(t) == {c \in {d} \X {p} : SentAlone(d, p) /\ Dst(p) # t}
<1>1. got' = [t \in Tebs |-> got[t] \cup New(t) \cup Alone(t)]
  BY DEF Collect, Post, Sent
<1>2. /\ bs \in Seq(Batches)
      /\ \A i \in DOMAIN bs : Leaves(d, p, bs[i])
      /\ \A i \in DOMAIN bs : \A q \in Range(bs[i]), r \in Range(open'[d]) : q < r
      /\ \A q \in Range(open[d]) \cup {p} :
           q \in Range(open'[d]) \/ \E i \in DOMAIN bs : q \in Range(bs[i])
  BY CollectBatches
<1>3. \A i \in DOMAIN bs : bs[i] \in Batches
  BY <1>2
<1>4. \A i \in DOMAIN bs : \A q \in Range(bs[i]) :
        /\ q \in Range(open[d]) \cup {p} /\ (InCommon(q) <=> InCommon(bs[i][1]))
        /\ Dst(q) = Dst(bs[i][1])
  BY <1>2 DEF Leaves, Range, Dst
<1>5. /\ d \in groups[p] /\ \A q \in Range(open[d]) : q \in Pids /\ d \in groups[q]
      /\ \A q \in Pids : q \in Nat
  <2>1. open[d] \in Seq(Pids) /\ Pids \subseteq Nat
    BY ResultsAssumption DEF TypeInv, Pids
  <2> QED
    BY <2>1, RangeOfSeq DEF Collect, OpenInv
<1> HIDE DEF bs
<1>6. \A t \in Tebs, c \in Drps, q \in Pids : <<c, q>> \in New(t) =>
        /\ c = d /\ c \in Contractors \cap groups[q] /\ InCommon(q)
        /\ q \in Range(open[d]) \cup {p} /\ q \notin Range(open'[d])
  <2> SUFFICES ASSUME NEW t \in Tebs, NEW c \in Drps, NEW q \in Pids, <<c, q>> \in New(t)
               PROVE  /\ c = d /\ c \in Contractors \cap groups[q] /\ InCommon(q)
                      /\ q \in Range(open[d]) \cup {p} /\ q \notin Range(open'[d])
    OBVIOUS
  <2>1. c = d /\ d \in Contractors
    OBVIOUS
  <2>2. PICK i \in DOMAIN bs : InCommon(Visible(d, bs[i])[1]) /\ q \in Range(Visible(d, bs[i]))
    OBVIOUS
  <2>3. InCommon(bs[i][1]) /\ q \in Range(bs[i])
    BY <1>3, <2>2, VisiblePart
  <2>4. ~(q < q)
    BY <1>5
  <2> QED
    BY <1>2, <1>4, <1>5, <2>1, <2>3, <2>4
<1>7. \A t \in Tebs, c \in Drps, q \in Pids : <<c, q>> \in Alone(t) =>
        /\ c = d /\ c \in Contractors \cap groups[q] /\ InCommon(q)
        /\ q \in Range(open[d]) \cup {p} /\ Dst(q) # t
  BY <1>5, ResultsAssumption DEF SentAlone, KindInv, InCommon
<1>8. ASSUME Whole, d \in Contractors, NEW q \in Range(open[d]) \cup {p},
             q \notin Range(open'[d]), InCommon(q)
      PROVE  <<d, q>> \in got'[Dst(q)]
  <2>1. PICK i \in DOMAIN bs : q \in Range(bs[i])
    BY <1>2, <1>8
  <2>2. Visible(d, bs[i]) = bs[i]
    BY <1>2, <1>3, <1>8, VisibleWhole
  <2>3. q \in Pids /\ Dst(q) \in Tebs
    BY <1>5, DstTeb
  <2>4. <<d, q>> \in New(Dst(q))
    BY <1>4, <1>8, <2>1, <2>2, <2>3
  <2> HIDE DEF New, Alone
  <2> QED
    BY <1>1, <2>3, <2>4
<1>9. \A t \in Tebs : New(t) \subseteq Drps \X Pids /\ Alone(t) \subseteq Drps \X Pids
  OBVIOUS
<1>10. got \in [Tebs -> SUBSET (Drps \X Pids)]
  BY DEF TypeInv
<1> HIDE DEF New, Alone
<1> QED
  BY <1>1, <1>6, <1>7, <1>8, <1>9, <1>10

-----------------------------------------------------------------------------
(***************************************************************************)
(* What a TEB sends                                                        *)
(***************************************************************************)

\* TEB t sends the batches ys[d] to each d and keeps batch r; new are the pulses
\* that it has made a result for.  A pulse is in one of these places only, and
\* nothing that d is to get is lost.
Sends(t, new, ys, r) ==
  /\ wire' = [wire EXCEPT ![t] = [d \in Drps |-> wire[t][d] \o ys[d]]]
  /\ result' = [result EXCEPT ![t] = r]
  /\ dsts' = [dsts EXCEPT ![t] = dsts'[t]] /\ dsts'[t] \subseteq Drps
  /\ Range(r) \subseteq Range(result[t]) \cup new
  /\ \A d \in Drps : \A i \in DOMAIN ys[d] : \A q \in Range(ys[d][i]) :
       /\ q \in Range(result[t]) \cup new /\ q \notin Range(r)
       /\ \A j \in DOMAIN ys[d] : q \in Range(ys[d][j]) => j = i
  /\ \A d \in Drps : \A q \in Range(result[t]) \cup new :
       (q \in new /\ d \in groups[q]) \/ (q \notin new /\ d \in dsts[t]) =>
         \/ \E i \in DOMAIN ys[d] : q \in Range(ys[d][i])
         \/ q \in Range(r) /\ d \in dsts'[t]

\* A batch that is posted as it is.
LEMMA PostSends ==
  ASSUME TypeInv, NEW t \in Tebs, result[t] # << >>, Send(t, <<result[t]>>, dsts[t]),
         result' = [result EXCEPT ![t] = << >>], dsts' = [dsts EXCEPT ![t] = {}]
  PROVE  \E ys \in [Drps -> Seq(Batches)], r \in Seq(Pids) : Sends(t, {}, ys, r)
<1> DEFINE ys == [d \in Drps |-> IF d \in dsts[t] THEN <<result[t]>> ELSE << >>]
<1>1. result[t] \in Batches /\ dsts \in [Tebs -> SUBSET Drps] /\ result \in [Tebs -> Seq(Pids)]
  BY DEF TypeInv, Batches
<1>2. <<result[t]>> \in Seq(Batches) /\ << >> \in Seq(Batches) /\ << >> \in Seq(Pids)
  BY <1>1
<1>3. ys \in [Drps -> Seq(Batches)]
  BY <1>2
<1>4. wire' = [wire EXCEPT ![t] = [d \in Drps |-> wire[t][d] \o ys[d]]]
  BY DEF Send, TypeInv
<1>5. \A d \in Drps : /\ DOMAIN ys[d] \subseteq {1}
                      /\ \A i \in DOMAIN ys[d] : ys[d][i] = result[t]
                      /\ d \in dsts[t] => DOMAIN ys[d] = {1}
  OBVIOUS
<1> HIDE DEF ys
<1>6. Sends(t, {}, ys, << >>)
  BY <1>1, <1>4, <1>5, EmptyRange DEF Sends
<1> QED
  BY <1>2, <1>3, <1>6

\* A result that is added to the batch in progress.
LEMMA RespondSends ==
  ASSUME TypeInv, NEW t \in Tebs, NEW p \in Pids, Respond(t, p),
         p \notin Range(result[t])
  PROVE  \E ys \in [Drps -> Seq(Batches)], r \in Seq(Pids) : Sends(t, {p}, ys, r)
<1> DEFINE cur == result[t]
           n == TebStart + count[t]
           closes == Closes(cur, p, n)
           bs == Posted(cur, p, n)
           to == Receivers(t, p, closes)
           X(d) == IF closes /\ d \in dsts[t] THEN <<bs[1]>> ELSE << >>
           Y(d) == IF Flushes(p) /\ d \in to THEN <<bs[Len(bs)]>> ELSE << >>
           ys == [d \in Drps |-> X(d) \o Y(d)]
           r == Kept(cur, p, n)
<1>1. /\ cur \in Seq(Pids) /\ result \in [Tebs -> Seq(Pids)] /\ dsts \in [Tebs -> SUBSET Drps]
      /\ wire \in [Tebs -> [Drps -> Seq(Batches)]] /\ groups \in [Pids -> SUBSET Drps]
  BY DEF TypeInv
<1>2. closes => cur # << >> /\ cur \in Batches
  BY <1>1 DEF Closes, Batches
<1>3. <<p>> \in Batches /\ Append(cur, p) \in Batches /\ <<p>> \in Seq(Pids)
      /\ Append(cur, p) \in Seq(Pids) /\ << >> \in Seq(Pids)
  BY <1>1 DEF Batches
<1>4. \/ closes /\ Flushes(p) /\ bs = <<cur, <<p>>>> /\ r = << >>
      \/ closes /\ ~Flushes(p) /\ bs = <<cur>> /\ r = <<p>>
      \/ ~closes /\ Flushes(p) /\ bs = <<Append(cur, p)>> /\ r = << >>
      \/ ~closes /\ ~Flushes(p) /\ bs = << >> /\ r = Append(cur, p)
  BY <1>1, BatchCases
<1>5. /\ wire' = [wire EXCEPT ![t] = [d \in Drps |-> (wire[t][d] \o X(d)) \o Y(d)]]
      /\ result' = [result EXCEPT ![t] = r]
      /\ dsts' = [dsts EXCEPT ![t] = IF Flushes(p) THEN {} ELSE to]
  BY <1>1 DEF Respond
<1>6. to = groups[p] \cup (IF closes THEN {} ELSE dsts[t]) /\ to \subseteq Drps
  BY <1>1 DEF Receivers
<1>7. Range(<<p>>) = {p} /\ Range(Append(cur, p)) = Range(cur) \cup {p} /\ Range(<< >>) = {}
  BY <1>1, OneRange, EmptyRange, AppendRange
<1>8. dsts' = [dsts EXCEPT ![t] = dsts'[t]] /\ dsts'[t] = IF Flushes(p) THEN {} ELSE to
  BY <1>1, <1>5
<1> HIDE DEF bs, r, to, closes, n
<1>9. \A d \in Drps : X(d) \in Seq(Batches) /\ Y(d) \in Seq(Batches)
  <2>1. closes => bs[1] = cur
    BY <1>4
  <2>2. Flushes(p) => bs[Len(bs)] \in Batches
    <3>1. Len(<<cur, <<p>>>>) = 2 /\ <<cur, <<p>>>>[2] = <<p>>
      OBVIOUS
    <3>2. Len(<<Append(cur, p)>>) = 1 /\ <<Append(cur, p)>>[1] = Append(cur, p)
      OBVIOUS
    <3> HIDE DEF cur
    <3> QED
      BY <1>3, <1>4, <3>1, <3>2
  <2>3. \A b \in Batches : <<b>> \in Seq(Batches)
    OBVIOUS
  <2> HIDE DEF cur
  <2> QED
    BY <1>2, <2>1, <2>2, <2>3
<1>10. ys \in [Drps -> Seq(Batches)] /\ r \in Seq(Pids)
  <2>1. \A d \in Drps : X(d) \o Y(d) \in Seq(Batches)
    BY <1>9, ConcatProperties
  <2> QED
    BY <1>3, <1>4, <2>1
<1>11. wire' = [wire EXCEPT ![t] = [d \in Drps |-> wire[t][d] \o ys[d]]]
  <2>1. \A d \in Drps : (wire[t][d] \o X(d)) \o Y(d) = wire[t][d] \o ys[d]
    <3> SUFFICES ASSUME NEW d \in Drps
                 PROVE  (wire[t][d] \o X(d)) \o Y(d) = wire[t][d] \o (X(d) \o Y(d))
      OBVIOUS
    <3>1. wire[t][d] \in Seq(Batches) /\ X(d) \in Seq(Batches) /\ Y(d) \in Seq(Batches)
      BY <1>1, <1>9
    <3> HIDE DEF X, Y
    <3>2. \A a, b, c \in Seq(Batches) : (a \o b) \o c = a \o (b \o c)
      BY ConcatAssociative
    <3> QED
      BY <3>1, <3>2, Zenon
  <2> HIDE DEF ys, X, Y
  <2> QED
    BY <1>5, <2>1
<1>12. /\ Range(r) \subseteq Range(cur) \cup {p}
       /\ \A d \in Drps : \A i \in DOMAIN ys[d] : \A q \in Range(ys[d][i]) :
            /\ q \in Range(cur) \cup {p} /\ q \notin Range(r)
            /\ \A j \in DOMAIN ys[d] : q \in Range(ys[d][j]) => j = i
       /\ \A d \in Drps : \A q \in Range(cur) \cup {p} :
            (q \in {p} /\ d \in groups[q]) \/ (q \notin {p} /\ d \in dsts[t]) =>
              \/ \E i \in DOMAIN ys[d] : q \in Range(ys[d][i])
              \/ q \in Range(r) /\ d \in dsts'[t]
  <2>0. /\ \A x, y : /\ <<x>> \o <<y>> = <<x, y>> /\ <<x>> \o << >> = <<x>>
                     /\ << >> \o <<y>> = <<y>> /\ << >> \o << >> = << >>
        /\ \A x : DOMAIN <<x>> = {1} /\ <<x>>[1] = x
        /\ \A x, y : DOMAIN <<x, y>> = {1, 2} /\ <<x, y>>[1] = x /\ <<x, y>>[2] = y
        /\ DOMAIN << >> = {}
    BY PairConcat
  <2>1. CASE closes /\ Flushes(p) /\ bs = <<cur, <<p>>>> /\ r = << >>
    <3>1. bs[1] = cur /\ bs[Len(bs)] = <<p>>
      BY <2>1
    <3>2. \A d \in Drps :
            ys[d] = IF d \in dsts[t]
                    THEN IF d \in to THEN <<cur, <<p>>>> ELSE <<cur>>
                    ELSE IF d \in to THEN <<<<p>>>> ELSE << >>
      BY <2>0, <2>1, <3>1, ZenonT(30)
    <3> HIDE DEF ys, cur
    <3> QED
      BY <1>6, <1>7, <2>0, <2>1, <3>2 DEF cur
  <2>2. CASE closes /\ ~Flushes(p) /\ bs = <<cur>> /\ r = <<p>>
    <3>1. \A d \in Drps : ys[d] = IF d \in dsts[t] THEN <<cur>> ELSE << >>
      BY <2>0, <2>2
    <3> HIDE DEF ys, cur
    <3> QED
      BY <1>6, <1>7, <1>8, <2>0, <2>2, <3>1 DEF cur
  <2>3. CASE ~closes /\ Flushes(p) /\ bs = <<Append(cur, p)>> /\ r = << >>
    <3>1. \A d \in Drps : ys[d] = IF d \in to THEN <<Append(cur, p)>> ELSE << >>
      BY <2>0, <2>3
    <3>2. PICK a : a = Append(cur, p)
      OBVIOUS
    <3>3. Range(a) = Range(cur) \cup {p} /\ Range(r) = {}
      BY <1>7, <2>3, <3>2
    <3>4. \A d \in Drps : ys[d] = IF d \in to THEN <<a>> ELSE << >>
      BY <3>1, <3>2
    <3> HIDE DEF ys, cur
    <3>5. \A d \in Drps : /\ DOMAIN ys[d] = IF d \in to THEN {1} ELSE {}
                          /\ \A i \in DOMAIN ys[d] : ys[d][i] = a
      BY <2>0, <3>4
    <3> QED
      BY <1>6, <2>3, <3>3, <3>5
  <2>4. CASE ~closes /\ ~Flushes(p) /\ bs = << >> /\ r = Append(cur, p)
    <3>1. \A d \in Drps : ys[d] = << >>
      BY <2>0, <2>4
    <3> HIDE DEF ys, cur
    <3> QED
      BY <1>6, <1>7, <1>8, <2>0, <2>4, <3>1
  <2> QED
    BY <1>4, <2>1, <2>2, <2>3, <2>4
<1>13. dsts'[t] \subseteq Drps
  BY <1>6, <1>8
<1> HIDE DEF ys
<1>14. Sends(t, {p}, ys, r)
  <2>1. result' = [result EXCEPT ![t] = r]
    BY <1>5
  <2>2. dsts' = [dsts EXCEPT ![t] = dsts'[t]]
    BY <1>8
  <2> QED
    BY <1>11, <1>12, <1>13, <2>1, <2>2, Zenon DEF Sends
<1> QED
  BY <1>10, <1>14

\* One event of the builder: it responds, posts what it has, or only takes note.
LEMMA BuildSends ==
  ASSUME TypeInv, NEW t \in Tebs, NEW p \in Pids, Build(t, p),
         Dst(p) = t => p \notin Range(result[t])
  PROVE  \/ \E ys \in [Drps -> Seq(Batches)], r \in Seq(Pids) :
              Sends(t, IF Dst(p) = t THEN {p} ELSE {}, ys, r)
         \/ Dst(p) # t /\ UNCHANGED <<wire, result, dsts>>
<1>1. CASE Dst(p) = t
  <2>1. Respond(t, p)
    BY <1>1 DEF Build
  <2> QED
    BY <1>1, <2>1, RespondSends
<1>2. CASE Dst(p) # t
  <2>1. Acknowledge(t, p)
    BY <1>2 DEF Build
  <2>2. \/ /\ result[t] # << >> /\ Send(t, <<result[t]>>, dsts[t])
           /\ result' = [result EXCEPT ![t] = << >>] /\ dsts' = [dsts EXCEPT ![t] = {}]
        \/ UNCHANGED <<wire, result, dsts>>
    BY <2>1 DEF Acknowledge
  <2> QED
    BY <1>2, <2>2, PostSends
<1> QED
  BY <1>1, <1>2

-----------------------------------------------------------------------------
(***************************************************************************)
(* The receiver                                                            *)
(***************************************************************************)

\* What the receiver goes on with.
LEMMA CurrentFacts ==
  ASSUME TypeInv, NEW d \in Drps
  PROVE  /\ Current(d) \in Seq(Pids)
         /\ Current(d) # << >> => pending[d] # << >> /\ Current(d) \in Batches
         /\ Current(d) = << >> => inputs[d] = << >> /\ pending[d] = << >>
<1>1. inputs[d] \in Seq(Pids) /\ pending[d] \in Seq(Batches)
      /\ (inputs[d] # << >> => pending[d] # << >>)
  BY DEF TypeInv
<1>2. pending[d] # << >> => Head(pending[d]) \in Batches
  BY <1>1
<1> QED
  BY <1>1, <1>2 DEF Current, Batches

\* How the inputs is are matched with the results rs.
LEMMA MatchedFacts ==
  ASSUME NEW is \in Batches, NEW rs \in Batches
  PROVE  /\ Matched(is, rs) \in 0 .. Len(is)
         /\ \A i \in 1 .. Matched(is, rs) : is[i] \in Range(rs)
         /\ Matched(is, rs) < Len(is) => is[Matched(is, rs) + 1] \notin Range(rs)
<1> DEFINE un == {i \in DOMAIN is : is[i] \notin Range(rs)}
<1>1. is \in Seq(Pids) /\ Len(is) \in Nat \ {0} /\ DOMAIN is = 1 .. Len(is)
  BY EmptySeq DEF Batches
<1>2. CASE un = {}
  BY <1>1, <1>2 DEF Matched
<1>3. CASE un # {}
  <2>1. un \in SUBSET Nat
    BY <1>1
  <2>2. PICK m : m = Min(un)
    OBVIOUS
  <2>3. m \in un /\ \A y \in un : m <= y
    BY <1>3, <2>1, <2>2, MinNat
  <2>4. Matched(is, rs) = m - 1
    BY <1>3, <2>2 DEF Matched
  <2>5. m \in 1 .. Len(is) /\ is[m] \notin Range(rs)
    BY <1>1, <2>3
  <2>6. \A i \in 1 .. m - 1 : is[i] \in Range(rs)
    BY <1>1, <2>3, <2>5
  <2> QED
    BY <1>1, <2>4, <2>5, <2>6
<1> QED
  BY <1>2, <1>3

\* What remains of the results: all that is newer than the input it ended with.
LEMMA RestFacts ==
  ASSUME NEW is \in Batches, NEW rs \in Batches
  PROVE  /\ Rest(is, rs) \in Seq(Pids) /\ Range(Rest(is, rs)) \subseteq Range(rs)
         /\ \A q \in Range(rs) : q \notin Range(Rest(is, rs)) =>
              q <= IF Matched(is, rs) = Len(is) THEN is[Len(is)] ELSE is[Matched(is, rs) + 1]
<1> DEFINE bound == IF Matched(is, rs) = Len(is) THEN is[Len(is)] ELSE is[Matched(is, rs) + 1]
           newer == {i \in DOMAIN rs : rs[i] > bound}
<1>1. /\ is \in Seq(Pids) /\ Len(is) \in Nat \ {0} /\ DOMAIN is = 1 .. Len(is)
      /\ rs \in Seq(Pids) /\ Len(rs) \in Nat \ {0} /\ DOMAIN rs = 1 .. Len(rs)
      /\ Pids \subseteq Nat
  BY EmptySeq, ResultsAssumption DEF Batches, Pids
<1>2. bound \in Nat
  <2>1. Matched(is, rs) \in 0 .. Len(is)
    BY MatchedFacts
  <2>2. \A i \in 1 .. Len(is) : is[i] \in Pids
    BY <1>1, ElementOfSeq
  <2>3. \A i \in 1 .. Len(is) : is[i] \in Nat
    BY <1>1, <2>2
  <2>4. Len(is) \in 1 .. Len(is)
        /\ (Matched(is, rs) # Len(is) => Matched(is, rs) + 1 \in 1 .. Len(is))
    BY <1>1, <2>1
  <2> QED
    BY <2>3, <2>4
<1>3. \A i \in DOMAIN rs : rs[i] \in Nat
  <2>1. \A i \in DOMAIN rs : rs[i] \in Pids
    BY <1>1, ElementOfSeq
  <2> QED
    BY <1>1, <2>1
<1>4. Rest(is, rs) = IF newer = {} THEN << >> ELSE SubSeq(rs, Min(newer), Len(rs))
  BY DEF Rest
<1> HIDE DEF bound
<1>5. CASE newer = {}
  <2>1. Rest(is, rs) = << >>
    BY <1>4, <1>5
  <2>2. \A q \in Range(rs) : q <= bound
    <3> SUFFICES ASSUME NEW i \in DOMAIN rs PROVE rs[i] <= bound
      BY DEF Range
    <3>1. ~(rs[i] > bound)
      BY <1>5
    <3> QED
      BY <1>2, <1>3, <3>1
  <2> QED
    BY <2>1, <2>2, EmptyRange DEF bound
<1>6. CASE newer # {}
  <2>1. newer \in SUBSET Nat
    BY <1>1
  <2>2. PICK m : m = Min(newer)
    OBVIOUS
  <2>3. m \in newer /\ \A y \in newer : m <= y
    BY <1>6, <2>1, <2>2, MinNat
  <2>4. m \in 1 .. Len(rs)
    BY <1>1, <2>3
  <2>5. Rest(is, rs) = SubSeq(rs, m, Len(rs))
    BY <1>4, <1>6, <2>2
  <2> HIDE DEF newer
  <2>6. /\ SubSeq(rs, m, Len(rs)) \in Seq(Pids)
        /\ Len(SubSeq(rs, m, Len(rs))) = Len(rs) - m + 1
        /\ \A i \in 1 .. Len(rs) - m + 1 : SubSeq(rs, m, Len(rs))[i] = rs[m + i - 1]
    BY <1>1, <2>4
  <2>7. Range(SubSeq(rs, m, Len(rs))) \subseteq Range(rs)
    <3> SUFFICES ASSUME NEW i \in DOMAIN SubSeq(rs, m, Len(rs))
                 PROVE  SubSeq(rs, m, Len(rs))[i] \in Range(rs)
      BY DEF Range
    <3>1. i \in 1 .. Len(rs) - m + 1 /\ m + i - 1 \in DOMAIN rs
      BY <1>1, <2>4, <2>6
    <3> QED
      BY <2>6, <3>1 DEF Range
  <2>8. ASSUME NEW q \in Range(rs), q \notin Range(Rest(is, rs))
        PROVE  q <= bound
    <3>1. PICK i \in DOMAIN rs : q = rs[i]
      BY DEF Range
    <3>2. CASE i \in newer
      <4>1. m <= i /\ i \in 1 .. Len(rs)
        BY <1>1, <2>3, <3>2
      <4>2. i - m + 1 \in 1 .. Len(rs) - m + 1 /\ m + (i - m + 1) - 1 = i
        BY <1>1, <2>4, <4>1
      <4>3. SubSeq(rs, m, Len(rs))[i - m + 1] = rs[i]
        BY <2>6, <4>2
      <4>4. i - m + 1 \in DOMAIN SubSeq(rs, m, Len(rs))
        BY <1>1, <2>4, <2>6, <4>2
      <4> QED
        BY <2>5, <2>8, <3>1, <4>3, <4>4 DEF Range
    <3>3. CASE i \notin newer
      <4>1. ~(rs[i] > bound)
        BY <3>3 DEF newer
      <4> QED
        BY <1>2, <1>3, <3>1, <4>1
    <3> QED
      BY <3>2, <3>3
  <2> QED
    BY <2>5, <2>6, <2>7, <2>8 DEF bound
<1> QED
  BY <1>5, <1>6

-----------------------------------------------------------------------------
(***************************************************************************)
(* Every step keeps PlaceInv                                               *)
(***************************************************************************)

USE DEF PlaceInv

\* An event that a TEB has yet to build has no result.
LEMMA PendingNotBuilt ==
  ASSUME PlaceInv, NEW t \in Tebs, NEW p \in Pids, p \in Pending(t), Dst(p) = t
  PROVE  ~Built(p) /\ p \notin Range(result[t])
<1>1. got[t] \subseteq Drps \X Pids
  BY DEF TypeInv
<1>2. PICK c \in Drps : <<c, p>> \in got[t]
  BY <1>1 DEF Pending
<1>3. c \in Contractors \cap groups[p]
  BY <1>2 DEF GotInv
<1>4. ~Built(p)
  BY <1>2, <1>3 DEF Built
<1> QED
  BY <1>4 DEF ResultInv

\* What is built stays so.
LEMMA BuiltKept ==
  ASSUME TypeInv, NEW q \in Pids, Built(q), UNCHANGED <<groups, read, open>>,
         \A t \in Tebs : got'[t] \subseteq got[t]
  PROVE  Built(q)'
<1>1. Dst(q) \in Tebs
  BY DstTeb
<1> QED
  BY <1>1 DEF Built, Past, InCommon, Dst, Epoch

\* An event is built when its last contribution is there.
LEMMA BuildBuilds ==
  ASSUME PlaceInv, NEW t \in Tebs, NEW p \in Pids, Build(t, p)
  PROVE  /\ got' = [got EXCEPT ![t] = @ \ (Drps \X {p})]
         /\ \A u \in Tebs : got'[u] \subseteq got[u]
         /\ UNCHANGED <<kind, groups, read, open, pending, inputs, deferred, matching,
                        delivered>>
         /\ \A q \in Pids : Built(q) => Built(q)'
         /\ Dst(p) = t => ~Built(p) /\ Built(p)' /\ p \notin Range(result[t])
<1>1. /\ got' = [got EXCEPT ![t] = @ \ (Drps \X {p})] /\ p \in Pending(t)
      /\ UNCHANGED <<kind, groups, read, open, pending, inputs, deferred, matching,
                     delivered>>
  BY DEF Build, pulse
<1>2. \A u \in Tebs : got'[u] \subseteq got[u]
  BY <1>1 DEF TypeInv
<1>3. \A q \in Pids : Built(q) => Built(q)'
  BY <1>1, <1>2, BuiltKept
<1>4. ASSUME Dst(p) = t
      PROVE  ~Built(p) /\ Built(p)' /\ p \notin Range(result[t])
  <2>1. ~Built(p) /\ p \notin Range(result[t])
    BY <1>1, <1>4, PendingNotBuilt
  <2>2. PICK c0 \in Drps : <<c0, p>> \in got[t]
    <3>1. got[t] \subseteq Drps \X Pids
      BY DEF TypeInv
    <3> QED
      BY <1>1, <3>1 DEF Pending
  <2>3. InCommon(p)
    BY <2>2 DEF GotInv
  <2>4. \A c \in Contractors \cap groups[p] : Past(c, p) /\ <<c, p>> \notin got'[t]
    <3> SUFFICES ASSUME NEW c \in Contractors \cap groups[p]
                 PROVE  Past(c, p) /\ <<c, p>> \notin got'[t]
      OBVIOUS
    <3>1. c \in Drps
      BY ResultsAssumption
    <3>2. <<c, p>> \in got[t]
      BY DEF Build
    <3>3. got'[t] = got[t] \ (Drps \X {p})
      BY <1>1 DEF TypeInv
    <3> QED
      BY <1>4, <3>1, <3>2, <3>3 DEF GotInv
  <2>5. Built(p)'
    BY <1>1, <1>4, <2>3, <2>4 DEF Built, InCommon, Past, Dst, Epoch
  <2> QED
    BY <2>1, <2>5
<1> QED
  BY <1>1, <1>2, <1>3, <1>4

\* The types of what a TEB changes.
LEMMA SendsType ==
  ASSUME TypeInv, NEW t \in Tebs, NEW new, NEW ys \in [Drps -> Seq(Batches)],
         NEW r \in Seq(Pids), Sends(t, new, ys, r)
  PROVE  /\ result' \in [Tebs -> Seq(Pids)] /\ dsts' \in [Tebs -> SUBSET Drps]
         /\ wire' \in [Tebs -> [Drps -> Seq(Batches)]]
<1>1. /\ wire \in [Tebs -> [Drps -> Seq(Batches)]] /\ result \in [Tebs -> Seq(Pids)]
      /\ dsts \in [Tebs -> SUBSET Drps]
  BY DEF TypeInv
<1>2. \A d \in Drps : wire[t][d] \o ys[d] \in Seq(Batches)
  BY <1>1, ConcatProperties
<1>3. [d \in Drps |-> wire[t][d] \o ys[d]] \in [Drps -> Seq(Batches)]
  BY <1>2
<1>4. wire' \in [Tebs -> [Drps -> Seq(Batches)]]
  BY <1>1, <1>3 DEF Sends
<1>5. result' \in [Tebs -> Seq(Pids)]
  BY <1>1 DEF Sends
<1>6. dsts' \in [Tebs -> SUBSET Drps]
  BY <1>1 DEF Sends
<1> QED
  BY <1>4, <1>5, <1>6

\* A collected input leaves the types.
LEMMA CollectType ==
  ASSUME TypeInv, KindInv, OpenInv, NEW d \in Drps, NEW p \in Pids, Collect(d, p)
  PROVE  /\ open' \in [Drps -> Seq(Pids)] /\ pending' \in [Drps -> Seq(Batches)]
         /\ pending' = [pending EXCEPT ![d] =
                          @ \o [i \in DOMAIN Sent(d, p) |-> Visible(d, Sent(d, p)[i])]]
         /\ pending[d] # << >> => pending'[d] # << >>
<1> DEFINE bs == Sent(d, p)
           vs == [i \in DOMAIN bs |-> Visible(d, bs[i])]
<1>1. pending' = [pending EXCEPT ![d] = @ \o vs]
  BY DEF Collect, Sent
<1>2. bs \in Seq(Batches)
  BY CollectBatches
<1>3. vs \in Seq(Batches)
  <2>1. \A i \in DOMAIN bs : Visible(d, bs[i]) \in Batches
    <3> SUFFICES ASSUME NEW i \in DOMAIN bs PROVE Visible(d, bs[i]) \in Batches
      OBVIOUS
    <3>1. bs[i] \in Batches
      BY <1>2
    <3> QED
      BY <3>1, VisiblePart
  <2>2. DOMAIN bs = 1 .. Len(bs) /\ Len(bs) \in Nat
    BY <1>2
  <2> HIDE DEF bs
  <2> QED
    BY <2>1, <2>2
<1>4. pending \in [Drps -> Seq(Batches)]
  BY DEF TypeInv
<1> HIDE DEF vs
<1>5. pending[d] \o vs \in Seq(Batches) /\ Len(pending[d] \o vs) = Len(pending[d]) + Len(vs)
  BY <1>3, <1>4, ConcatProperties
<1>6. pending[d] # << >> => pending[d] \o vs # << >>
  BY <1>3, <1>4, ConcatSimplifications
<1>7. open' \in [Drps -> Seq(Pids)]
  <2>1. open'[d] \in Seq(Pids)
    <3>1. open[d] \in Seq(Pids)
      BY DEF TypeInv
    <3>2. open[d] \in Seq(Pids) /\ Append(open[d], p) \in Seq(Pids) /\ <<p>> \in Seq(Pids)
          /\ << >> \in Seq(Pids)
      BY <3>1
    <3> QED
      BY <3>2, CollectCases
  <2>2. open' = [open EXCEPT ![d] = open'[d]] /\ open \in [Drps -> Seq(Pids)]
    BY CollectCases DEF TypeInv
  <2> QED
    BY <2>1, <2>2
<1> QED
  BY <1>1, <1>4, <1>5, <1>6, <1>7 DEF vs

\* Types and what DRPs and TEBs know of a pulse.
LEMMA TypeStep ==
  ASSUME PlaceInv, Next
  PROVE  TypeInv'
<1>0. /\ kind \in [Pids -> Kinds] /\ groups \in [Pids -> SUBSET Drps]
      /\ read \in [Drps -> 0 .. MaxPid]
      /\ open \in [Drps -> Seq(Pids)] /\ inputs \in [Drps -> Seq(Pids)]
      /\ pending \in [Drps -> Seq(Batches)] /\ deferred \in [Drps -> SUBSET Batches]
      /\ \A d \in Drps : inputs[d] # << >> => pending[d] # << >>
      /\ delivered \in [Drps -> Seq(Pids)]
      /\ got \in [Tebs -> SUBSET (Drps \X Pids)]
      /\ result \in [Tebs -> Seq(Pids)] /\ dsts \in [Tebs -> SUBSET Drps]
      /\ wire \in [Tebs -> [Drps -> Seq(Batches)]]
  BY DEF TypeInv
<1>1. ASSUME NEW d \in Drps, NEW p \in Pids, Collect(d, p)
      PROVE  TypeInv'
  <2>1. UNCHANGED <<kind, groups, inputs, deferred, delivered, result, dsts, wire>>
        /\ read' = [read EXCEPT ![d] = p]
    BY <1>1 DEF Collect, pulse
  <2>2. p \in 0 .. MaxPid
    BY DEF Pids
  <2>3. read' \in [Drps -> 0 .. MaxPid]
    BY <1>0, <2>1, <2>2
  <2>4. /\ open' \in [Drps -> Seq(Pids)] /\ pending' \in [Drps -> Seq(Batches)]
        /\ got' \in [Tebs -> SUBSET (Drps \X Pids)]
    BY <1>1, CollectType, CollectGot
  <2>5. \A e \in Drps : inputs[e] # << >> => pending'[e] # << >>
    <3> SUFFICES ASSUME NEW e \in Drps, inputs[e] # << >> PROVE pending'[e] # << >>
      OBVIOUS
    <3>1. pending[e] # << >>
      BY <1>0
    <3>2. CASE e = d
      BY <1>1, <3>1, <3>2, CollectType
    <3>3. CASE e # d
      BY <1>0, <1>1, <3>1, <3>3, CollectType
    <3> QED
      BY <3>2, <3>3
  <2> QED
    BY <1>0, <2>1, <2>3, <2>4, <2>5 DEF TypeInv
<1>2. ASSUME NEW t \in Tebs, NEW p \in Pids, Build(t, p)
      PROVE  TypeInv'
  <2>1. UNCHANGED <<kind, groups, read, open, pending, inputs, deferred, delivered>>
        /\ got' = [got EXCEPT ![t] = @ \ (Drps \X {p})]
        /\ (Dst(p) = t => p \notin Range(result[t]))
    BY <1>2, BuildBuilds
  <2>2. got' \in [Tebs -> SUBSET (Drps \X Pids)]
    BY <1>0, <2>1
  <2>3. /\ result' \in [Tebs -> Seq(Pids)] /\ dsts' \in [Tebs -> SUBSET Drps]
        /\ wire' \in [Tebs -> [Drps -> Seq(Batches)]]
    BY <1>0, <1>2, <2>1, BuildSends, SendsType
  <2> QED
    BY <1>0, <2>1, <2>2, <2>3 DEF TypeInv
<1>3. ASSUME NEW t \in Tebs, Flush(t)
      PROVE  TypeInv'
  <2>1. /\ UNCHANGED <<kind, groups, read, open, pending, inputs, deferred, delivered, got>>
        /\ result[t] # << >> /\ Send(t, <<result[t]>>, dsts[t])
        /\ result' = [result EXCEPT ![t] = << >>] /\ dsts' = [dsts EXCEPT ![t] = {}]
    BY <1>3 DEF Flush, pulse, drp
  <2>2. /\ result' \in [Tebs -> Seq(Pids)] /\ dsts' \in [Tebs -> SUBSET Drps]
        /\ wire' \in [Tebs -> [Drps -> Seq(Batches)]]
    BY <2>1, PostSends, SendsType
  <2> QED
    BY <1>0, <2>1, <2>2 DEF TypeInv
<1>4. ASSUME NEW d \in Drps, NEW t \in Tebs, Receive(d, t)
      PROVE  TypeInv'
  <2>1. /\ UNCHANGED <<kind, groups, read, open, pending, inputs, delivered, got, result, dsts>>
        /\ wire[t][d] # << >>
        /\ deferred' = [deferred EXCEPT ![d] = @ \cup {Head(wire[t][d])}]
        /\ wire' = [wire EXCEPT ![t][d] = Tail(@)]
    BY <1>4 DEF Receive, pulse
  <2>2. Head(wire[t][d]) \in Batches /\ Tail(wire[t][d]) \in Seq(Batches)
    BY <1>0, <2>1
  <2>3. deferred' \in [Drps -> SUBSET Batches]
    BY <1>0, <2>1, <2>2
  <2>4. wire' \in [Tebs -> [Drps -> Seq(Batches)]]
    BY <1>0, <2>1, <2>2
  <2> QED
    BY <1>0, <2>1, <2>3, <2>4 DEF TypeInv
<1>5. ASSUME NEW d \in Drps, Timeout(d)
      PROVE  TypeInv'
  BY <1>0, <1>5 DEF Timeout, pulse, teb, TypeInv
<1>6. ASSUME NEW d \in Drps, Bypass(d)
      PROVE  TypeInv'
  <2>1. /\ UNCHANGED <<kind, groups, read, open, deferred, got, result, dsts, wire>>
        /\ Current(d) # << >>
        /\ delivered' = [delivered EXCEPT ![d] = Append(@, Current(d)[1])]
        /\ pending' = [pending EXCEPT ![d] = Tail(@)]
        /\ inputs' = [inputs EXCEPT ![d] = << >>]
    BY <1>6 DEF Bypass, pulse, teb
  <2>2. Current(d) \in Seq(Pids) /\ pending[d] # << >>
    BY <2>1, CurrentFacts
  <2>3. Current(d)[1] \in Pids
    BY <2>1, <2>2
  <2>4. Tail(pending[d]) \in Seq(Batches)
    BY <1>0, <2>2
  <2>5. Append(delivered[d], Current(d)[1]) \in Seq(Pids) /\ << >> \in Seq(Pids)
    BY <1>0, <2>3
  <2>6. /\ delivered' \in [Drps -> Seq(Pids)] /\ pending' \in [Drps -> Seq(Batches)]
        /\ inputs' \in [Drps -> Seq(Pids)]
    BY <1>0, <2>1, <2>4, <2>5
  <2>7. \A e \in Drps : inputs'[e] # << >> => pending'[e] # << >>
    BY <1>0, <2>1
  <2> QED
    BY <1>0, <2>1, <2>6, <2>7 DEF TypeInv
<1>7. ASSUME NEW d \in Drps, Match(d)
      PROVE  TypeInv'
  <2>1. PICK rs \in deferred[d] :
          LET is == Current(d)
              n == Matched(is, rs)
              rest == Rest(is, rs)
          IN /\ delivered' = [delivered EXCEPT ![d] = @ \o SubSeq(is, 1, n)]
             /\ inputs' = [inputs EXCEPT ![d] = SubSeq(is, n + 1, Len(is))]
             /\ pending' = [pending EXCEPT ![d] = IF n = Len(is) THEN Tail(@) ELSE @]
             /\ deferred' = [deferred EXCEPT ![d] =
                  (@ \ {rs}) \cup (IF rest = << >> THEN {} ELSE {rest})]
    BY <1>7 DEF Match
  <2>2. /\ UNCHANGED <<kind, groups, read, open, got, result, dsts, wire>>
        /\ Current(d) # << >>
    BY <1>7 DEF Match, pulse, teb
  <2>3. PICK is \in Batches : is = Current(d)
    BY <2>2, CurrentFacts
  <2>4. pending[d] # << >> /\ rs \in Batches
    BY <1>0, <2>2, CurrentFacts
  <2>5. PICK n \in 0 .. Len(is) : n = Matched(is, rs)
    BY <2>4, MatchedFacts
  <2>6. PICK rest \in Seq(Pids) : rest = Rest(is, rs)
    BY <2>4, RestFacts
  <2>7. is \in Seq(Pids) /\ Len(is) \in Nat
    BY DEF Batches
  <2>8. /\ SubSeq(is, 1, n) \in Seq(Pids) /\ SubSeq(is, n + 1, Len(is)) \in Seq(Pids)
        /\ n = Len(is) => SubSeq(is, n + 1, Len(is)) = << >>
    BY <2>7
  <2>9. delivered[d] \o SubSeq(is, 1, n) \in Seq(Pids)
    BY <1>0, <2>8, ConcatProperties
  <2>10. Tail(pending[d]) \in Seq(Batches)
    BY <1>0, <2>4
  <2>11. rest # << >> => rest \in Batches
    BY DEF Batches
  <2>12. delivered' \in [Drps -> Seq(Pids)] /\ inputs' \in [Drps -> Seq(Pids)]
    BY <1>0, <2>1, <2>3, <2>5, <2>8, <2>9
  <2>13. pending' \in [Drps -> Seq(Batches)]
    BY <1>0, <2>1, <2>3, <2>5, <2>10
  <2>14. deferred' \in [Drps -> SUBSET Batches]
    BY <1>0, <2>1, <2>3, <2>6, <2>11
  <2>15. \A e \in Drps : inputs'[e] # << >> => pending'[e] # << >>
    <3> SUFFICES ASSUME NEW e \in Drps, inputs'[e] # << >> PROVE pending'[e] # << >>
      OBVIOUS
    <3>1. CASE e = d
      <4>1. inputs'[d] = SubSeq(is, n + 1, Len(is))
        BY <1>0, <2>1, <2>3, <2>5
      <4>2. n # Len(is)
        BY <2>8, <3>1, <4>1
      <4>3. pending'[d] = pending[d]
        BY <1>0, <2>1, <2>3, <2>5, <4>2
      <4> QED
        BY <2>4, <3>1, <4>3
    <3>2. CASE e # d
      BY <1>0, <2>1, <3>2
    <3> QED
      BY <3>1, <3>2
  <2> QED
    BY <1>0, <2>2, <2>12, <2>13, <2>14, <2>15 DEF TypeInv
<1>8. ASSUME NEW d \in Drps, Done(d)
      PROVE  TypeInv'
  <2>1. /\ UNCHANGED <<kind, groups, read, open, pending, deferred, delivered, got, result,
                       dsts, wire>>
        /\ inputs' = [inputs EXCEPT ![d] = Current(d)]
    BY <1>8 DEF Done, pulse, teb
  <2>2. Current(d) \in Seq(Pids) /\ (Current(d) # << >> => pending[d] # << >>)
    BY CurrentFacts
  <2>3. inputs' \in [Drps -> Seq(Pids)]
    BY <1>0, <2>1, <2>2
  <2>4. \A e \in Drps : inputs'[e] # << >> => pending'[e] # << >>
    BY <1>0, <2>1, <2>2
  <2> QED
    BY <1>0, <2>1, <2>3, <2>4 DEF TypeInv
<1> QED
  BY <1>1, <1>2, <1>3, <1>4, <1>5, <1>6, <1>7, <1>8 DEF Next

\* Members of batches are pulses.
LEMMA Pulses ==
  ASSUME TypeInv
  PROVE  /\ \A t \in Tebs : Range(result[t]) \subseteq Pids
         /\ \A t \in Tebs, d \in Drps : \A k \in DOMAIN wire[t][d] :
              Range(wire[t][d][k]) \subseteq Pids /\ wire[t][d][k] # << >>
         /\ \A d \in Drps : \A rs \in deferred[d] : Range(rs) \subseteq Pids /\ rs # << >>
         /\ \A d \in Drps : Range(open[d]) \subseteq Pids /\ Range(delivered[d]) \subseteq Pids
<1>1. \A s \in Seq(Pids) : Range(s) \subseteq Pids
  BY RangeOfSeq
<1>2. \A b \in Batches : b \in Seq(Pids) /\ b # << >>
  BY DEF Batches
<1>3. ASSUME NEW t \in Tebs, NEW d \in Drps, NEW k \in DOMAIN wire[t][d]
      PROVE  wire[t][d][k] \in Batches
  <2>1. wire[t][d] \in Seq(Batches)
    BY DEF TypeInv
  <2> QED
    BY <2>1
<1>4. \A d \in Drps : \A rs \in deferred[d] : rs \in Batches
  BY DEF TypeInv
<1>5. /\ \A t \in Tebs : result[t] \in Seq(Pids)
      /\ \A d \in Drps : open[d] \in Seq(Pids) /\ delivered[d] \in Seq(Pids)
  BY DEF TypeInv
<1> QED
  BY <1>1, <1>2, <1>3, <1>4, <1>5

\* Only Collect moves a collector; all others at most use up contributions.
LEMMA OtherSteps ==
  ASSUME PlaceInv, Next, \A d \in Drps, p \in Pids : ~Collect(d, p)
  PROVE  UNCHANGED <<kind, groups, read, open>> /\ \A t \in Tebs : got'[t] \subseteq got[t]
<1>1. ASSUME NEW t \in Tebs, NEW p \in Pids, Build(t, p)
      PROVE  UNCHANGED <<kind, groups, read, open>> /\ \A u \in Tebs : got'[u] \subseteq got[u]
  BY <1>1, BuildBuilds
<1>2. ASSUME NEW t \in Tebs, Flush(t)
      PROVE  UNCHANGED <<kind, groups, read, open, got>>
  BY <1>2 DEF Flush, pulse, drp
<1>3. ASSUME NEW d \in Drps, NEW t \in Tebs, Receive(d, t)
      PROVE  UNCHANGED <<kind, groups, read, open, got>>
  BY <1>3 DEF Receive, pulse
<1>4. ASSUME NEW d \in Drps, Timeout(d) \/ Bypass(d) \/ Match(d) \/ Done(d)
      PROVE  UNCHANGED <<kind, groups, read, open, got>>
  BY <1>4 DEF Timeout, Bypass, Match, Done, pulse, teb
<1> QED
  BY <1>1, <1>2, <1>3, <1>4 DEF Next

LEMMA KindOpenStep ==
  ASSUME PlaceInv, Next
  PROVE  KindInv' /\ OpenInv'
<1>1. CASE \E d \in Drps, p \in Pids : Collect(d, p)
  <2>1. UNCHANGED <<kind, groups>>
    BY <1>1 DEF Collect, pulse
  <2> QED
    BY <1>1, <2>1, CollectBatches DEF KindInv
<1>2. CASE \A d \in Drps, p \in Pids : ~Collect(d, p)
  <2>1. UNCHANGED <<kind, groups, read, open>>
    BY <1>2, OtherSteps
  <2> QED
    BY <2>1 DEF KindInv, OpenInv, Increasing, InCommon, Flushes, Epoch
<1> QED
  BY <1>1, <1>2

\* Where a collector is through with a pulse it stays so.
LEMMA CollectPast ==
  ASSUME TypeInv, KindInv, OpenInv, NEW d \in Drps, NEW p \in Pids, Collect(d, p),
         NEW c \in Drps, NEW q \in Pids
  PROVE  /\ Past(c, q) => Past(c, q)' /\ ~(c = d /\ q \in Range(open[d]) \cup {p})
         /\ Past(c, q)' => Past(c, q) \/ (c = d /\ (q <= p => q \notin Range(open'[d])))
<1>1. /\ read' = [read EXCEPT ![d] = p] /\ p > read[d] /\ open' = [open EXCEPT ![d] = open'[d]]
      /\ read \in [Drps -> 0 .. MaxPid] /\ open \in [Drps -> Seq(Pids)]
  BY CollectCases DEF Collect, TypeInv
<1>2. Range(open'[d]) \subseteq Range(open[d]) \cup {p}
  BY CollectBatches
<1>3. q \in Nat /\ p \in Nat /\ read[d] \in Nat /\ read[c] \in Nat
  BY <1>1, ResultsAssumption DEF Pids
<1>4. CASE c = d
  <2>1. read'[d] = p
    BY <1>1
  <2>2. q <= read[d] => q <= p /\ q # p
    BY <1>1, <1>3
  <2> QED
    BY <1>2, <1>4, <2>1, <2>2 DEF Past
<1>5. CASE c # d
  <2>1. read'[c] = read[c] /\ open'[c] = open[c]
    BY <1>1, <1>5
  <2> QED
    BY <1>5, <2>1 DEF Past
<1> QED
  BY <1>4, <1>5

\* What is built stays so when an input is collected.
LEMMA CollectBuilt ==
  ASSUME TypeInv, KindInv, OpenInv, NEW d \in Drps, NEW p \in Pids, Collect(d, p),
         NEW q \in Pids, Built(q)
  PROVE  Built(q)'
<1>1. UNCHANGED groups /\ Dst(q) \in Tebs
  BY DstTeb DEF Collect, pulse
<1>2. ASSUME NEW c \in Contractors \cap groups[q]
      PROVE  Past(c, q)' /\ <<c, q>> \notin got'[Dst(q)]
  <2>1. c \in Drps /\ Past(c, q) /\ <<c, q>> \notin got[Dst(q)]
    BY ResultsAssumption DEF Built
  <2>2. Past(c, q)' /\ ~(c = d /\ q \in Range(open[d]) \cup {p})
    BY <2>1, CollectPast
  <2> QED
    BY <1>1, <2>1, <2>2, CollectGot
<1> QED
  BY <1>1, <1>2 DEF Built, InCommon, Dst, Epoch

LEMMA GotStep ==
  ASSUME PlaceInv, Next
  PROVE  GotInv'
<1> SUFFICES ASSUME NEW t \in Tebs, NEW c \in Drps, NEW q \in Pids, <<c, q>> \in got'[t]
             PROVE  /\ c \in Contractors \cap groups'[q] /\ InCommon(q)'
                    /\ Dst(q) = t => Past(c, q)'
  BY DEF GotInv, Dst, Epoch
<1>1. ASSUME NEW d \in Drps, NEW p \in Pids, Collect(d, p)
      PROVE  /\ c \in Contractors \cap groups[q] /\ InCommon(q)
             /\ Dst(q) = t => Past(c, q)'
  <2>1. CASE <<c, q>> \in got[t]
    BY <1>1, <2>1, CollectPast DEF GotInv
  <2>2. CASE /\ c = d /\ c \in Contractors \cap groups[q] /\ InCommon(q)
             /\ q \in Range(open[d]) \cup {p}
             /\ Dst(q) = t => q \notin Range(open'[d])
    <3>1. read'[d] = p /\ p > read[d] /\ read[d] \in Nat /\ p \in Nat
      BY <1>1, ResultsAssumption DEF Collect, TypeInv, Pids
    <3>2. q \in Range(open[d]) => q <= read[d] /\ q \in Nat
      BY ResultsAssumption DEF OpenInv, Pids
    <3>3. q <= p
      BY <2>2, <3>1, <3>2
    <3> QED
      BY <2>2, <3>1, <3>3 DEF Past
  <2> QED
    BY <1>1, <2>1, <2>2, CollectGot
<1>2. CASE \E d \in Drps, p \in Pids : Collect(d, p)
  <2>1. groups' = groups
    BY <1>2 DEF Collect, pulse
  <2> QED
    BY <1>1, <1>2, <2>1 DEF InCommon
<1>3. CASE \A d \in Drps, p \in Pids : ~Collect(d, p)
  <2>1. UNCHANGED <<kind, groups, read, open>> /\ <<c, q>> \in got[t]
    BY <1>3, OtherSteps
  <2> QED
    BY <2>1 DEF GotInv, InCommon, Past
<1> QED
  BY <1>2, <1>3

\* The members of a concatenation.
LEMMA ConcatCases ==
  ASSUME NEW S, NEW s \in Seq(S), NEW z \in Seq(S)
  PROVE  /\ \A k \in DOMAIN s : k \in DOMAIN (s \o z) /\ (s \o z)[k] = s[k]
         /\ \A i \in DOMAIN z : Len(s) + i \in DOMAIN (s \o z) /\ (s \o z)[Len(s) + i] = z[i]
         /\ \A k \in DOMAIN (s \o z) :
              \/ k \in DOMAIN s
              \/ \E i \in DOMAIN z : k = Len(s) + i
<1>1. /\ Len(s) \in Nat /\ Len(z) \in Nat /\ DOMAIN s = 1 .. Len(s) /\ DOMAIN z = 1 .. Len(z)
      /\ DOMAIN (s \o z) = 1 .. Len(s) + Len(z)
  BY ConcatProperties
<1>2. \A k \in 1 .. Len(s) + Len(z) :
        (s \o z)[k] = IF k <= Len(s) THEN s[k] ELSE z[k - Len(s)]
  BY ConcatProperties
<1>3. \A m, n \in Nat : \A k \in 1 .. m + n :
        k \in 1 .. m \/ (k - m \in 1 .. n /\ k = m + (k - m))
  OBVIOUS
<1>4. \A m, n \in Nat : \A k \in 1 .. m : k \in 1 .. m + n /\ k <= m
  OBVIOUS
<1>5. \A m, n \in Nat : \A i \in 1 .. n :
        m + i \in 1 .. m + n /\ ~(m + i <= m) /\ (m + i) - m = i
  OBVIOUS
<1>6. \A k \in DOMAIN s : k \in DOMAIN (s \o z) /\ (s \o z)[k] = s[k]
  BY <1>1, <1>2, <1>4
<1>7. \A i \in DOMAIN z : Len(s) + i \in DOMAIN (s \o z) /\ (s \o z)[Len(s) + i] = z[i]
  BY <1>1, <1>2, <1>5, Zenon
<1>8. ASSUME NEW k \in DOMAIN (s \o z)
      PROVE  k \in DOMAIN s \/ \E i \in DOMAIN z : k = Len(s) + i
  <2>1. k \in 1 .. Len(s) \/ (k - Len(s) \in 1 .. Len(z) /\ k = Len(s) + (k - Len(s)))
    BY <1>1, <1>3, Zenon
  <2> QED
    BY <1>1, <2>1, Zenon
<1> QED
  BY <1>6, <1>7, <1>8

\* Posting results: each is made once and is in one place.
LEMMA SendsResult ==
  ASSUME PlaceInv, NEW t \in Tebs, NEW new \in SUBSET Pids,
         NEW ys \in [Drps -> Seq(Batches)], NEW r \in Seq(Pids), Sends(t, new, ys, r),
         UNCHANGED deferred, \A q \in Pids : Built(q) => Built(q)',
         \A q \in new : Dst(q) = t /\ ~Built(q) /\ Built(q)'
  PROVE  ResultInv'
<1>0. /\ wire \in [Tebs -> [Drps -> Seq(Batches)]] /\ result \in [Tebs -> Seq(Pids)]
      /\ wire' = [wire EXCEPT ![t] = [d \in Drps |-> wire[t][d] \o ys[d]]]
      /\ result' = [result EXCEPT ![t] = r]
  BY DEF TypeInv, Sends
<1>1. /\ result'[t] = r /\ \A u \in Tebs : u # t => result'[u] = result[u] /\ wire'[u] = wire[u]
      /\ \A d \in Drps : /\ wire'[t][d] = wire[t][d] \o ys[d]
                         /\ wire[t][d] \in Seq(Batches) /\ ys[d] \in Seq(Batches)
  BY <1>0
<1>2. /\ Range(r) \subseteq Range(result[t]) \cup new
      /\ \A d \in Drps : \A i \in DOMAIN ys[d] : \A q \in Range(ys[d][i]) :
           /\ q \in Range(result[t]) \cup new /\ q \notin Range(r)
           /\ \A j \in DOMAIN ys[d] : q \in Range(ys[d][j]) => j = i
  BY DEF Sends
<1>3. \A q \in Range(result[t]) \cup new : q \in Pids /\ Dst(q) = t /\ Built(q)'
  BY Pulses DEF ResultInv
<1>4. ASSUME NEW u \in Tebs, NEW p \in Range(result'[u])
      PROVE  Dst(p) = u /\ Built(p)'
  <2>1. CASE u = t
    BY <1>1, <1>2, <1>3, <2>1
  <2>2. CASE u # t
    BY <1>1, <2>2, Pulses DEF ResultInv
  <2> QED
    BY <2>1, <2>2
<1>5. ASSUME NEW q \in Pids, Built(q), q \notin Range(result[Dst(q)])
      PROVE  q \notin Range(result'[Dst(q)]) /\ (Dst(q) = t => q \notin Range(result[t]) \cup new)
  BY <1>1, <1>2, <1>5, DstTeb
<1>6. ASSUME NEW u \in Tebs, NEW d \in Drps, NEW k \in DOMAIN wire'[u][d],
             NEW p \in Range(wire'[u][d][k])
      PROVE  /\ Dst(p) = u /\ Built(p)' /\ p \notin Range(result'[u])
             /\ \A l \in DOMAIN wire'[u][d] : p \in Range(wire'[u][d][l]) => l = k
  <2>1. CASE u # t
    BY <1>1, <2>1, Pulses DEF ResultInv
  <2>2. CASE u = t
    <3> DEFINE w == wire[t][d]
               y == ys[d]
    <3>1. wire'[u][d] = w \o y /\ w \in Seq(Batches) /\ y \in Seq(Batches)
      BY <1>1, <2>2
    <3>2. /\ \A l \in DOMAIN w : (w \o y)[l] = w[l]
          /\ \A i \in DOMAIN y : (w \o y)[Len(w) + i] = y[i]
          /\ \A l \in DOMAIN (w \o y) : l \in DOMAIN w \/ \E i \in DOMAIN y : l = Len(w) + i
      <4> HIDE DEF w, y
      <4> QED
        BY <3>1, ConcatCases
    <3>3. \A l \in DOMAIN w : \A q \in Range(w[l]) :
            /\ q \in Pids /\ Built(q) /\ Dst(q) = t /\ q \notin Range(result[t])
            /\ \A m \in DOMAIN w : q \in Range(w[m]) => m = l
      <4>1. \A l \in DOMAIN wire[t][d] : Range(wire[t][d][l]) \subseteq Pids
        BY Pulses
      <4>2. \A l \in DOMAIN wire[t][d] : \A q \in Range(wire[t][d][l]) :
              /\ Built(q) /\ Dst(q) = t /\ q \notin Range(result[t])
              /\ \A m \in DOMAIN wire[t][d] : q \in Range(wire[t][d][m]) => m = l
        BY ZenonT(30) DEF ResultInv
      <4> QED
        BY <4>1, <4>2
    <3>4. \A i \in DOMAIN y : \A q \in Range(y[i]) :
           /\ q \in Range(result[t]) \cup new /\ q \notin Range(r)
           /\ \A j \in DOMAIN y : q \in Range(y[j]) => j = i
      BY <1>2
    <3> HIDE DEF w, y
    <3>5. CASE k \in DOMAIN w
      <4>1. p \in Range(w[k])
        BY <3>1, <3>2, <3>5
      <4>2. /\ p \in Pids /\ Built(p) /\ Dst(p) = t /\ p \notin Range(result'[t])
            /\ p \notin Range(result[t]) \cup new
        BY <1>5, <3>3, <3>5, <4>1
      <4>3. ASSUME NEW l \in DOMAIN (w \o y), p \in Range((w \o y)[l])
            PROVE  l = k
        BY <3>2, <3>3, <3>4, <3>5, <4>1, <4>2, <4>3
      <4> QED
        BY <2>2, <3>1, <4>2, <4>3
    <3>6. ASSUME NEW i \in DOMAIN y, k = Len(w) + i
          PROVE  /\ Dst(p) = u /\ Built(p)' /\ p \notin Range(result'[u])
                 /\ \A l \in DOMAIN wire'[u][d] : p \in Range(wire'[u][d][l]) => l = k
      <4>1. p \in Range(y[i])
        BY <3>1, <3>2, <3>6
      <4>2. p \in Range(result[t]) \cup new /\ p \notin Range(result'[t])
        BY <1>1, <3>4, <4>1
      <4>3. ASSUME NEW l \in DOMAIN (w \o y), p \in Range((w \o y)[l])
            PROVE  l = k
        <5>1. CASE l \in DOMAIN w
          <6>1. p \in Range(w[l])
            BY <3>2, <4>3, <5>1
          <6>2. p \in Pids /\ Built(p) /\ Dst(p) = t /\ p \notin Range(result[t])
            BY <3>3, <5>1, <6>1
          <6> QED
            BY <1>5, <4>2, <6>2
        <5>2. CASE \E j \in DOMAIN y : l = Len(w) + j
          BY <3>2, <3>4, <3>6, <4>1, <4>3, <5>2
        <5> QED
          BY <3>2, <5>1, <5>2
      <4> QED
        BY <1>3, <2>2, <3>1, <4>2, <4>3
    <3> QED
      BY <3>1, <3>2, <3>5, <3>6
  <2> QED
    BY <2>1, <2>2
<1>7. ASSUME NEW d \in Drps, NEW rs \in deferred[d], NEW p \in Range(rs)
      PROVE  /\ Built(p)' /\ p \notin Range(result'[Dst(p)])
             /\ \A k \in DOMAIN wire'[Dst(p)][d] : p \notin Range(wire'[Dst(p)][d][k])
             /\ \A qs \in deferred[d] : p \in Range(qs) => qs = rs
  <2>1. /\ p \in Pids /\ Built(p) /\ p \notin Range(result[Dst(p)])
        /\ \A k \in DOMAIN wire[Dst(p)][d] : p \notin Range(wire[Dst(p)][d][k])
        /\ \A qs \in deferred[d] : p \in Range(qs) => qs = rs
    BY Pulses DEF ResultInv
  <2>2. p \notin Range(result'[Dst(p)]) /\ (Dst(p) = t => p \notin Range(result[t]) \cup new)
    BY <1>5, <2>1
  <2>3. ASSUME NEW k \in DOMAIN wire'[Dst(p)][d]
        PROVE  p \notin Range(wire'[Dst(p)][d][k])
    <3>1. CASE Dst(p) # t
      BY <1>1, <2>1, <3>1, DstTeb
    <3>2. CASE Dst(p) = t
      <4> DEFINE w == wire[t][d]
                 y == ys[d]
      <4>1. wire'[Dst(p)][d] = w \o y /\ w \in Seq(Batches) /\ y \in Seq(Batches)
        BY <1>1, <3>2
      <4>2. /\ \A l \in DOMAIN w : (w \o y)[l] = w[l]
            /\ \A i \in DOMAIN y : (w \o y)[Len(w) + i] = y[i]
            /\ \A l \in DOMAIN (w \o y) : l \in DOMAIN w \/ \E i \in DOMAIN y : l = Len(w) + i
        <5> HIDE DEF w, y
        <5> QED
          BY <4>1, ConcatCases
      <4>3. \A i \in DOMAIN y : p \notin Range(y[i])
        BY <1>2, <2>2, <3>2
      <4>4. \A l \in DOMAIN w : p \notin Range(w[l])
        BY <2>1, <3>2
      <4> HIDE DEF w, y
      <4> QED
        BY <4>1, <4>2, <4>3, <4>4
    <3> QED
      BY <3>1, <3>2
  <2> QED
    BY <2>1, <2>2, <2>3
<1> QED
  BY <1>4, <1>6, <1>7 DEF ResultInv, Dst, Epoch

\* Results that stay where they are.
LEMMA ResultKept ==
  ASSUME PlaceInv, UNCHANGED <<result, wire, deferred>>,
         \A q \in Pids : Built(q) => Built(q)'
  PROVE  ResultInv'
<1>1. \A t \in Tebs : \A p \in Range(result[t]) : Dst(p) = t /\ Built(p)'
  BY Pulses DEF ResultInv
<1>2. \A t \in Tebs, d \in Drps : \A k \in DOMAIN wire[t][d] :
        \A p \in Range(wire[t][d][k]) :
          /\ Dst(p) = t /\ Built(p)' /\ p \notin Range(result[t])
          /\ \A l \in DOMAIN wire[t][d] : p \in Range(wire[t][d][l]) => l = k
  BY Pulses DEF ResultInv
<1>3. \A d \in Drps : \A rs \in deferred[d] : \A p \in Range(rs) :
        /\ Built(p)' /\ p \notin Range(result[Dst(p)])
        /\ \A k \in DOMAIN wire[Dst(p)][d] : p \notin Range(wire[Dst(p)][d][k])
        /\ \A qs \in deferred[d] : p \in Range(qs) => qs = rs
  BY Pulses DEF ResultInv
<1> QED
  BY <1>1, <1>2, <1>3 DEF ResultInv, Dst, Epoch

\* The members of the tail of a sequence.
LEMMA TailCases ==
  ASSUME NEW S, NEW s \in Seq(S), s # << >>
  PROVE  /\ 1 \in DOMAIN s /\ Head(s) = s[1]
         /\ \A k \in DOMAIN Tail(s) : k + 1 \in DOMAIN s /\ Tail(s)[k] = s[k + 1] /\ k \in Nat \ {0}
         /\ \A k \in DOMAIN s : k = 1 \/ (k - 1 \in DOMAIN Tail(s) /\ Tail(s)[k - 1] = s[k])
OBVIOUS

\* A batch of results that arrives is no longer on the wire.
LEMMA ReceiveResult ==
  ASSUME PlaceInv, NEW e \in Drps, NEW u \in Tebs, Receive(e, u)
  PROVE  ResultInv'
<1>0. /\ wire \in [Tebs -> [Drps -> Seq(Batches)]] /\ deferred \in [Drps -> SUBSET Batches]
      /\ wire[u][e] \in Seq(Batches) /\ wire[u][e] # << >>
      /\ deferred' = [deferred EXCEPT ![e] = @ \cup {Head(wire[u][e])}]
      /\ wire' = [wire EXCEPT ![u][e] = Tail(@)]
      /\ UNCHANGED <<kind, groups, read, open, got, result>>
  BY DEF Receive, TypeInv, pulse
<1>1. \A q \in Pids : Built(q) => Built(q)'
  BY <1>0, BuiltKept
<1>2. PICK w \in Seq(Batches) : w = wire[u][e] /\ w # << >>
  BY <1>0
<1>3. /\ 1 \in DOMAIN w /\ Head(w) = w[1]
      /\ \A k \in DOMAIN Tail(w) : k + 1 \in DOMAIN w /\ Tail(w)[k] = w[k + 1] /\ k \in Nat \ {0}
  BY <1>2, TailCases
<1>4. /\ wire'[u][e] = Tail(w)
      /\ \A t \in Tebs, d \in Drps : t # u \/ d # e => wire'[t][d] = wire[t][d]
      /\ deferred'[e] = deferred[e] \cup {w[1]}
      /\ \A d \in Drps : d # e => deferred'[d] = deferred[d]
  BY <1>0, <1>2, <1>3
<1>5. \A k \in DOMAIN w : \A p \in Range(w[k]) :
        /\ Dst(p) = u /\ Built(p)' /\ p \notin Range(result[u])
        /\ \A l \in DOMAIN w : p \in Range(w[l]) => l = k
  BY <1>1, <1>2, Pulses DEF ResultInv
<1>6. ASSUME NEW k \in DOMAIN Tail(w), NEW p \in Range(Tail(w)[k])
      PROVE  /\ Dst(p) = u /\ Built(p)' /\ p \notin Range(result[u])
             /\ \A l \in DOMAIN Tail(w) : p \in Range(Tail(w)[l]) => l = k
             /\ p \notin Range(w[1])
  <2>1. k + 1 \in DOMAIN w /\ p \in Range(w[k + 1]) /\ k \in Nat \ {0}
    BY <1>3
  <2>2. ASSUME NEW l \in DOMAIN Tail(w), p \in Range(Tail(w)[l])
        PROVE  l = k
    <3>1. l + 1 \in DOMAIN w /\ p \in Range(w[l + 1]) /\ l \in Nat
      BY <1>3, <2>2
    <3>2. l + 1 = k + 1
      BY <1>5, <2>1, <3>1
    <3> QED
      BY <2>1, <3>1, <3>2
  <2>3. k + 1 # 1
    BY <2>1
  <2> QED
    BY <1>3, <1>5, <2>1, <2>2, <2>3
<1>7. ASSUME NEW t \in Tebs, NEW d \in Drps, NEW k \in DOMAIN wire'[t][d],
             NEW p \in Range(wire'[t][d][k])
      PROVE  /\ Dst(p) = t /\ Built(p)' /\ p \notin Range(result[t])
             /\ \A l \in DOMAIN wire'[t][d] : p \in Range(wire'[t][d][l]) => l = k
  <2>1. CASE t = u /\ d = e
    BY <1>4, <1>6, <2>1
  <2>2. CASE t # u \/ d # e
    BY <1>1, <1>4, <2>2, Pulses, SMTT(30) DEF ResultInv
  <2> QED
    BY <2>1, <2>2
<1>8. ASSUME NEW d \in Drps, NEW rs \in deferred'[d], NEW p \in Range(rs)
      PROVE  /\ Built(p)' /\ p \notin Range(result[Dst(p)])
             /\ \A k \in DOMAIN wire'[Dst(p)][d] : p \notin Range(wire'[Dst(p)][d][k])
             /\ \A qs \in deferred'[d] : p \in Range(qs) => qs = rs
  <2>1. CASE rs \in deferred[d]
    <3>1. /\ p \in Pids /\ Built(p)' /\ p \notin Range(result[Dst(p)])
          /\ \A k \in DOMAIN wire[Dst(p)][d] : p \notin Range(wire[Dst(p)][d][k])
          /\ \A qs \in deferred[d] : p \in Range(qs) => qs = rs
      BY <1>1, <2>1, Pulses DEF ResultInv
    <3>2. Dst(p) \in Tebs
      BY <3>1, DstTeb
    <3>3. d = e => \A k \in DOMAIN w : p \notin Range(w[k])
      BY <1>2, <1>5, <3>1
    <3>4. \A k \in DOMAIN wire'[Dst(p)][d] : p \notin Range(wire'[Dst(p)][d][k])
      BY <1>3, <1>4, <3>1, <3>2, <3>3
    <3>5. \A qs \in deferred'[d] : p \in Range(qs) => qs = rs
      BY <1>3, <1>4, <3>1, <3>3
    <3> QED
      BY <3>1, <3>4, <3>5
  <2>2. CASE rs \notin deferred[d]
    <3>1. d = e /\ rs = w[1]
      BY <1>4, <2>2
    <3>2. Dst(p) = u /\ Built(p)' /\ p \notin Range(result[u])
      BY <1>3, <1>5, <3>1
    <3>3. \A k \in DOMAIN Tail(w) : p \notin Range(Tail(w)[k])
      BY <1>6, <3>1
    <3>4. \A qs \in deferred[e] : p \notin Range(qs)
      <4> SUFFICES ASSUME NEW qs \in deferred[e], p \in Range(qs) PROVE FALSE
        OBVIOUS
      <4>1. \A k \in DOMAIN wire[Dst(p)][e] : p \notin Range(wire[Dst(p)][e][k])
        BY DEF ResultInv
      <4> QED
        BY <1>2, <1>3, <3>1, <3>2, <4>1
    <3> QED
      BY <1>4, <3>1, <3>2, <3>3, <3>4
  <2> QED
    BY <2>1, <2>2
<1>9. \A t \in Tebs : \A p \in Range(result[t]) : Dst(p) = t /\ Built(p)'
  BY <1>1, Pulses DEF ResultInv
<1>10. result' = result
  BY <1>0
<1> QED
  BY <1>7, <1>8, <1>9, <1>10 DEF ResultInv, Dst, Epoch

\* A turn of _matchUp()'s loop, in short.
Turn(d, is, rs, n, rest) ==
  /\ is = Current(d) /\ rs \in deferred[d] /\ n = Matched(is, rs) /\ rest = Rest(is, rs)
  /\ InCommon(is[1]) /\ pending[d] # << >>
  /\ \A q \in deferred[d] : rs[1] <= q[1]
  /\ delivered' = [delivered EXCEPT ![d] = @ \o SubSeq(is, 1, n)]
  /\ inputs' = [inputs EXCEPT ![d] = SubSeq(is, n + 1, Len(is))]
  /\ pending' = [pending EXCEPT ![d] = IF n = Len(is) THEN Tail(@) ELSE @]
  /\ deferred' = [deferred EXCEPT ![d] =
                    (@ \ {rs}) \cup (IF rest = << >> THEN {} ELSE {rest})]
  /\ UNCHANGED <<kind, groups, read, open, got, result, dsts, wire>>

LEMMA MatchTurn ==
  ASSUME TypeInv, NEW d \in Drps, Match(d)
  PROVE  \E is \in Batches, rs \in Batches, rest \in Seq(Pids) : \E n \in 0 .. Len(is) :
           Turn(d, is, rs, n, rest)
<1>1. PICK rs \in deferred[d] :
        /\ Oldest(d, rs)
        /\ delivered' = [delivered EXCEPT ![d] = @ \o SubSeq(Current(d), 1, Matched(Current(d), rs))]
        /\ inputs' = [inputs EXCEPT ![d] =
             SubSeq(Current(d), Matched(Current(d), rs) + 1, Len(Current(d)))]
        /\ pending' = [pending EXCEPT ![d] =
             IF Matched(Current(d), rs) = Len(Current(d)) THEN Tail(@) ELSE @]
        /\ deferred' = [deferred EXCEPT ![d] =
             (@ \ {rs}) \cup (IF Rest(Current(d), rs) = << >> THEN {} ELSE {Rest(Current(d), rs)})]
  BY DEF Match
<1>2. /\ UNCHANGED <<kind, groups, read, open, got, result, dsts, wire>>
      /\ Current(d) # << >> /\ InCommon(Current(d)[1])
  BY DEF Match, pulse, teb
<1>3. Current(d) \in Batches /\ pending[d] # << >> /\ rs \in Batches
  BY <1>2, CurrentFacts DEF TypeInv
<1>4. Matched(Current(d), rs) \in 0 .. Len(Current(d)) /\ Rest(Current(d), rs) \in Seq(Pids)
  BY <1>3, MatchedFacts, RestFacts
<1>5. Turn(d, Current(d), rs, Matched(Current(d), rs), Rest(Current(d), rs))
  BY <1>1, <1>2, <1>3 DEF Turn, Oldest
<1> QED
  BY <1>3, <1>4, <1>5

\* What remains of a batch of results takes its place.
LEMMA MatchResult ==
  ASSUME PlaceInv, NEW e \in Drps, Match(e)
  PROVE  ResultInv'
<1>1. PICK is \in Batches, rs \in Batches, rest \in Seq(Pids) :
        \E n \in 0 .. Len(is) : Turn(e, is, rs, n, rest)
  BY MatchTurn
<1>2. /\ UNCHANGED <<kind, groups, read, open, got, result, wire>> /\ rs \in deferred[e]
      /\ rest = Rest(is, rs)
      /\ deferred' = [deferred EXCEPT ![e] =
                        (@ \ {rs}) \cup (IF rest = << >> THEN {} ELSE {rest})]
      /\ deferred \in [Drps -> SUBSET Batches]
  BY <1>1 DEF Turn, TypeInv
<1>3. \A q \in Pids : Built(q) => Built(q)'
  BY <1>2, BuiltKept
<1>4. Range(rest) \subseteq Range(rs)
  BY <1>2, RestFacts
<1>5. /\ \A d \in Drps : d # e => deferred'[d] = deferred[d]
      /\ \A qs \in deferred'[e] : (qs \in deferred[e] /\ qs # rs) \/ qs = rest
  BY <1>2
<1>6. \A d \in Drps : \A qs \in deferred[d] : \A p \in Range(qs) :
        /\ Built(p)' /\ p \notin Range(result[Dst(p)])
        /\ \A k \in DOMAIN wire[Dst(p)][d] : p \notin Range(wire[Dst(p)][d][k])
        /\ \A os \in deferred[d] : p \in Range(os) => os = qs
  BY <1>3, Pulses DEF ResultInv
<1>7. ASSUME NEW d \in Drps, NEW qs \in deferred'[d], NEW p \in Range(qs)
      PROVE  /\ Built(p)' /\ p \notin Range(result[Dst(p)])
             /\ \A k \in DOMAIN wire[Dst(p)][d] : p \notin Range(wire[Dst(p)][d][k])
             /\ \A os \in deferred'[d] : p \in Range(os) => os = qs
  <2>1. CASE d # e
    BY <1>5, <1>6, <2>1
  <2>2. CASE d = e
    <3>1. CASE qs \in deferred[e] /\ qs # rs
      BY <1>2, <1>4, <1>5, <1>6, <2>2, <3>1
    <3>2. CASE qs = rest
      <4>1. p \in Range(rs)
        BY <1>4, <3>2
      <4> QED
        BY <1>2, <1>5, <1>6, <2>2, <3>2, <4>1
    <3> QED
      BY <1>5, <2>2, <3>1, <3>2
  <2> QED
    BY <2>1, <2>2
<1>8. \A t \in Tebs : \A p \in Range(result[t]) : Dst(p) = t /\ Built(p)'
  BY <1>3, Pulses DEF ResultInv
<1>9. \A t \in Tebs, d \in Drps : \A k \in DOMAIN wire[t][d] :
        \A p \in Range(wire[t][d][k]) :
          /\ Dst(p) = t /\ Built(p)' /\ p \notin Range(result[t])
          /\ \A l \in DOMAIN wire[t][d] : p \in Range(wire[t][d][l]) => l = k
  BY <1>3, Pulses DEF ResultInv
<1>10. UNCHANGED <<result, wire>>
  BY <1>2
<1> QED
  BY <1>7, <1>8, <1>9, <1>10 DEF ResultInv, Dst, Epoch

LEMMA ResultStep ==
  ASSUME PlaceInv, Next
  PROVE  ResultInv'
<1>1. ASSUME NEW d \in Drps, NEW p \in Pids, Collect(d, p)
      PROVE  ResultInv'
  <2>1. UNCHANGED <<result, wire, deferred>>
    BY <1>1 DEF Collect
  <2> QED
    BY <1>1, <2>1, CollectBuilt, ResultKept
<1>2. ASSUME NEW t \in Tebs, NEW p \in Pids, Build(t, p)
      PROVE  ResultInv'
  <2>1. /\ UNCHANGED deferred /\ \A q \in Pids : Built(q) => Built(q)'
        /\ Dst(p) = t => ~Built(p) /\ Built(p)' /\ p \notin Range(result[t])
    BY <1>2, BuildBuilds
  <2>2. CASE Dst(p) # t /\ UNCHANGED <<wire, result, dsts>>
    BY <2>1, <2>2, ResultKept
  <2>3. ASSUME NEW ys \in [Drps -> Seq(Batches)], NEW r \in Seq(Pids),
               Sends(t, IF Dst(p) = t THEN {p} ELSE {}, ys, r)
        PROVE  ResultInv'
    BY <2>1, <2>3, SendsResult
  <2> QED
    BY <1>2, <2>1, <2>2, <2>3, BuildSends
<1>3. ASSUME NEW t \in Tebs, Flush(t)
      PROVE  ResultInv'
  <2>1. /\ UNCHANGED <<kind, groups, read, open, deferred, got>>
        /\ result[t] # << >> /\ Send(t, <<result[t]>>, dsts[t])
        /\ result' = [result EXCEPT ![t] = << >>] /\ dsts' = [dsts EXCEPT ![t] = {}]
    BY <1>3 DEF Flush, pulse, drp
  <2>2. \A q \in Pids : Built(q) => Built(q)'
    BY <2>1, BuiltKept
  <2>3. ASSUME NEW ys \in [Drps -> Seq(Batches)], NEW r \in Seq(Pids), Sends(t, {}, ys, r)
        PROVE  ResultInv'
    BY <2>1, <2>2, <2>3, SendsResult
  <2> QED
    BY <2>1, <2>3, PostSends
<1>4. ASSUME NEW d \in Drps, Timeout(d) \/ Bypass(d) \/ Done(d)
      PROVE  ResultInv'
  <2>1. UNCHANGED <<kind, groups, read, open, got, result, wire, deferred>>
    BY <1>4 DEF Timeout, Bypass, Done, pulse, teb
  <2> QED
    BY <2>1, BuiltKept, ResultKept
<1> QED
  BY <1>1, <1>2, <1>3, <1>4, ReceiveResult, MatchResult DEF Next

LEMMA PlaceInit ==
  ASSUME Init
  PROVE  PlaceInv
<1>1. /\ kind \in [Pids -> Kinds] /\ groups \in [Pids -> SUBSET Drps] /\ KindInv
      /\ read = [d \in Drps |-> 0] /\ open = [d \in Drps |-> << >>]
      /\ pending = [d \in Drps |-> << >>] /\ inputs = [d \in Drps |-> << >>]
      /\ deferred = [d \in Drps |-> {}] /\ delivered = [d \in Drps |-> << >>]
      /\ got = [t \in Tebs |-> {}] /\ result = [t \in Tebs |-> << >>]
      /\ dsts = [t \in Tebs |-> {}] /\ wire = [t \in Tebs |-> [d \in Drps |-> << >>]]
  BY DEF Init, KindInv
<1>2. << >> \in Seq(Pids) /\ << >> \in Seq(Batches) /\ 0 \in 0 .. MaxPid
  BY ResultsAssumption
<1>3. TypeInv
  BY <1>1, <1>2 DEF TypeInv
<1>4. OpenInv
  BY <1>1, EmptyRange DEF OpenInv, Increasing
<1>5. GotInv
  BY <1>1 DEF GotInv
<1>6. ResultInv
  BY <1>1, EmptyRange DEF ResultInv
<1> QED
  BY <1>1, <1>3, <1>4, <1>5, <1>6

LEMMA PlaceStutter ==
  ASSUME PlaceInv, UNCHANGED vars
  PROVE  PlaceInv'
<1>1. UNCHANGED <<kind, groups, read, open, pending, inputs, deferred, delivered, got,
                  result, dsts, wire>>
  BY DEF vars, pulse, drp, teb
<1>2. TypeInv' /\ KindInv'
  BY <1>1 DEF TypeInv, KindInv
<1>3. OpenInv'
  BY <1>1 DEF OpenInv, Increasing, InCommon, Flushes, Epoch
<1>4. GotInv'
  BY <1>1 DEF GotInv, Past, InCommon, Dst, Epoch
<1>5. ResultInv'
  <2>1. \A q \in Pids : Built(q) => Built(q)'
    BY <1>1, BuiltKept
  <2> QED
    BY <1>1, <2>1, ResultKept
<1> QED
  BY <1>2, <1>3, <1>4, <1>5

LEMMA PlaceInvariance == Spec => []PlaceInv
<1>1. Init => PlaceInv
  BY PlaceInit
<1>2. PlaceInv /\ [Next]_vars => PlaceInv'
  BY TypeStep, KindOpenStep, GotStep, ResultStep, PlaceStutter
<1> QED
  BY <1>1, <1>2, PTL DEF Spec

\* The assertion of _defer() holds: no two batches of results that a DRP keeps have a
\* pulse in common, in whatever order TEBs build, flush and answer and inputs are matched.
THEOREM DeferredBatchesApart == Spec => []DeferredApart
<1>1. PlaceInv => DeferredApart
  BY DEF DeferredApart, ResultInv
<1> QED
  BY <1>1, PlaceInvariance, PTL

-----------------------------------------------------------------------------
(***************************************************************************)
(* The chain of inputs                                                     *)
(***************************************************************************)

LEMMA ConcatRange ==
  ASSUME NEW S, NEW s \in Seq(S), NEW z \in Seq(S)
  PROVE  Range(s \o z) = Range(s) \cup Range(z)
BY RangeConcatenation

LEMMA ConcatIncreasing ==
  ASSUME NEW s \in Seq(Nat), NEW z \in Seq(Nat), Increasing(s), Increasing(z),
         \A a \in Range(s), b \in Range(z) : a < b
  PROVE  Increasing(s \o z)
<1>0. /\ \A k \in DOMAIN s : (s \o z)[k] = s[k]
      /\ \A k \in DOMAIN z : (s \o z)[Len(s) + k] = z[k]
      /\ \A k \in DOMAIN (s \o z) : k \in DOMAIN s \/ \E l \in DOMAIN z : k = Len(s) + l
  <2> DEFINE S == Nat
  <2>1. s \in Seq(S) /\ z \in Seq(S)
    OBVIOUS
  <2> HIDE DEF S
  <2> QED
    BY <2>1, ConcatCases
<1> SUFFICES ASSUME NEW i \in DOMAIN (s \o z), NEW j \in DOMAIN (s \o z), i < j
             PROVE  (s \o z)[i] < (s \o z)[j]
  BY DEF Increasing
<1>1. /\ \A k \in DOMAIN s : s[k] \in Range(s) /\ k \in Nat /\ k <= Len(s)
      /\ \A k \in DOMAIN z : z[k] \in Range(z) /\ k \in Nat /\ k > 0
      /\ Len(s) \in Nat
  BY DEF Range
<1>2. CASE i \in DOMAIN s /\ j \in DOMAIN s
  BY <1>0, <1>2 DEF Increasing
<1>3. CASE i \in DOMAIN s /\ j \notin DOMAIN s
  <2>1. PICK l \in DOMAIN z : j = Len(s) + l
    BY <1>0, <1>3, Zenon
  <2>2. s[i] < z[l]
    BY <1>1, <1>3
  <2> QED
    BY <1>0, <1>3, <2>1, <2>2
<1>4. CASE i \notin DOMAIN s
  <2>1. PICK k \in DOMAIN z : i = Len(s) + k
    BY <1>0, <1>4
  <2>2. j \notin DOMAIN s
    BY <1>1, <2>1
  <2>3. PICK l \in DOMAIN z : j = Len(s) + l
    BY <1>0, <2>2
  <2>4. k < l
    <3>1. k \in Nat /\ l \in Nat /\ Len(s) \in Nat
      BY <1>1
    <3>2. \A a, b, c \in Nat : c + a < c + b => a < b
      OBVIOUS
    <3> QED
      BY <2>1, <2>3, <3>1, <3>2, Zenon
  <2>5. z[k] < z[l]
    BY <2>4 DEF Increasing
  <2> QED
    BY <1>0, <2>1, <2>3, <2>5
<1> QED
  BY <1>2, <1>3, <1>4

LEMMA BatchNat ==
  /\ Pids \subseteq Nat /\ \A s \in Seq(Pids) : s \in Seq(Nat) /\ Range(s) \subseteq Nat
  /\ \A b \in Batches : b \in Seq(Pids) /\ b \in Seq(Nat) /\ b # << >>
<1>1. Pids \subseteq Nat
  BY ResultsAssumption DEF Pids
<1>2. \A s \in Seq(Pids) : s \in Seq(Nat)
  BY <1>1, SeqMonotonic
<1>3. \A s \in Seq(Nat) : Range(s) \subseteq Nat
  BY RangeOfSeq
<1> QED
  BY <1>1, <1>2, <1>3 DEF Batches

\* All of the first batch is delivered.
LEMMA ChainDelivered ==
  ASSUME NEW d \in Drps, NEW ds \in Seq(Pids), NEW ls \in Seq(Batches), NEW os, NEW n,
         Chain(d, ds, ls, os, n), ls # << >>
  PROVE  Chain(d, ds \o ls[1], Tail(ls), os, n)
<1>1. /\ 1 \in DOMAIN ls
      /\ \A k \in DOMAIN Tail(ls) : k + 1 \in DOMAIN ls /\ Tail(ls)[k] = ls[k + 1] /\ k \in Nat \ {0}
      /\ \A k \in DOMAIN ls : k = 1 \/ (k - 1 \in DOMAIN Tail(ls) /\ Tail(ls)[k - 1] = ls[k])
  BY TailCases
<1>2. ls[1] \in Seq(Pids) /\ ls[1] \in Seq(Nat) /\ ds \in Seq(Nat)
  BY <1>1, BatchNat
<1>3. PICK is \in Seq(Pids) : is = ls[1] /\ is \in Seq(Nat)
  BY <1>2
<1>4. Range(ds \o is) = Range(ds) \cup Range(is)
  BY ConcatRange
<1>5. Increasing(ds \o is)
  <2>1. Increasing(ds) /\ Increasing(is) /\ \A a \in Range(ds), b \in Range(is) : a < b
    BY <1>1, <1>3 DEF Chain
  <2> QED
    BY <1>2, <1>3, <2>1, ConcatIncreasing
<1>6. \A k \in DOMAIN Tail(ls) : 1 < k + 1
  BY <1>1
<1>7. ASSUME NEW q \in Range(ds \o is)
      PROVE  /\ q \in Inputs(d, n)
             /\ \A p \in Range(os) : q < p
             /\ \A i \in DOMAIN Tail(ls) : \A p \in Range(Tail(ls)[i]) : q < p
  <2>1. CASE q \in Range(ds)
    BY <1>1, <2>1 DEF Chain
  <2>2. CASE q \in Range(is)
    BY <1>1, <1>3, <1>6, <2>2 DEF Chain
  <2> QED
    BY <1>4, <2>1, <2>2
<1>8. ASSUME NEW i \in DOMAIN Tail(ls)
      PROVE  /\ Increasing(Tail(ls)[i])
             /\ \A k \in DOMAIN Tail(ls)[i] : InCommon(Tail(ls)[i][k]) \/ Len(Tail(ls)[i]) = 1
             /\ \A q \in Range(Tail(ls)[i]) :
                  /\ q \in Inputs(d, n)
                  /\ \A p \in Range(os) : q < p
                  /\ \A j \in DOMAIN Tail(ls) : i < j => \A p \in Range(Tail(ls)[j]) : q < p
  <2>1. \A j \in DOMAIN Tail(ls) : i < j => i + 1 < j + 1
    BY <1>1
  <2>2. i + 1 \in DOMAIN ls /\ Tail(ls)[i] = ls[i + 1]
    BY <1>1
  <2>3. ASSUME NEW q \in Range(ls[i + 1]), NEW j \in DOMAIN Tail(ls), i < j,
               NEW p \in Range(Tail(ls)[j])
        PROVE  q < p
    BY <1>1, <2>1, <2>2, <2>3 DEF Chain
  <2> QED
    BY <2>2, <2>3 DEF Chain
<1>9. ASSUME NEW p \in Inputs(d, n)
      PROVE  \/ p \in Range(ds \o is) \/ p \in Range(os)
             \/ \E i \in DOMAIN Tail(ls) : p \in Range(Tail(ls)[i])
  <2>1. CASE p \in Range(ds) \/ p \in Range(os)
    BY <1>4, <2>1
  <2>2. ASSUME NEW i \in DOMAIN ls, p \in Range(ls[i])
        PROVE  \/ p \in Range(ds \o is)
               \/ \E j \in DOMAIN Tail(ls) : p \in Range(Tail(ls)[j])
    BY <1>1, <1>3, <1>4, <2>2
  <2> QED
    BY <2>1, <2>2 DEF Chain
<1> QED
  BY <1>3, <1>5, <1>7, <1>8, <1>9 DEF Chain

\* The two parts of a batch.
LEMMA Parts ==
  ASSUME NEW is \in Batches, NEW m \in 0 .. Len(is), m < Len(is), Increasing(is)
  PROVE  LET a == SubSeq(is, 1, m)
             z == SubSeq(is, m + 1, Len(is))
         IN /\ a \in Seq(Pids) /\ z \in Batches
            /\ Increasing(a) /\ Increasing(z)
            /\ Range(is) = Range(a) \cup Range(z)
            /\ \A x \in Range(a), y \in Range(z) : x < y
            /\ \A k \in DOMAIN z : \E l \in DOMAIN is : z[k] = is[l]
            /\ Len(is) = 1 => z = is
<1> DEFINE a == SubSeq(is, 1, m)
           z == SubSeq(is, m + 1, Len(is))
<1>1. is \in Seq(Pids) /\ Len(is) \in Nat /\ DOMAIN is = 1 .. Len(is) /\ m \in Nat
  BY BatchNat
<1>2. /\ a \in Seq(Pids) /\ Len(a) = m /\ DOMAIN a = 1 .. m
      /\ \A k \in 1 .. m : a[k] = is[k]
  BY <1>1
<1>3. /\ z \in Seq(Pids) /\ Len(z) = Len(is) - m /\ DOMAIN z = 1 .. Len(is) - m
      /\ \A k \in 1 .. Len(is) - m : z[k] = is[m + k]
  <2>1. z \in Seq(Pids)
    BY <1>1
  <2>2. Len(z) = Len(is) - m
    <3>1. \A i \in m + 1 .. Len(is) : is[i] \in Pids
      BY <1>1
    <3>2. m + 1 \in Int /\ Len(is) \in Int
      BY <1>1
    <3>3. Len(z) = IF m + 1 <= Len(is) THEN Len(is) - (m + 1) + 1 ELSE 0
      BY <3>1, <3>2, SubSeqProperties
    <3>4. m + 1 <= Len(is) /\ Len(is) - (m + 1) + 1 = Len(is) - m
      BY <1>1
    <3> HIDE DEF z
    <3> QED
      BY <3>3, <3>4
  <2>3. \A k \in 1 .. Len(is) - m : z[k] = is[m + k]
    <3>1. \A i \in m + 1 .. Len(is) : is[i] \in Pids
      BY <1>1
    <3>2. m + 1 \in Int /\ Len(is) \in Int
      BY <1>1
    <3>3. \A k \in 1 .. Len(is) - (m + 1) + 1 : z[k] = is[(m + 1) + k - 1]
      BY <3>1, <3>2, SubSeqProperties
    <3>4. Len(is) - (m + 1) + 1 = Len(is) - m
      BY <1>1
    <3>5. \A k \in Int : (m + 1) + k - 1 = m + k
      BY <1>1
    <3>6. \A k \in 1 .. Len(is) - m : k \in Int
      BY <1>1
    <3> HIDE DEF z
    <3> QED
      BY <3>3, <3>4, <3>5, <3>6
  <2>4. DOMAIN z = 1 .. Len(is) - m
    BY <2>1, <2>2
  <2> QED
    BY <2>1, <2>2, <2>3, <2>4
<1> HIDE DEF a, z
<1>4. z \in Batches
  BY <1>1, <1>3 DEF Batches
<1>5. /\ \A k \in 1 .. m : k \in DOMAIN is
      /\ \A k \in 1 .. Len(is) - m : m + k \in DOMAIN is /\ m + k \in Nat
      /\ \A k \in 1 .. m, l \in 1 .. Len(is) - m : k < m + l
      /\ \A k, l \in 1 .. Len(is) - m : k < l => m + k < m + l
      /\ \A k \in DOMAIN is : k \in 1 .. m \/ (k - m \in 1 .. Len(is) - m /\ m + (k - m) = k)
  <2>1. ASSUME NEW L \in Nat, m \in Nat, m < L
        PROVE  /\ \A k \in 1 .. m : k \in 1 .. L
               /\ \A k \in 1 .. L - m : m + k \in 1 .. L /\ m + k \in Nat
               /\ \A k \in 1 .. m, l \in 1 .. L - m : k < m + l
               /\ \A k, l \in 1 .. L - m : k < l => m + k < m + l
               /\ \A k \in 1 .. L : k \in 1 .. m \/ (k - m \in 1 .. L - m /\ m + (k - m) = k)
    BY <2>1
  <2> QED
    BY <1>1, <2>1, Zenon
<1>6. Increasing(a)
  BY <1>2, <1>5 DEF Increasing
<1>7. Increasing(z)
  <2> SUFFICES ASSUME NEW k \in 1 .. Len(is) - m, NEW l \in 1 .. Len(is) - m, k < l
               PROVE  z[k] < z[l]
    BY <1>3 DEF Increasing
  <2>1. m + k \in DOMAIN is /\ m + l \in DOMAIN is /\ m + k < m + l
    BY <1>5
  <2>2. is[m + k] < is[m + l]
    BY <2>1 DEF Increasing
  <2> QED
    BY <1>3, <2>2
<1>8. \A x \in Range(a), y \in Range(z) : x < y
  <2> SUFFICES ASSUME NEW k \in 1 .. m, NEW l \in 1 .. Len(is) - m
               PROVE  a[k] < z[l]
    BY <1>2, <1>3 DEF Range
  <2>1. k \in DOMAIN is /\ m + l \in DOMAIN is /\ k < m + l
    BY <1>5
  <2>2. is[k] < is[m + l]
    BY <2>1 DEF Increasing
  <2> QED
    BY <1>2, <1>3, <2>2
<1>9. Range(is) = Range(a) \cup Range(z)
  <2>1. Range(a) \subseteq Range(is)
    BY <1>2, <1>5 DEF Range
  <2>2. Range(z) \subseteq Range(is)
    BY <1>3, <1>5 DEF Range
  <2>3. ASSUME NEW k \in DOMAIN is
        PROVE  is[k] \in Range(a) \cup Range(z)
    <3>1. CASE k \in 1 .. m
      BY <1>2, <3>1 DEF Range
    <3>2. CASE k - m \in 1 .. Len(is) - m /\ m + (k - m) = k
      <4>1. z[k - m] = is[k]
        BY <1>3, <3>2
      <4> QED
        BY <1>3, <3>2, <4>1 DEF Range
    <3> QED
      BY <1>5, <3>1, <3>2
  <2> QED
    BY <2>1, <2>2, <2>3 DEF Range
<1>10. \A k \in DOMAIN z : \E l \in DOMAIN is : z[k] = is[l]
  BY <1>3, <1>5
<1>11. Len(is) = 1 => z = is
  <2> SUFFICES ASSUME Len(is) = 1 PROVE z = is
    OBVIOUS
  <2>1. m = 0
    BY <1>1
  <2>2. Len(z) = Len(is) /\ \A k \in 1 .. Len(is) : z[k] = is[k]
    BY <1>1, <1>3, <2>1
  <2> QED
    BY <1>1, <1>3, <2>2, SeqEqual
<1> QED
  BY <1>2, <1>4, <1>6, <1>7, <1>8, <1>9, <1>10, <1>11 DEF a, z

\* A part of the first batch is delivered.
LEMMA ChainPart ==
  ASSUME NEW d \in Drps, NEW ds \in Seq(Pids), NEW ls \in Seq(Batches), NEW os, NEW n,
         Chain(d, ds, ls, os, n), ls # << >>, NEW m \in 0 .. Len(ls[1]), m < Len(ls[1])
  PROVE  Chain(d, ds \o SubSeq(ls[1], 1, m),
               [ls EXCEPT ![1] = SubSeq(ls[1], m + 1, Len(ls[1]))], os, n)
<1>1. 1 \in DOMAIN ls /\ DOMAIN ls \subseteq Nat \ {0}
  BY TailCases
<1>2. ls[1] \in Batches /\ Increasing(ls[1])
  BY <1>1 DEF Chain
<1>3. PICK a, z : a = SubSeq(ls[1], 1, m) /\ z = SubSeq(ls[1], m + 1, Len(ls[1]))
  OBVIOUS
<1>4. /\ a \in Seq(Pids) /\ z \in Batches /\ Increasing(a) /\ Increasing(z)
      /\ Range(ls[1]) = Range(a) \cup Range(z)
      /\ \A x \in Range(a), y \in Range(z) : x < y
      /\ \A k \in DOMAIN z : \E l \in DOMAIN ls[1] : z[k] = ls[1][l]
      /\ Len(ls[1]) = 1 => z = ls[1]
  BY <1>2, <1>3, Parts
<1>5. PICK ls2 : ls2 = [ls EXCEPT ![1] = z]
  OBVIOUS
<1>6. DOMAIN ls2 = DOMAIN ls /\ ls2[1] = z /\ \A i \in DOMAIN ls : i # 1 => ls2[i] = ls[i]
  BY <1>1, <1>5
<1>7. Range(ds \o a) = Range(ds) \cup Range(a)
  BY <1>4, ConcatRange
<1>8. Increasing(ds \o a)
  <2>1. Increasing(ds) /\ \A x \in Range(ds), y \in Range(a) : x < y
    BY <1>1, <1>4 DEF Chain
  <2>2. ds \in Seq(Nat) /\ a \in Seq(Nat)
    BY <1>4, BatchNat
  <2> QED
    BY <1>4, <2>1, <2>2, ConcatIncreasing
<1>9. \A i \in DOMAIN ls : Range(ls2[i]) \subseteq Range(ls[i])
  BY <1>4, <1>6
<1>10. \A j \in DOMAIN ls : j # 1 => 1 < j
  BY <1>1
<1>11. ASSUME NEW q \in Range(ds \o a)
       PROVE  /\ q \in Inputs(d, n)
              /\ \A p \in Range(os) : q < p
              /\ \A i \in DOMAIN ls2 : \A p \in Range(ls2[i]) : q < p
  <2>1. CASE q \in Range(ds)
    BY <1>6, <1>9, <2>1 DEF Chain
  <2>2. CASE q \in Range(a)
    <3>1. q \in Range(ls[1])
      BY <1>4, <2>2
    <3>2. q \in Inputs(d, n) /\ \A p \in Range(os) : q < p
      BY <1>1, <3>1 DEF Chain
    <3>3. ASSUME NEW i \in DOMAIN ls, NEW p \in Range(ls2[i])
          PROVE  q < p
      <4>1. CASE i = 1
        BY <1>4, <1>6, <2>2, <4>1
      <4>2. CASE i # 1
        <5>1. 1 < i /\ p \in Range(ls[i])
          BY <1>6, <1>10, <4>2
        <5> QED
          BY <1>1, <3>1, <5>1 DEF Chain
      <4> QED
        BY <4>1, <4>2
    <3> QED
      BY <1>6, <3>2, <3>3
  <2> QED
    BY <1>7, <2>1, <2>2
<1>12. ASSUME NEW i \in DOMAIN ls
       PROVE  Increasing(ls2[i]) /\ \A k \in DOMAIN ls2[i] : InCommon(ls2[i][k]) \/ Len(ls2[i]) = 1
  <2>1. CASE i = 1
    BY <1>1, <1>4, <1>6, <2>1 DEF Chain
  <2>2. CASE i # 1
    BY <1>6, <2>2 DEF Chain
  <2> QED
    BY <2>1, <2>2
<1>13. ASSUME NEW i \in DOMAIN ls, NEW q \in Range(ls2[i])
       PROVE  /\ q \in Inputs(d, n)
              /\ \A p \in Range(os) : q < p
              /\ \A j \in DOMAIN ls2 : i < j => \A p \in Range(ls2[j]) : q < p
  <2>1. q \in Range(ls[i])
    BY <1>9
  <2> QED
    BY <1>6, <1>9, <2>1 DEF Chain
<1>14. ASSUME NEW p \in Inputs(d, n)
       PROVE  \/ p \in Range(ds \o a) \/ p \in Range(os)
              \/ \E i \in DOMAIN ls2 : p \in Range(ls2[i])
  <2>1. CASE p \in Range(ds) \/ p \in Range(os)
    BY <1>7, <2>1
  <2>2. ASSUME NEW i \in DOMAIN ls, p \in Range(ls[i])
        PROVE  p \in Range(a) \/ \E j \in DOMAIN ls2 : p \in Range(ls2[j])
    <3>1. CASE i = 1
      BY <1>1, <1>4, <1>6, <2>2, <3>1
    <3>2. CASE i # 1
      BY <1>6, <2>2, <3>2
    <3> QED
      BY <3>1, <3>2
  <2> QED
    BY <1>7, <2>1, <2>2 DEF Chain
<1>15. Chain(d, ds \o a, ls2, os, n)
  BY <1>6, <1>8, <1>11, <1>12, <1>13, <1>14 DEF Chain
<1> QED
  BY <1>3, <1>5, <1>15

\* An input is collected.
LEMMA ChainCollected ==
  ASSUME TypeInv, OpenInv, NEW d \in Drps, NEW p \in Pids, Collect(d, p),
         NEW ls \in Seq(Batches), Chain(d, delivered[d], ls, open[d], read[d])
  PROVE  Chain(d, delivered[d], ls \o Sent(d, p), open'[d], p)
<1> DEFINE bs == Sent(d, p)
<1>1. bs \in Seq(Batches)
  BY CollectBatches
<1>2. /\ \A i \in DOMAIN bs : Leaves(d, p, bs[i])
      /\ \A i, j \in DOMAIN bs : i < j => \A q \in Range(bs[i]), r \in Range(bs[j]) : q < r
      /\ \A i \in DOMAIN bs : \A q \in Range(bs[i]), r \in Range(open'[d]) : q < r
      /\ \A q \in Range(open[d]) \cup {p} :
           q \in Range(open'[d]) \/ \E i \in DOMAIN bs : q \in Range(bs[i])
      /\ Range(open'[d]) \subseteq Range(open[d]) \cup {p}
  BY CollectBatches
<1> HIDE DEF bs
<1>3. \A i \in DOMAIN bs : Range(bs[i]) \subseteq Range(open[d]) \cup {p}
  BY <1>2 DEF Leaves, Range
<1>4. /\ p > read[d] /\ d \in groups[p] /\ read[d] \in Nat /\ p \in Nat
      /\ \A q \in Pids : read[d] < q /\ q < p => d \notin groups[q]
      /\ Pids = 1 .. MaxPid /\ p <= MaxPid /\ MaxPid \in Nat
  BY ResultsAssumption DEF Collect, TypeInv, Pids
<1>5. Inputs(d, p) = Inputs(d, read[d]) \cup {p}
  BY <1>4 DEF Inputs
<1>6. Range(open[d]) \cup {p} \subseteq Inputs(d, p)
  <2>1. \A q \in Range(open[d]) : q \in Pids /\ q <= read[d] /\ d \in groups[q]
    BY Pulses DEF OpenInv
  <2> QED
    BY <1>4, <2>1 DEF Inputs
<1>7. \A q \in Inputs(d, read[d]) : q < p
  BY <1>4 DEF Inputs
<1>8. \A i \in DOMAIN ls : Range(ls[i]) \subseteq Inputs(d, read[d])
  BY DEF Chain
<1>9. \A q \in Range(delivered[d]) : q < p /\ \A r \in Range(open[d]) \cup {p} : q < r
  BY <1>7 DEF Chain
<1>10. \A i \in DOMAIN ls : \A q \in Range(ls[i]) : \A r \in Range(open[d]) \cup {p} : q < r
  BY <1>7, <1>8 DEF Chain
<1>11. /\ \A k \in DOMAIN ls : k \in DOMAIN (ls \o bs) /\ (ls \o bs)[k] = ls[k]
       /\ \A i \in DOMAIN bs : Len(ls) + i \in DOMAIN (ls \o bs) /\ (ls \o bs)[Len(ls) + i] = bs[i]
       /\ \A k \in DOMAIN (ls \o bs) : k \in DOMAIN ls \/ \E i \in DOMAIN bs : k = Len(ls) + i
  BY <1>1, ConcatCases
<1>12. PICK l2 : l2 = ls \o bs
  OBVIOUS
<1>13. /\ \A i \in DOMAIN ls : i \in Nat /\ i <= Len(ls)
       /\ \A i \in DOMAIN bs : i \in Nat \ {0}
       /\ Len(ls) \in Nat
  BY <1>1
<1>14. /\ \A i \in DOMAIN ls, j \in DOMAIN bs : ~(Len(ls) + j < i)
       /\ \A i, j \in DOMAIN bs : Len(ls) + i < Len(ls) + j => i < j
  BY <1>13
<1>15. /\ \A k \in DOMAIN ls : k \in DOMAIN l2 /\ l2[k] = ls[k]
       /\ \A i \in DOMAIN bs : Len(ls) + i \in DOMAIN l2 /\ l2[Len(ls) + i] = bs[i]
       /\ \A k \in DOMAIN l2 : k \in DOMAIN ls \/ \E i \in DOMAIN bs : k = Len(ls) + i
  BY <1>11, <1>12
<1>16. ASSUME NEW q \in Range(delivered[d])
       PROVE  /\ q \in Inputs(d, p)
              /\ \A r \in Range(open'[d]) : q < r
              /\ \A i \in DOMAIN l2 : \A r \in Range(l2[i]) : q < r
  <2>1. q \in Inputs(d, p)
    BY <1>5 DEF Chain
  <2>2. ASSUME NEW i \in DOMAIN l2, NEW r \in Range(l2[i])
        PROVE  q < r
    <3>1. CASE i \in DOMAIN ls
      BY <1>15, <3>1 DEF Chain
    <3>2. CASE \E k \in DOMAIN bs : i = Len(ls) + k
      BY <1>3, <1>9, <1>15, <3>2
    <3> QED
      BY <1>15, <3>1, <3>2
  <2> QED
    BY <1>2, <1>9, <2>1, <2>2
<1>17. ASSUME NEW i \in DOMAIN l2
       PROVE  Increasing(l2[i]) /\ \A k \in DOMAIN l2[i] : InCommon(l2[i][k]) \/ Len(l2[i]) = 1
  <2>1. CASE i \in DOMAIN ls
    BY <1>15, <2>1 DEF Chain
  <2>2. CASE \E k \in DOMAIN bs : i = Len(ls) + k
    BY <1>2, <1>15, <2>2 DEF Leaves
  <2> QED
    BY <1>15, <2>1, <2>2
<1>18. ASSUME NEW i \in DOMAIN l2, NEW q \in Range(l2[i])
       PROVE  /\ q \in Inputs(d, p)
              /\ \A r \in Range(open'[d]) : q < r
              /\ \A j \in DOMAIN l2 : i < j => \A r \in Range(l2[j]) : q < r
  <2>1. CASE i \in DOMAIN ls
    <3>1. q \in Range(ls[i]) /\ q \in Inputs(d, p)
      BY <1>5, <1>8, <1>15, <2>1
    <3>2. \A r \in Range(open'[d]) : q < r
      BY <1>2, <1>10, <2>1, <3>1
    <3>3. ASSUME NEW j \in DOMAIN l2, i < j, NEW r \in Range(l2[j])
          PROVE  q < r
      <4>1. CASE j \in DOMAIN ls
        BY <1>15, <2>1, <3>1, <3>3, <4>1 DEF Chain
      <4>2. CASE \E k \in DOMAIN bs : j = Len(ls) + k
        BY <1>3, <1>10, <1>15, <2>1, <3>1, <4>2
      <4> QED
        BY <1>15, <4>1, <4>2
    <3> QED
      BY <3>1, <3>2, <3>3
  <2>2. ASSUME NEW k \in DOMAIN bs, i = Len(ls) + k
        PROVE  /\ q \in Inputs(d, p)
               /\ \A r \in Range(open'[d]) : q < r
               /\ \A j \in DOMAIN l2 : i < j => \A r \in Range(l2[j]) : q < r
    <3>1. q \in Range(bs[k])
      BY <1>15, <2>2
    <3>2. q \in Inputs(d, p) /\ \A r \in Range(open'[d]) : q < r
      BY <1>2, <1>3, <1>6, <3>1
    <3>3. ASSUME NEW j \in DOMAIN l2, i < j, NEW r \in Range(l2[j])
          PROVE  q < r
      <4>1. j \notin DOMAIN ls
        BY <1>14, <2>2, <3>3
      <4>2. PICK l \in DOMAIN bs : j = Len(ls) + l
        BY <1>15, <4>1
      <4>3. k < l
        BY <1>14, <2>2, <3>3, <4>2
      <4> QED
        BY <1>2, <1>15, <3>1, <4>2, <4>3, <3>3
    <3> QED
      BY <3>2, <3>3
  <2> QED
    BY <1>15, <2>1, <2>2
<1>19. ASSUME NEW q \in Inputs(d, p)
       PROVE  \/ q \in Range(delivered[d]) \/ q \in Range(open'[d])
              \/ \E i \in DOMAIN l2 : q \in Range(l2[i])
  <2>1. CASE q \in Range(open[d]) \cup {p}
    BY <1>2, <1>15, <2>1
  <2>2. CASE q \in Inputs(d, read[d]) /\ q \notin Range(open[d])
    BY <1>15, <2>2 DEF Chain
  <2> QED
    BY <1>5, <2>1, <2>2
<1>20. Chain(d, delivered[d], l2, open'[d], p)
  BY <1>16, <1>17, <1>18, <1>19 DEF Chain
<1> QED
  BY <1>12, <1>20 DEF bs

\* The first batch of several is replaced.
LEMMA FirstReplaced ==
  ASSUME NEW s \in Seq(Batches), s # << >>, NEW b \in Batches
  PROVE  /\ [s EXCEPT ![1] = b] \in Seq(Batches) /\ Len([s EXCEPT ![1] = b]) = Len(s)
         /\ [s EXCEPT ![1] = b][1] = b /\ s[1] \in Batches /\ Len(s) \in Nat \ {0}
         /\ \A i \in 2 .. Len(s) : [s EXCEPT ![1] = b][i] = s[i]
OBVIOUS

\* What is left begins with the inputs to go on with.
LEMMA LeftFacts ==
  ASSUME TypeInv, NEW d \in Drps
  PROVE  /\ Left(d) \in Seq(Batches) /\ delivered[d] \in Seq(Pids)
         /\ Current(d) = << >> <=> Left(d) = << >>
         /\ Current(d) # << >> => Left(d)[1] = Current(d) /\ Tail(Left(d)) = Tail(pending[d])
<1>1. /\ inputs[d] \in Seq(Pids) /\ pending[d] \in Seq(Batches) /\ delivered[d] \in Seq(Pids)
      /\ inputs[d] # << >> => pending[d] # << >> /\ inputs[d] \in Batches
  BY DEF TypeInv, Batches
<1>2. \A b \in Batches : b # << >>
  BY DEF Batches
<1>3. ASSUME NEW s \in Seq(Batches), s # << >>, NEW b \in Batches
      PROVE  /\ [s EXCEPT ![1] = b] \in Seq(Batches) /\ [s EXCEPT ![1] = b] # << >>
             /\ [s EXCEPT ![1] = b][1] = b /\ Tail([s EXCEPT ![1] = b]) = Tail(s)
             /\ s[1] \in Batches /\ Head(s) = s[1]
  <2>1. /\ [s EXCEPT ![1] = b] \in Seq(Batches) /\ Len([s EXCEPT ![1] = b]) = Len(s)
        /\ [s EXCEPT ![1] = b][1] = b /\ s[1] \in Batches /\ Len(s) \in Nat \ {0}
        /\ \A i \in 2 .. Len(s) : [s EXCEPT ![1] = b][i] = s[i]
    BY <1>3, FirstReplaced
  <2>2. PICK z \in Seq(Batches) : z = [s EXCEPT ![1] = b]
    BY <2>1
  <2>3. z # << >> /\ Len(z) = Len(s) /\ \A i \in 2 .. Len(s) : z[i] = s[i]
    BY <2>1, <2>2
  <2>4. /\ Tail(z) \in Seq(Batches) /\ Len(Tail(z)) = Len(s) - 1
        /\ \A i \in 1 .. Len(s) - 1 : Tail(z)[i] = s[i + 1]
    BY <2>1, <2>3
  <2>5. /\ Tail(s) \in Seq(Batches) /\ Len(Tail(s)) = Len(s) - 1
        /\ \A i \in 1 .. Len(s) - 1 : Tail(s)[i] = s[i + 1]
    BY <1>3
  <2>6. Tail(z) = Tail(s)
    BY <2>4, <2>5, SeqEqual
  <2> QED
    BY <2>1, <2>2, <2>3, <2>6
<1>4. CASE inputs[d] # << >>
  <2>1. Left(d) = [pending[d] EXCEPT ![1] = inputs[d]] /\ Current(d) = inputs[d]
    BY <1>4 DEF Left, Current
  <2> QED
    BY <1>1, <1>3, <1>4, <2>1
<1>5. CASE inputs[d] = << >> /\ pending[d] # << >>
  <2>1. Left(d) = pending[d] /\ Current(d) = Head(pending[d])
    BY <1>5 DEF Left, Current
  <2>2. Head(pending[d]) = pending[d][1] /\ pending[d][1] \in Batches
    BY <1>1, <1>5
  <2> QED
    BY <1>1, <1>2, <1>5, <2>1, <2>2
<1>6. CASE inputs[d] = << >> /\ pending[d] = << >>
  BY <1>1, <1>6 DEF Left, Current
<1> QED
  BY <1>4, <1>5, <1>6

\* The batches that leave follow what is left.
LEMMA CollectLeft ==
  ASSUME Whole, TypeInv, KindInv, OpenInv, NEW d \in Drps, NEW p \in Pids, Collect(d, p)
  PROVE  Left(d)' = Left(d) \o Sent(d, p)
<1>1. PICK s \in Seq(Batches) : s = Sent(d, p)
  BY CollectBatches
<1>2. [i \in DOMAIN s |-> Visible(d, s[i])] = s
  <2>1. \A i \in DOMAIN Sent(d, p) : Leaves(d, p, Sent(d, p)[i])
    BY CollectBatches
  <2>2. \A i \in DOMAIN s : s[i] \in Batches /\ Visible(d, s[i]) = s[i]
    BY <1>1, <2>1, VisibleWhole
  <2>3. [i \in DOMAIN s |-> Visible(d, s[i])] = [i \in DOMAIN s |-> s[i]]
    BY <2>2
  <2> QED
    BY <2>3
<1>3. /\ pending' = [pending EXCEPT ![d] =
                       @ \o [i \in DOMAIN Sent(d, p) |-> Visible(d, Sent(d, p)[i])]]
      /\ pending[d] # << >> => pending'[d] # << >>
  BY CollectType
<1>4. /\ pending \in [Drps -> Seq(Batches)] /\ pending[d] \in Seq(Batches)
      /\ inputs[d] # << >> => pending[d] # << >> /\ inputs[d] \in Batches
      /\ inputs' = inputs
  BY DEF TypeInv, Batches, Collect
<1>5. pending'[d] = pending[d] \o s
  BY <1>1, <1>2, <1>3, <1>4
<1>6. CASE inputs[d] = << >>
  BY <1>1, <1>4, <1>5, <1>6 DEF Left
<1>7. CASE inputs[d] # << >>
  <2>1. PICK x \in Batches : x = inputs[d]
    BY <1>4, <1>7
  <2>2. PICK w \in Seq(Batches) : w = pending[d] /\ w # << >>
    BY <1>4, <1>7
  <2>3. Left(d)' = [w \o s EXCEPT ![1] = x] /\ Left(d) = [w EXCEPT ![1] = x]
    BY <1>4, <1>5, <1>7, <2>1, <2>2 DEF Left
  <2>4. w \o s \in Seq(Batches) /\ Len(w \o s) = Len(w) + Len(s) /\ Len(w) \in Nat \ {0}
        /\ Len(s) \in Nat
    BY <2>2, ConcatProperties
  <2> DEFINE v == [w EXCEPT ![1] = x]
             z == w \o s
             y == [z EXCEPT ![1] = x]
  <2>5. v \in Seq(Batches) /\ Len(v) = Len(w) /\ v[1] = x /\ \A i \in 2 .. Len(w) : v[i] = w[i]
    BY <2>2, FirstReplaced
  <2>6. z \in Seq(Batches) /\ z # << >> /\ Len(z) = Len(w) + Len(s)
    <3>1. \A m, n \in Nat : m # 0 => m + n # 0
      OBVIOUS
    <3>2. Len(z) # 0
      BY <2>4, <3>1
    <3> HIDE DEF z
    <3>3. Len(<< >>) = 0
      OBVIOUS
    <3> QED
      BY <2>4, <3>2, <3>3 DEF z
  <2>7. y \in Seq(Batches) /\ Len(y) = Len(z) /\ y[1] = x /\ \A i \in 2 .. Len(z) : y[i] = z[i]
    <3> HIDE DEF z
    <3> QED
      BY <2>6, FirstReplaced
  <2>8. \A i \in 1 .. Len(w) + Len(s) : z[i] = IF i <= Len(w) THEN w[i] ELSE s[i - Len(w)]
    BY ConcatProperties
  <2>9. /\ v \o s \in Seq(Batches) /\ Len(v \o s) = Len(v) + Len(s)
        /\ \A i \in 1 .. Len(v) + Len(s) :
             (v \o s)[i] = IF i <= Len(v) THEN v[i] ELSE s[i - Len(v)]
    <3> HIDE DEF v
    <3> QED
      BY <2>5, ConcatProperties
  <2> HIDE DEF v, z, y
  <2>10. Len(y) = Len(v \o s)
    BY <2>4, <2>5, <2>6, <2>7, <2>9
  <2>11. ASSUME NEW i \in 1 .. Len(y)
         PROVE  y[i] = (v \o s)[i]
    <3>1. CASE i = 1
      BY <2>4, <2>5, <2>7, <2>9, <2>10, <3>1
    <3>2. CASE i # 1 /\ i <= Len(w)
      <4>1. i \in 2 .. Len(w) /\ i \in 2 .. Len(z) /\ i \in 1 .. Len(w) + Len(s)
        BY <2>4, <2>6, <2>7, <3>2
      <4> QED
        BY <2>5, <2>7, <2>8, <2>9, <3>2, <4>1
    <3>3. CASE ~(i <= Len(w))
      <4>1. i \in 2 .. Len(z) /\ i \in 1 .. Len(w) + Len(s)
        BY <2>4, <2>6, <2>7, <3>3
      <4> QED
        BY <2>5, <2>7, <2>8, <2>9, <3>3, <4>1
    <3> QED
      BY <3>1, <3>2, <3>3
  <2>12. y = v \o s
    BY <2>7, <2>9, <2>10, <2>11, SeqEqual
  <2> QED
    BY <1>1, <2>3, <2>12 DEF v, z, y
<1> QED
  BY <1>6, <1>7

\* What is left does not depend on how far the first batch was unpacked.
LEMMA DoneLeft ==
  ASSUME TypeInv, NEW d \in Drps, inputs'[d] = Current(d), pending'[d] = pending[d]
  PROVE  Left(d)' = Left(d)
<1>1. pending[d] \in Seq(Batches)
  BY DEF TypeInv
<1>2. \A b \in Batches : b # << >>
  BY DEF Batches
<1>3. CASE inputs[d] # << >>
  BY <1>3 DEF Left, Current
<1>4. CASE inputs[d] = << >> /\ pending[d] = << >>
  BY <1>4 DEF Left, Current
<1>5. CASE inputs[d] = << >> /\ pending[d] # << >>
  <2>1. Current(d) = pending[d][1] /\ pending[d][1] \in Batches
    BY <1>1, <1>5 DEF Current
  <2>2. Left(d)' = [pending[d] EXCEPT ![1] = pending[d][1]] /\ Left(d) = pending[d]
    BY <1>2, <1>5, <2>1 DEF Left
  <2> QED
    BY <1>1, <1>5, <2>2
<1> QED
  BY <1>3, <1>4, <1>5

LEMMA ChainPrime ==
  ASSUME groups' = groups,
         \A d \in Drps : Chain(d, delivered'[d], Left(d)', open'[d], read'[d])
  PROVE  ChainInv'
<1>1. ASSUME NEW d \in Drps
      PROVE  Chain(d, delivered[d], Left(d), open[d], read[d])'
  <2>1. Chain(d, delivered'[d], Left(d)', open'[d], read'[d])
    OBVIOUS
  <2> QED
    BY <2>1 DEF Chain, Inputs, InCommon, Increasing
<1> QED
  BY <1>1 DEF ChainInv

\* A step that only moves what is left of d to what was delivered.
LEMMA ChainOthers ==
  ASSUME ChainInv, NEW d \in Drps, UNCHANGED <<groups, read, open>>,
         \A e \in Drps : e # d => UNCHANGED <<delivered[e], inputs[e], pending[e]>>,
         Chain(d, delivered'[d], Left(d)', open[d], read[d])
  PROVE  ChainInv'
<1>1. ASSUME NEW e \in Drps
      PROVE  Chain(e, delivered'[e], Left(e)', open'[e], read'[e])
  <2>1. CASE e = d
    BY <2>1
  <2>2. CASE e # d
    <3>1. Left(e)' = Left(e) /\ delivered'[e] = delivered[e]
      BY <2>2 DEF Left
    <3> QED
      BY <3>1 DEF ChainInv
  <2> QED
    BY <2>1, <2>2
<1> QED
  BY <1>1, ChainPrime

LEMMA ChainStep ==
  ASSUME Whole, PlaceInv, ChainInv, Next
  PROVE  ChainInv'
<1>0. /\ inputs \in [Drps -> Seq(Pids)] /\ pending \in [Drps -> Seq(Batches)]
      /\ delivered \in [Drps -> Seq(Pids)] /\ read \in [Drps -> 0 .. MaxPid]
  BY DEF TypeInv
<1>1. ASSUME NEW d \in Drps, NEW p \in Pids, Collect(d, p)
      PROVE  ChainInv'
  <2>1. /\ groups' = groups /\ delivered' = delivered /\ inputs' = inputs
        /\ read' = [read EXCEPT ![d] = p]
    BY <1>1 DEF Collect, pulse
  <2>2. /\ open' = [open EXCEPT ![d] = open'[d]] /\ open \in [Drps -> Seq(Pids)]
    BY <1>1, CollectCases DEF TypeInv
  <2>3. \A e \in Drps : e # d => pending'[e] = pending[e]
    BY <1>0, <1>1, CollectType
  <2>4. ASSUME NEW e \in Drps
        PROVE  Chain(e, delivered'[e], Left(e)', open'[e], read'[e])
    <3>1. CASE e = d
      <4>1. Chain(d, delivered[d], Left(d), open[d], read[d]) /\ Left(d) \in Seq(Batches)
        BY LeftFacts DEF ChainInv
      <4>2. Chain(d, delivered[d], Left(d) \o Sent(d, p), open'[d], p)
        BY <1>1, <4>1, ChainCollected
      <4>3. Left(d)' = Left(d) \o Sent(d, p)
        BY <1>1, CollectLeft
      <4>4. read'[d] = p
        BY <1>0, <2>1
      <4> QED
        BY <2>1, <3>1, <4>2, <4>3, <4>4
    <3>2. CASE e # d
      <4>1. Left(e)' = Left(e) /\ open'[e] = open[e] /\ read'[e] = read[e]
        BY <1>0, <2>1, <2>2, <2>3, <3>2 DEF Left
      <4> QED
        BY <2>1, <4>1 DEF ChainInv
    <3> QED
      BY <3>1, <3>2
  <2> QED
    BY <2>1, <2>4, ChainPrime
<1>2. ASSUME UNCHANGED <<groups, read, open, delivered, inputs, pending>>
      PROVE  ChainInv'
  <2>1. \A d \in Drps : Left(d)' = Left(d)
    BY <1>2 DEF Left
  <2> QED
    BY <1>2, <2>1, ChainPrime DEF ChainInv
<1>3. ASSUME NEW t \in Tebs, NEW p \in Pids, Build(t, p)
      PROVE  ChainInv'
  BY <1>2, <1>3, BuildBuilds
<1>4. ASSUME NEW t \in Tebs, Flush(t)
      PROVE  ChainInv'
  BY <1>2, <1>4 DEF Flush, pulse, drp
<1>5. ASSUME NEW d \in Drps, NEW t \in Tebs, Receive(d, t)
      PROVE  ChainInv'
  BY <1>2, <1>5 DEF Receive, pulse
<1>6. ASSUME NEW d \in Drps, Timeout(d)
      PROVE  ChainInv'
  BY <1>2, <1>6 DEF Timeout, pulse
<1>7. ASSUME NEW d \in Drps, Bypass(d)
      PROVE  ChainInv'
  <2>1. /\ UNCHANGED <<groups, read, open>> /\ Current(d) # << >> /\ ~InCommon(Current(d)[1])
        /\ delivered' = [delivered EXCEPT ![d] = Append(@, Current(d)[1])]
        /\ pending' = [pending EXCEPT ![d] = Tail(@)]
        /\ inputs' = [inputs EXCEPT ![d] = << >>]
    BY <1>7 DEF Bypass, pulse
  <2>2. /\ Left(d) \in Seq(Batches) /\ delivered[d] \in Seq(Pids) /\ Left(d) # << >>
        /\ Left(d)[1] = Current(d) /\ Tail(Left(d)) = Tail(pending[d])
    BY <2>1, LeftFacts
  <2>3. Chain(d, delivered[d], Left(d), open[d], read[d])
    BY DEF ChainInv
  <2>4. PICK b \in Batches : b = Current(d)
    BY <2>1, CurrentFacts
  <2>5. 1 \in DOMAIN b /\ b \in Seq(Pids) /\ 1 \in DOMAIN Left(d) /\ b[1] \in Pids
    <3>1. b \in Seq(Pids) /\ b # << >>
      BY BatchNat
    <3>2. 1 \in DOMAIN b /\ b[1] \in Pids
      BY <3>1
    <3>3. 1 \in DOMAIN Left(d)
      BY <2>2, TailCases
    <3> QED
      BY <3>1, <3>2, <3>3
  <2>6. Len(b) = 1
    BY <2>1, <2>2, <2>3, <2>4, <2>5 DEF Chain
  <2>7. b = <<b[1]>>
    BY <2>5, <2>6
  <2>8. Append(delivered[d], b[1]) = delivered[d] \o b
    <3>1. \A s \in Seq(Pids), x \in Pids : Append(s, x) = s \o <<x>>
      BY AppendIsConcat
    <3>2. Append(delivered[d], b[1]) = delivered[d] \o <<b[1]>>
      BY <2>2, <2>5, <3>1
    <3> QED
      BY <2>7, <3>2, Zenon
  <2>9. Chain(d, delivered[d] \o b, Tail(Left(d)), open[d], read[d])
    BY <2>2, <2>3, <2>4, ChainDelivered
  <2>10. /\ delivered'[d] = delivered[d] \o b /\ pending'[d] = Tail(Left(d)) /\ inputs'[d] = << >>
         /\ \A e \in Drps : e # d => UNCHANGED <<delivered[e], inputs[e], pending[e]>>
    BY <1>0, <2>1, <2>2, <2>4, <2>8
  <2>11. Left(d)' = Tail(Left(d))
    BY <2>10 DEF Left
  <2> QED
    BY <2>1, <2>9, <2>10, <2>11, ChainOthers
<1>8. ASSUME NEW d \in Drps, Match(d)
      PROVE  ChainInv'
  <2>1. PICK is \in Batches, rs \in Batches, rest \in Seq(Pids) :
          \E n \in 0 .. Len(is) : Turn(d, is, rs, n, rest)
    BY <1>8, MatchTurn
  <2>2. PICK n \in 0 .. Len(is) : Turn(d, is, rs, n, rest)
    BY <2>1
  <2>3. /\ is = Current(d) /\ pending[d] # << >> /\ UNCHANGED <<groups, read, open>>
        /\ delivered' = [delivered EXCEPT ![d] = @ \o SubSeq(is, 1, n)]
        /\ inputs' = [inputs EXCEPT ![d] = SubSeq(is, n + 1, Len(is))]
        /\ pending' = [pending EXCEPT ![d] = IF n = Len(is) THEN Tail(@) ELSE @]
    BY <2>2 DEF Turn
  <2>4. is \in Seq(Pids) /\ is # << >> /\ Len(is) \in Nat
    BY BatchNat
  <2>5. /\ Left(d) \in Seq(Batches) /\ delivered[d] \in Seq(Pids) /\ Left(d) # << >>
        /\ Left(d)[1] = is /\ Tail(Left(d)) = Tail(pending[d])
    BY <2>3, <2>4, LeftFacts
  <2>6. Chain(d, delivered[d], Left(d), open[d], read[d])
    BY DEF ChainInv
  <2>7. /\ delivered'[d] = delivered[d] \o SubSeq(is, 1, n)
        /\ inputs'[d] = SubSeq(is, n + 1, Len(is))
        /\ pending'[d] = IF n = Len(is) THEN Tail(pending[d]) ELSE pending[d]
        /\ \A e \in Drps : e # d => UNCHANGED <<delivered[e], inputs[e], pending[e]>>
    BY <1>0, <2>3
  <2>8. CASE n = Len(is)
    <3>1. SubSeq(is, 1, n) = is /\ SubSeq(is, n + 1, Len(is)) = << >>
      BY <2>4, <2>8
    <3>2. Left(d)' = Tail(Left(d))
      BY <2>5, <2>7, <2>8, <3>1 DEF Left
    <3>3. Chain(d, delivered[d] \o is, Tail(Left(d)), open[d], read[d])
      BY <2>5, <2>6, ChainDelivered
    <3>4. Chain(d, delivered'[d], Left(d)', open[d], read[d])
      BY <2>7, <3>1, <3>2, <3>3, Zenon
    <3>5. UNCHANGED <<groups, read, open>>
      BY <2>3
    <3> QED
      BY <2>7, <3>4, <3>5, ChainOthers, Zenon
  <2>9. CASE n < Len(is)
    <3>1. Increasing(is)
      BY <2>5, <2>6, TailCases DEF Chain
    <3>2. SubSeq(is, n + 1, Len(is)) \in Batches
      BY <2>9, <3>1, Parts
    <3>3. PICK z \in Batches : z = SubSeq(is, n + 1, Len(is)) /\ z # << >>
      BY <3>2 DEF Batches
    <3>4. n # Len(is)
      BY <2>4, <2>9
    <3>5. pending'[d] = pending[d] /\ inputs'[d] = z
      BY <2>7, <3>3, <3>4
    <3>6. Left(d)' = [pending[d] EXCEPT ![1] = z]
      BY <3>3, <3>5 DEF Left
    <3>7. [Left(d) EXCEPT ![1] = z] = [pending[d] EXCEPT ![1] = z]
      BY DEF Left
    <3>8. Chain(d, delivered[d] \o SubSeq(is, 1, n), [Left(d) EXCEPT ![1] = z], open[d], read[d])
      BY <2>5, <2>6, <2>9, <3>3, ChainPart
    <3>9. Chain(d, delivered'[d], Left(d)', open[d], read[d])
      BY <2>7, <3>6, <3>7, <3>8, Zenon
    <3>10. UNCHANGED <<groups, read, open>>
      BY <2>3
    <3> QED
      BY <2>7, <3>9, <3>10, ChainOthers, Zenon
  <2> QED
    BY <2>4, <2>8, <2>9
<1>9. ASSUME NEW d \in Drps, Done(d)
      PROVE  ChainInv'
  <2>1. /\ UNCHANGED <<groups, read, open, pending, delivered>>
        /\ inputs' = [inputs EXCEPT ![d] = Current(d)]
    BY <1>9 DEF Done, pulse
  <2>2. /\ inputs'[d] = Current(d) /\ pending'[d] = pending[d] /\ delivered'[d] = delivered[d]
        /\ \A e \in Drps : e # d => UNCHANGED <<delivered[e], inputs[e], pending[e]>>
    BY <1>0, <2>1
  <2>3. Left(d)' = Left(d)
    BY <2>2, DoneLeft
  <2>4. Chain(d, delivered'[d], Left(d)', open[d], read[d])
    BY <2>2, <2>3 DEF ChainInv
  <2> QED
    BY <2>1, <2>2, <2>4, ChainOthers
<1> QED
  BY <1>1, <1>3, <1>4, <1>5, <1>6, <1>7, <1>8, <1>9 DEF Next

-----------------------------------------------------------------------------
(***************************************************************************)
(* Results reach the DRPs                                                  *)
(***************************************************************************)

\* Events with contributions.
LEMMA InPending ==
  ASSUME NEW t \in Tebs, NEW p \in Pids
  PROVE  /\ TypeInv => (p \in Pending(t) <=> \E c \in Drps : <<c, p>> \in got[t])
         /\ TypeInv' => (p \in Pending(t)' <=> \E c \in Drps : <<c, p>> \in got'[t])
<1>1. ASSUME NEW G \in SUBSET (Drps \X Pids)
      PROVE  p \in {c[2] : c \in G} <=> \E c \in Drps : <<c, p>> \in G
  <2>1. ASSUME NEW x \in G, x[2] = p
        PROVE  \E c \in Drps : <<c, p>> \in G
    <3>1. x = <<x[1], p>> /\ x[1] \in Drps
      BY <2>1
    <3> QED
      BY <3>1, Zenon
  <2>2. ASSUME NEW c \in Drps, <<c, p>> \in G
        PROVE  p \in {x[2] : x \in G}
    BY <2>2
  <2> QED
    BY <2>1, <2>2
<1>2. TypeInv => got[t] \in SUBSET (Drps \X Pids)
  BY DEF TypeInv
<1>3. TypeInv' => got'[t] \in SUBSET (Drps \X Pids)
  BY DEF TypeInv
<1> QED
  BY <1>1, <1>2, <1>3 DEF Pending

\* A result that is held or on the wire stays so, until its batch arrives.
LEMMA SendsReach ==
  ASSUME TypeInv, NEW t \in Tebs, NEW new,
         NEW ys \in [Drps -> Seq(Batches)], NEW r \in Seq(Pids), Sends(t, new, ys, r),
         \A q \in new : Dst(q) = t /\ q \notin Range(result[t]),
         NEW d \in Drps, NEW p \in Pids,
         \/ p \in Range(result[Dst(p)]) /\ d \in dsts[Dst(p)]
         \/ \E k \in DOMAIN wire[Dst(p)][d] : p \in Range(wire[Dst(p)][d][k])
         \/ p \in new /\ d \in groups[p]
  PROVE  \/ p \in Range(result'[Dst(p)]) /\ d \in dsts'[Dst(p)]
         \/ \E k \in DOMAIN wire'[Dst(p)][d] : p \in Range(wire'[Dst(p)][d][k])
<1>0. /\ wire \in [Tebs -> [Drps -> Seq(Batches)]] /\ result \in [Tebs -> Seq(Pids)]
      /\ dsts \in [Tebs -> SUBSET Drps] /\ Dst(p) \in Tebs
      /\ wire' = [wire EXCEPT ![t] = [c \in Drps |-> wire[t][c] \o ys[c]]]
      /\ result' = [result EXCEPT ![t] = r] /\ dsts' = [dsts EXCEPT ![t] = dsts'[t]]
  BY DstTeb DEF TypeInv, Sends
<1>1. CASE Dst(p) # t
  <2>1. /\ result'[Dst(p)] = result[Dst(p)] /\ dsts'[Dst(p)] = dsts[Dst(p)]
        /\ wire'[Dst(p)] = wire[Dst(p)]
    BY <1>0, <1>1
  <2> QED
    BY <1>1, <2>1
<1>2. CASE Dst(p) = t
  <2>1. /\ result'[t] = r /\ wire'[t][d] = wire[t][d] \o ys[d]
        /\ wire[t][d] \in Seq(Batches) /\ ys[d] \in Seq(Batches)
    BY <1>0, SMTT(30)
  <2>2. PICK w \in Seq(Batches), y \in Seq(Batches) : w = wire[t][d] /\ y = ys[d]
    BY <2>1
  <2>3. /\ \A k \in DOMAIN w : k \in DOMAIN (w \o y) /\ (w \o y)[k] = w[k]
        /\ \A i \in DOMAIN y : Len(w) + i \in DOMAIN (w \o y) /\ (w \o y)[Len(w) + i] = y[i]
    BY ConcatCases
  <2>4. CASE \E k \in DOMAIN w : p \in Range(w[k])
    BY <1>2, <2>1, <2>2, <2>3, <2>4
  <2>5. CASE \E i \in DOMAIN y : p \in Range(y[i])
    BY <1>2, <2>1, <2>2, <2>3, <2>5
  <2>6. CASE (p \in Range(result[t]) /\ d \in dsts[t]) \/ (p \in new /\ d \in groups[p])
    <3>1. \/ \E i \in DOMAIN ys[d] : p \in Range(ys[d][i])
          \/ p \in Range(r) /\ d \in dsts'[t]
      BY <2>6 DEF Sends
    <3> QED
      BY <1>2, <2>1, <2>2, <2>5, <3>1
  <2> QED
    BY <1>2, <2>2, <2>4, <2>6
<1> QED
  BY <1>1, <1>2

\* ReachInv in terms of the step that is taken.
LEMMA ReachPrime ==
  ASSUME ReachInv, TypeInv, groups' = groups,
         \A d \in Drps, p \in Pids :
           /\ d \in groups[p] /\ InCommon(p)
           /\ \/ p \in Range(delivered[d]) \/ Reaches(d, p)
              \/ \E c \in Contractors \cap groups[p] : ~Past(c, p)
           => \/ p \in Range(delivered'[d]) \/ p \in Pending(Dst(p))'
              \/ p \in Range(result'[Dst(p)]) /\ d \in dsts'[Dst(p)]
              \/ \E k \in DOMAIN wire'[Dst(p)][d] : p \in Range(wire'[Dst(p)][d][k])
              \/ \E rs \in deferred'[d] : p \in Range(rs)
              \/ \E c \in Contractors \cap groups[p] : ~Past(c, p)'
  PROVE  ReachInv'
<1>1. ASSUME NEW d \in Drps, NEW p \in Pids, d \in groups[p], InCommon(p)
      PROVE  \/ p \in Range(delivered'[d]) \/ Reaches(d, p)'
             \/ \E c \in Contractors \cap groups[p] : ~Past(c, p)'
  <2>1. \/ p \in Range(delivered[d]) \/ Reaches(d, p)
        \/ \E c \in Contractors \cap groups[p] : ~Past(c, p)
    BY <1>1 DEF ReachInv
  <2>2. \/ p \in Range(delivered'[d])
        \/ p \in Pending(Dst(p))'
        \/ p \in Range(result'[Dst(p)]) /\ d \in dsts'[Dst(p)]
        \/ \E k \in DOMAIN wire'[Dst(p)][d] : p \in Range(wire'[Dst(p)][d][k])
        \/ \E rs \in deferred'[d] : p \in Range(rs)
        \/ \E c \in Contractors \cap groups[p] : ~Past(c, p)'
    BY <1>1, <2>1
  <2>3. Dst(p)' = Dst(p)
    BY DEF Dst, Epoch
  <2> QED
    BY <2>2, <2>3 DEF Reaches
<1>2. \A p : InCommon(p)' <=> InCommon(p)
  BY DEF InCommon
<1> QED
  BY <1>1, <1>2 DEF ReachInv

LEMMA CollectReach ==
  ASSUME Whole, PlaceInv, ReachInv, NEW e \in Drps, NEW x \in Pids, Collect(e, x), TypeInv'
  PROVE  ReachInv'
<1>1. /\ UNCHANGED <<groups, delivered, result, dsts, wire, deferred>> /\ e \in groups[x]
      /\ \A q \in Pids : read[e] < q /\ q < x => e \notin groups[q]
      /\ read[e] \in Nat /\ x \in Nat /\ read' = [read EXCEPT ![e] = x]
  BY ResultsAssumption DEF Collect, pulse, TypeInv, Pids
<1>2. ASSUME NEW d \in Drps, NEW p \in Pids, d \in groups[p], InCommon(p),
             \/ p \in Range(delivered[d]) \/ Reaches(d, p)
             \/ \E c \in Contractors \cap groups[p] : ~Past(c, p)
      PROVE  \/ p \in Range(delivered'[d]) \/ p \in Pending(Dst(p))'
             \/ p \in Range(result'[Dst(p)]) /\ d \in dsts'[Dst(p)]
             \/ \E k \in DOMAIN wire'[Dst(p)][d] : p \in Range(wire'[Dst(p)][d][k])
             \/ \E rs \in deferred'[d] : p \in Range(rs)
             \/ \E c \in Contractors \cap groups[p] : ~Past(c, p)'
  <2>1. CASE p \in Pending(Dst(p))
    <3>1. PICK c \in Drps : <<c, p>> \in got[Dst(p)]
      BY <2>1, DstTeb, InPending
    <3>2. <<c, p>> \in got'[Dst(p)]
      BY <3>1, CollectGot, DstTeb
    <3> QED
      BY <3>2, DstTeb, InPending
  <2>2. ASSUME NEW c \in Contractors \cap groups[p], ~Past(c, p), Past(c, p)'
        PROVE  p \in Pending(Dst(p))'
    <3>1. c \in Drps /\ c = e /\ (p <= x => p \notin Range(open'[e]))
      BY <2>2, ResultsAssumption, CollectPast
    <3>2. p <= x
      BY <1>1, <2>2, <3>1 DEF Past, TypeInv
    <3>3. p \in Range(open[e]) \cup {x}
      <4>1. CASE p > read[e]
        <5>1. p \in Nat
          BY ResultsAssumption DEF Pids
        <5>2. ~(p < x)
          BY <1>1, <2>2, <3>1, <4>1
        <5> QED
          BY <1>1, <3>2, <5>1, <5>2
      <4>2. CASE ~(p > read[e])
        <5>1. p \in Nat
          BY ResultsAssumption DEF Pids
        <5>2. p <= read[e]
          BY <1>1, <4>2, <5>1
        <5> QED
          BY <2>2, <3>1, <5>2 DEF Past
      <4> QED
        BY <4>1, <4>2
    <3>4. <<e, p>> \in got'[Dst(p)]
      BY <1>2, <2>2, <3>1, <3>2, <3>3, CollectGot
    <3> QED
      BY <3>4, DstTeb, InPending
  <2> QED
    BY <1>1, <1>2, <2>1, <2>2 DEF Reaches
<1> QED
  BY <1>1, <1>2, ReachPrime

LEMMA BuildReach ==
  ASSUME PlaceInv, ReachInv, NEW t \in Tebs, NEW x \in Pids, Build(t, x), TypeInv'
  PROVE  ReachInv'
<1>1. /\ got' = [got EXCEPT ![t] = @ \ (Drps \X {x})]
      /\ UNCHANGED <<groups, read, open, deferred, delivered>>
      /\ Dst(x) = t => x \notin Range(result[t])
      /\ got \in [Tebs -> SUBSET (Drps \X Pids)]
  BY BuildBuilds DEF TypeInv
<1>2. ASSUME NEW d \in Drps, NEW p \in Pids, d \in groups[p], InCommon(p),
             \/ p \in Range(delivered[d]) \/ Reaches(d, p)
             \/ \E c \in Contractors \cap groups[p] : ~Past(c, p)
      PROVE  \/ p \in Range(delivered'[d]) \/ p \in Pending(Dst(p))'
             \/ p \in Range(result'[Dst(p)]) /\ d \in dsts'[Dst(p)]
             \/ \E k \in DOMAIN wire'[Dst(p)][d] : p \in Range(wire'[Dst(p)][d][k])
             \/ \E rs \in deferred'[d] : p \in Range(rs)
             \/ \E c \in Contractors \cap groups[p] : ~Past(c, p)'
  <2>1. ASSUME NEW c \in Contractors \cap groups[p], ~Past(c, p)
        PROVE  ~Past(c, p)'
    BY <1>1, <2>1 DEF Past
  <2>2. CASE p \in Pending(Dst(p)) /\ ~(p = x /\ Dst(p) = t)
    <3>1. PICK c \in Drps : <<c, p>> \in got[Dst(p)]
      BY <2>2, DstTeb, InPending
    <3>2. <<c, p>> \in got'[Dst(p)]
      <4>1. Dst(p) \in Tebs
        BY DstTeb
      <4>2. CASE Dst(p) # t
        BY <1>1, <3>1, <4>1, <4>2
      <4>3. CASE Dst(p) = t
        <5>1. <<c, p>> \notin Drps \X {x}
          BY <2>2, <4>3
        <5> QED
          BY <1>1, <3>1, <4>3, <5>1
      <4> QED
        BY <4>2, <4>3
    <3> QED
      BY <3>2, DstTeb, InPending
  <2>3. CASE \/ p \in Range(result[Dst(p)]) /\ d \in dsts[Dst(p)]
             \/ \E k \in DOMAIN wire[Dst(p)][d] : p \in Range(wire[Dst(p)][d][k])
             \/ p = x /\ Dst(p) = t
    <3> DEFINE new == IF Dst(x) = t THEN {x} ELSE {}
    <3>1. CASE Dst(x) # t /\ UNCHANGED <<wire, result, dsts>>
      BY <2>3, <3>1
    <3>2. ASSUME NEW ys \in [Drps -> Seq(Batches)], NEW r \in Seq(Pids), Sends(t, new, ys, r)
          PROVE  \/ p \in Range(result'[Dst(p)]) /\ d \in dsts'[Dst(p)]
                 \/ \E k \in DOMAIN wire'[Dst(p)][d] : p \in Range(wire'[Dst(p)][d][k])
      <4>1. \A q \in new : Dst(q) = t /\ q \notin Range(result[t])
        BY <1>1
      <4>2. p = x /\ Dst(p) = t => p \in new
        OBVIOUS
      <4> HIDE DEF new
      <4> QED
        BY <1>2, <2>3, <3>2, <4>1, <4>2, SendsReach
    <3>3. \/ \E ys \in [Drps -> Seq(Batches)], r \in Seq(Pids) : Sends(t, new, ys, r)
          \/ Dst(x) # t /\ UNCHANGED <<wire, result, dsts>>
      BY <1>1, BuildSends
    <3> HIDE DEF new
    <3> QED
      BY <3>1, <3>2, <3>3
  <2> QED
    BY <1>1, <1>2, <2>1, <2>2, <2>3 DEF Reaches
<1> QED
  BY <1>1, <1>2, ReachPrime

LEMMA FlushReach ==
  ASSUME PlaceInv, ReachInv, NEW t \in Tebs, Flush(t), TypeInv'
  PROVE  ReachInv'
<1>1. /\ UNCHANGED <<groups, read, open, deferred, delivered, got>>
      /\ result[t] # << >> /\ Send(t, <<result[t]>>, dsts[t])
      /\ result' = [result EXCEPT ![t] = << >>] /\ dsts' = [dsts EXCEPT ![t] = {}]
  BY DEF Flush, pulse, drp
<1>2. PICK ys \in [Drps -> Seq(Batches)], r \in Seq(Pids) : Sends(t, {}, ys, r)
  BY <1>1, PostSends
<1>3. ASSUME NEW d \in Drps, NEW p \in Pids, d \in groups[p], InCommon(p),
             \/ p \in Range(delivered[d]) \/ Reaches(d, p)
             \/ \E c \in Contractors \cap groups[p] : ~Past(c, p)
      PROVE  \/ p \in Range(delivered'[d]) \/ p \in Pending(Dst(p))'
             \/ p \in Range(result'[Dst(p)]) /\ d \in dsts'[Dst(p)]
             \/ \E k \in DOMAIN wire'[Dst(p)][d] : p \in Range(wire'[Dst(p)][d][k])
             \/ \E rs \in deferred'[d] : p \in Range(rs)
             \/ \E c \in Contractors \cap groups[p] : ~Past(c, p)'
  <2>1. ASSUME NEW c \in Contractors \cap groups[p], ~Past(c, p)
        PROVE  ~Past(c, p)'
    BY <1>1, <2>1 DEF Past
  <2>2. CASE p \in Pending(Dst(p))
    BY <1>1, <2>2, DstTeb, InPending
  <2>3. CASE \/ p \in Range(result[Dst(p)]) /\ d \in dsts[Dst(p)]
             \/ \E k \in DOMAIN wire[Dst(p)][d] : p \in Range(wire[Dst(p)][d][k])
    <3> DEFINE new == {}
    <3>1. Sends(t, new, ys, r) /\ \A q \in new : Dst(q) = t /\ q \notin Range(result[t])
      BY <1>2
    <3> HIDE DEF new
    <3>2. \/ p \in Range(result'[Dst(p)]) /\ d \in dsts'[Dst(p)]
          \/ \E k \in DOMAIN wire'[Dst(p)][d] : p \in Range(wire'[Dst(p)][d][k])
      BY <2>3, <3>1, SendsReach
    <3> QED
      BY <3>2
  <2> QED
    BY <1>1, <1>3, <2>1, <2>2, <2>3 DEF Reaches
<1> QED
  BY <1>1, <1>3, ReachPrime

LEMMA ReceiveReach ==
  ASSUME PlaceInv, ReachInv, NEW e \in Drps, NEW u \in Tebs, Receive(e, u), TypeInv'
  PROVE  ReachInv'
<1>1. /\ UNCHANGED <<groups, read, open, delivered, got, result, dsts>>
      /\ wire \in [Tebs -> [Drps -> Seq(Batches)]] /\ deferred \in [Drps -> SUBSET Batches]
      /\ wire[u][e] \in Seq(Batches) /\ wire[u][e] # << >>
      /\ deferred' = [deferred EXCEPT ![e] = @ \cup {Head(wire[u][e])}]
      /\ wire' = [wire EXCEPT ![u][e] = Tail(@)]
  BY SMTT(30) DEF Receive, TypeInv, pulse
<1>2. PICK w \in Seq(Batches) : w = wire[u][e] /\ w # << >>
  BY <1>1
<1>3. Head(w) = w[1] /\ \A k \in DOMAIN w :
        k = 1 \/ (k - 1 \in DOMAIN Tail(w) /\ Tail(w)[k - 1] = w[k])
  BY <1>2, TailCases
<1>4. /\ wire'[u][e] = Tail(w)
      /\ \A t \in Tebs, d \in Drps : t # u \/ d # e => wire'[t][d] = wire[t][d]
      /\ deferred'[e] = deferred[e] \cup {w[1]}
      /\ \A d \in Drps : deferred[d] \subseteq deferred'[d]
  BY <1>1, <1>2, <1>3
<1>5. ASSUME NEW d \in Drps, NEW p \in Pids, d \in groups[p], InCommon(p),
             \/ p \in Range(delivered[d]) \/ Reaches(d, p)
             \/ \E c \in Contractors \cap groups[p] : ~Past(c, p)
      PROVE  \/ p \in Range(delivered'[d]) \/ p \in Pending(Dst(p))'
             \/ p \in Range(result'[Dst(p)]) /\ d \in dsts'[Dst(p)]
             \/ \E k \in DOMAIN wire'[Dst(p)][d] : p \in Range(wire'[Dst(p)][d][k])
             \/ \E rs \in deferred'[d] : p \in Range(rs)
             \/ \E c \in Contractors \cap groups[p] : ~Past(c, p)'
  <2>1. ASSUME NEW c \in Contractors \cap groups[p], ~Past(c, p)
        PROVE  ~Past(c, p)'
    BY <1>1, <2>1 DEF Past
  <2>2. CASE p \in Pending(Dst(p))
    BY <1>1, <2>2, DstTeb, InPending
  <2>3. ASSUME NEW k \in DOMAIN wire[Dst(p)][d], p \in Range(wire[Dst(p)][d][k])
        PROVE  \/ \E l \in DOMAIN wire'[Dst(p)][d] : p \in Range(wire'[Dst(p)][d][l])
               \/ \E rs \in deferred'[d] : p \in Range(rs)
    <3>1. CASE Dst(p) = u /\ d = e
      <4>1. k \in DOMAIN w /\ p \in Range(w[k])
        BY <1>2, <2>3, <3>1
      <4>2. CASE k = 1
        BY <1>4, <3>1, <4>1, <4>2
      <4>3. CASE k - 1 \in DOMAIN Tail(w) /\ Tail(w)[k - 1] = w[k]
        BY <1>4, <3>1, <4>1, <4>3, Zenon
      <4> QED
        BY <1>3, <4>1, <4>2, <4>3
    <3>2. CASE Dst(p) # u \/ d # e
      BY <1>4, <2>3, <3>2, DstTeb
    <3> QED
      BY <3>1, <3>2
  <2>4. CASE \E rs \in deferred[d] : p \in Range(rs)
    BY <1>4, <2>4
  <2> QED
    BY <1>1, <1>5, <2>1, <2>2, <2>3, <2>4 DEF Reaches
<1> QED
  BY <1>1, <1>5, ReachPrime

\* A result is only discarded when the input it is of is through.
LEMMA Discarded ==
  ASSUME PlaceInv, ChainInv, NEW d \in Drps, NEW is \in Batches, NEW rs \in Batches,
         NEW n \in 0 .. Len(is), NEW rest \in Seq(Pids), Turn(d, is, rs, n, rest),
         NEW p \in Pids, d \in groups[p], p \in Range(rs), p \notin Range(rest)
  PROVE  p \in Range(delivered[d]) \/ \E k \in 1 .. n : p = is[k]
<1>1. /\ is = Current(d) /\ n = Matched(is, rs) /\ rest = Rest(is, rs)
  BY DEF Turn
<1>2. is \in Seq(Pids) /\ is # << >> /\ Len(is) \in Nat \ {0} /\ DOMAIN is = 1 .. Len(is)
  BY BatchNat
<1>3. Left(d) \in Seq(Batches) /\ Left(d) # << >> /\ Left(d)[1] = is
  BY <1>1, <1>2, LeftFacts
<1>4. 1 \in DOMAIN Left(d) /\ \A i \in DOMAIN Left(d) : i # 1 => 1 < i
  BY <1>3, TailCases
<1>5. Chain(d, delivered[d], Left(d), open[d], read[d])
  BY DEF ChainInv
<1> DEFINE m == IF n = Len(is) THEN n ELSE n + 1
<1>6. /\ m \in DOMAIN is /\ p <= is[m] /\ n \in Nat
      /\ n = Len(is) \/ (m = n + 1 /\ is[m] \notin Range(rs))
      /\ \A k \in DOMAIN is : ~(m < k) /\ (n = Len(is) \/ k # m) => k \in 1 .. n
  <2>1. p <= IF n = Len(is) THEN is[Len(is)] ELSE is[n + 1]
    BY <1>1, RestFacts
  <2>2. n < Len(is) => is[n + 1] \notin Range(rs)
    BY <1>1, MatchedFacts
  <2>3. /\ n \in Nat /\ (n = Len(is) \/ n < Len(is))
        /\ n = Len(is) => n \in 1 .. Len(is)
        /\ n < Len(is) =>
             /\ n # Len(is) /\ n + 1 \in 1 .. Len(is)
             /\ \A j \in 1 .. Len(is) : ~(n + 1 < j) /\ j # n + 1 => j \in 1 .. n
    <3>1. \A L \in Nat \ {0} : \A k \in 0 .. L :
            /\ k \in Nat /\ (k = L \/ k < L)
            /\ k = L => k \in 1 .. L
            /\ k < L => /\ k # L /\ k + 1 \in 1 .. L
                       /\ \A j \in 1 .. L : ~(k + 1 < j) /\ j # k + 1 => j \in 1 .. k
      OBVIOUS
    <3> QED
      BY <1>2, <3>1, Zenon
  <2>4. CASE n = Len(is)
    <3>1. m = n /\ n \in 1 .. Len(is)
      BY <2>3, <2>4
    <3>2. p <= is[n]
      BY <2>1, <2>4
    <3>3. \A k \in DOMAIN is : k \in 1 .. n
      BY <1>2, <2>4
    <3> HIDE DEF m
    <3> QED
      BY <1>2, <2>3, <2>4, <3>1, <3>2, <3>3
  <2>5. CASE n < Len(is)
    <3>1. n # Len(is)
      BY <2>3, <2>5
    <3>2. m = n + 1 /\ p <= is[n + 1]
      BY <2>1, <3>1
    <3>3. n + 1 \in 1 .. Len(is)
      BY <2>3, <2>5
    <3>4. \A k \in 1 .. Len(is) : ~(n + 1 < k) /\ k # n + 1 => k \in 1 .. n
      BY <2>3, <2>5
    <3> HIDE DEF m
    <3> QED
      BY <1>2, <2>2, <2>3, <2>5, <3>2, <3>3, <3>4, Zenon
  <2> QED
    BY <2>3, <2>4, <2>5
<1> HIDE DEF m
<1>7. is[m] \in Range(is) /\ is[m] \in Nat /\ p \in Nat /\ p >= 1
  <2>1. is[m] \in Range(is)
    BY <1>6 DEF Range
  <2>2. Range(is) \subseteq Nat
    BY <1>2, BatchNat
  <2>3. p \in Nat /\ p >= 1
    BY ResultsAssumption DEF Pids
  <2> QED
    BY <2>1, <2>2, <2>3
<1>8. is[m] \in Inputs(d, read[d])
  BY <1>3, <1>4, <1>5, <1>7 DEF Chain
<1>9. p \in Inputs(d, read[d])
  BY <1>6, <1>7, <1>8 DEF Inputs, TypeInv
<1>10. p \notin Range(open[d])
  <2>1. \A q \in Range(open[d]) : is[m] < q
    BY <1>3, <1>4, <1>5, <1>7 DEF Chain
  <2> QED
    BY <1>6, <1>7, <2>1
<1>11. ASSUME NEW i \in DOMAIN Left(d), p \in Range(Left(d)[i])
       PROVE  \E k \in 1 .. n : p = is[k]
  <2>1. i = 1
    <3>1. \A j \in DOMAIN Left(d) : 1 < j => \A q \in Range(Left(d)[j]) : is[m] < q
      BY <1>3, <1>4, <1>5, <1>7 DEF Chain
    <3> QED
      BY <1>4, <1>6, <1>7, <1>11, <3>1
  <2>2. PICK k \in DOMAIN is : p = is[k]
    BY <1>3, <1>11, <2>1 DEF Range
  <2>3. ~(m < k)
    <3>1. Increasing(is)
      BY <1>3, <1>4, <1>5 DEF Chain
    <3> QED
      BY <1>6, <1>7, <2>2, <3>1 DEF Increasing
  <2>4. n = Len(is) \/ k # m
    BY <1>6, <2>2
  <2>5. k \in 1 .. n
    BY <1>6, <2>2, <2>3, <2>4
  <2> QED
    BY <2>2, <2>5
<1> QED
  BY <1>5, <1>9, <1>10, <1>11 DEF Chain

LEMMA MatchReach ==
  ASSUME PlaceInv, ChainInv, ReachInv, NEW e \in Drps, Match(e), TypeInv'
  PROVE  ReachInv'
<1>1. PICK is \in Batches, rs \in Batches, rest \in Seq(Pids) :
        \E n \in 0 .. Len(is) : Turn(e, is, rs, n, rest)
  BY MatchTurn
<1>2. PICK n \in 0 .. Len(is) : Turn(e, is, rs, n, rest)
  BY <1>1
<1>3. /\ UNCHANGED <<groups, read, open, got, result, dsts, wire>>
      /\ delivered' = [delivered EXCEPT ![e] = @ \o SubSeq(is, 1, n)]
      /\ deferred' = [deferred EXCEPT ![e] =
                        (@ \ {rs}) \cup (IF rest = << >> THEN {} ELSE {rest})]
      /\ deferred \in [Drps -> SUBSET Batches] /\ delivered \in [Drps -> Seq(Pids)]
  BY <1>2 DEF Turn, TypeInv
<1>4. /\ \A d \in Drps : d # e => deferred'[d] = deferred[d] /\ delivered'[d] = delivered[d]
      /\ delivered'[e] = delivered[e] \o SubSeq(is, 1, n)
      /\ \A qs \in deferred[e] : qs # rs => qs \in deferred'[e]
      /\ rest # << >> => rest \in deferred'[e]
      /\ delivered[e] \in Seq(Pids)
  BY <1>3
<1>5. PICK a \in Seq(Pids) : a = SubSeq(is, 1, n) /\ \A k \in 1 .. n : is[k] \in Range(a)
  <2>1. is \in Seq(Pids) /\ Len(is) \in Nat
    BY BatchNat
  <2>2. /\ SubSeq(is, 1, n) \in Seq(Pids) /\ DOMAIN SubSeq(is, 1, n) = 1 .. n
        /\ \A k \in 1 .. n : SubSeq(is, 1, n)[k] = is[k]
    BY <2>1
  <2>3. \A k \in 1 .. n : is[k] \in Range(SubSeq(is, 1, n))
    BY <2>2 DEF Range
  <2> QED
    BY <2>2, <2>3
<1>6. Range(delivered'[e]) = Range(delivered[e]) \cup Range(a)
  <2>1. \A s, z \in Seq(Pids) : Range(s \o z) = Range(s) \cup Range(z)
    BY ConcatRange
  <2>2. delivered'[e] = delivered[e] \o a
    BY <1>4, <1>5
  <2> QED
    BY <1>4, <2>1, <2>2
<1>7. \A d \in Drps : Range(delivered[d]) \subseteq Range(delivered'[d])
  BY <1>4, <1>6
<1>8. ASSUME NEW d \in Drps, NEW p \in Pids, d \in groups[p], InCommon(p),
             \/ p \in Range(delivered[d]) \/ Reaches(d, p)
             \/ \E c \in Contractors \cap groups[p] : ~Past(c, p)
      PROVE  \/ p \in Range(delivered'[d]) \/ p \in Pending(Dst(p))'
             \/ p \in Range(result'[Dst(p)]) /\ d \in dsts'[Dst(p)]
             \/ \E k \in DOMAIN wire'[Dst(p)][d] : p \in Range(wire'[Dst(p)][d][k])
             \/ \E qs \in deferred'[d] : p \in Range(qs)
             \/ \E c \in Contractors \cap groups[p] : ~Past(c, p)'
  <2>1. ASSUME NEW c \in Contractors \cap groups[p], ~Past(c, p)
        PROVE  ~Past(c, p)'
    BY <1>3, <2>1 DEF Past
  <2>2. CASE p \in Pending(Dst(p))
    BY <1>3, <2>2, DstTeb, InPending
  <2>3. ASSUME NEW qs \in deferred[d], p \in Range(qs)
        PROVE  p \in Range(delivered'[d]) \/ \E os \in deferred'[d] : p \in Range(os)
    <3>1. CASE d # e \/ qs # rs
      BY <1>4, <2>3, <3>1
    <3>2. CASE d = e /\ qs = rs /\ p \in Range(rest)
      BY <1>4, <3>2, EmptyRange
    <3>3. CASE d = e /\ qs = rs /\ p \notin Range(rest)
      <4>1. p \in Range(delivered[e]) \/ \E k \in 1 .. n : p = is[k]
        BY <1>2, <1>8, <2>3, <3>3, Discarded
      <4> QED
        BY <1>5, <1>6, <3>3, <4>1
    <3> QED
      BY <3>1, <3>2, <3>3
  <2> QED
    BY <1>3, <1>7, <1>8, <2>1, <2>2, <2>3 DEF Reaches
<1> QED
  BY <1>3, <1>8, ReachPrime

\* Steps that leave the results where they are and forget nothing that was delivered.
LEMMA OtherReach ==
  ASSUME PlaceInv, ReachInv, TypeInv',
         UNCHANGED <<groups, read, open, got, result, dsts, wire, deferred>>,
         \A d \in Drps : Range(delivered[d]) \subseteq Range(delivered'[d])
  PROVE  ReachInv'
<1>1. ASSUME NEW d \in Drps, NEW p \in Pids, d \in groups[p], InCommon(p),
             \/ p \in Range(delivered[d]) \/ Reaches(d, p)
             \/ \E c \in Contractors \cap groups[p] : ~Past(c, p)
      PROVE  \/ p \in Range(delivered'[d]) \/ p \in Pending(Dst(p))'
             \/ p \in Range(result'[Dst(p)]) /\ d \in dsts'[Dst(p)]
             \/ \E k \in DOMAIN wire'[Dst(p)][d] : p \in Range(wire'[Dst(p)][d][k])
             \/ \E rs \in deferred'[d] : p \in Range(rs)
             \/ \E c \in Contractors \cap groups[p] : ~Past(c, p)'
  <2>1. ASSUME NEW c \in Contractors \cap groups[p], ~Past(c, p)
        PROVE  ~Past(c, p)'
    BY <2>1 DEF Past
  <2>2. CASE p \in Pending(Dst(p))
    BY <2>2, DstTeb, InPending
  <2> QED
    BY <1>1, <2>1, <2>2 DEF Reaches
<1> QED
  BY <1>1, ReachPrime

LEMMA ReachStep ==
  ASSUME Whole, PlaceInv, ChainInv, ReachInv, Next
  PROVE  ReachInv'
<1>0. TypeInv'
  BY TypeStep
<1>1. ASSUME NEW d \in Drps, Timeout(d) \/ Done(d)
      PROVE  ReachInv'
  <2>1. UNCHANGED <<groups, read, open, got, result, dsts, wire, deferred, delivered>>
    BY <1>1 DEF Timeout, Done, pulse, teb
  <2> QED
    BY <1>0, <2>1, OtherReach
<1>2. ASSUME NEW d \in Drps, Bypass(d)
      PROVE  ReachInv'
  <2>1. /\ UNCHANGED <<groups, read, open, got, result, dsts, wire, deferred>>
        /\ delivered' = [delivered EXCEPT ![d] = Append(@, Current(d)[1])]
        /\ Current(d) # << >> /\ delivered \in [Drps -> Seq(Pids)]
    BY <1>2 DEF Bypass, pulse, teb, TypeInv
  <2>2. Current(d)[1] \in Pids
    BY <2>1, CurrentFacts, BatchNat
  <2>3. Range(Append(delivered[d], Current(d)[1])) = Range(delivered[d]) \cup {Current(d)[1]}
    BY <2>1, <2>2, AppendRange
  <2>4. \A e \in Drps : Range(delivered[e]) \subseteq Range(delivered'[e])
    BY <2>1, <2>3
  <2>5. UNCHANGED <<groups, read, open, got, result, dsts, wire, deferred>>
    BY <2>1
  <2> QED
    BY <1>0, <2>4, <2>5, OtherReach
<1> QED
  BY <1>0, <1>1, <1>2, CollectReach, BuildReach, FlushReach, ReceiveReach, MatchReach DEF Next

LEMMA QueueInit ==
  ASSUME Init
  PROVE  ChainInv /\ ReachInv
<1>1. /\ read = [d \in Drps |-> 0] /\ open = [d \in Drps |-> << >>]
      /\ pending = [d \in Drps |-> << >>] /\ inputs = [d \in Drps |-> << >>]
      /\ delivered = [d \in Drps |-> << >>]
  BY DEF Init
<1>2. ChainInv
  <2>1. \A d \in Drps : Inputs(d, 0) = {}
    BY DEF Inputs
  <2>2. ASSUME NEW d \in Drps
        PROVE  Chain(d, delivered[d], Left(d), open[d], read[d])
    <3>1. delivered[d] = << >> /\ Left(d) = << >> /\ open[d] = << >> /\ read[d] = 0
      BY <1>1 DEF Left
    <3>2. Chain(d, << >>, << >>, << >>, 0)
      BY <2>1, EmptyRange DEF Chain, Increasing
    <3> QED
      BY <3>1, <3>2
  <2> QED
    BY <2>2 DEF ChainInv
<1>3. ReachInv
  <2> SUFFICES ASSUME NEW p \in Pids, InCommon(p)
               PROVE  \E c \in Contractors \cap groups[p] : ~Past(c, p)
    BY DEF ReachInv
  <2>1. Common \in Contractors \cap groups[p] /\ Common \in Drps
    BY ResultsAssumption DEF InCommon
  <2>2. ~Past(Common, p)
    BY <1>1, <2>1, ResultsAssumption DEF Past, Pids
  <2> QED
    BY <2>1, <2>2
<1> QED
  BY <1>2, <1>3

LEMMA QueueStutter ==
  ASSUME PlaceInv, ChainInv, ReachInv, UNCHANGED vars
  PROVE  ChainInv' /\ ReachInv'
<1>1. /\ UNCHANGED <<groups, read, open, delivered, inputs, pending>>
      /\ UNCHANGED <<groups, read, open, got, result, dsts, wire, deferred>>
  BY DEF vars, pulse, drp, teb
<1>2. \A d \in Drps : Left(d)' = Left(d)
  BY <1>1 DEF Left
<1>3. ChainInv'
  BY <1>1, <1>2, ChainPrime DEF ChainInv
<1>4. TypeInv'
  BY PlaceStutter
<1>5. ReachInv'
  BY <1>1, <1>4, OtherReach
<1> QED
  BY <1>3, <1>5

LEMMA QueueInvariance ==
  ASSUME Whole
  PROVE  Spec => []QueueInv
<1>1. Init => QueueInv
  BY QueueInit DEF QueueInv
<1>2. PlaceInv /\ QueueInv /\ [Next]_vars => QueueInv'
  BY ChainStep, ReachStep, QueueStutter DEF QueueInv
<1> QED
  BY <1>1, <1>2, PlaceInvariance, PTL DEF Spec

-----------------------------------------------------------------------------
(***************************************************************************)
(* The order of delivery                                                   *)
(***************************************************************************)

\* EbReceiver's index never jumps: however many TEBs answer and in whatever order, the
\* inputs of a DRP are delivered in the order in which they were collected, none left out
\* and none twice, unless SlowUpdates are sent to several TEBs.
THEOREM InputsDeliveredInOrder ==
  ASSUME Whole
  PROVE  Spec => []DeliveredInSequence
<1>1. PlaceInv /\ QueueInv => DeliveredInSequence
  <2> SUFFICES ASSUME PlaceInv, ChainInv, NEW d \in Drps
               PROVE  /\ Increasing(delivered[d])
                      /\ \A q \in Range(delivered[d]) :
                           q \in Inputs(d, read[d]) /\ Inputs(d, q) \subseteq Range(delivered[d])
    BY DEF DeliveredInSequence, Increasing, QueueInv
  <2>1. Chain(d, delivered[d], Left(d), open[d], read[d])
    BY DEF ChainInv
  <2>2. Increasing(delivered[d])
    BY <2>1 DEF Chain
  <2>3. ASSUME NEW q \in Range(delivered[d]), NEW r \in Inputs(d, q)
        PROVE  r \in Range(delivered[d])
    <3>1. q \in Inputs(d, read[d])
      BY <2>1 DEF Chain
    <3>2. r \in Inputs(d, read[d]) /\ ~(q < r)
      BY <3>1 DEF Inputs, TypeInv
    <3>3. r \notin Range(open[d]) /\ \A i \in DOMAIN Left(d) : r \notin Range(Left(d)[i])
      BY <2>1, <3>2 DEF Chain
    <3> QED
      BY <2>1, <3>2, <3>3 DEF Chain
  <2> QED
    BY <2>1, <2>2, <2>3 DEF Chain
<1> QED
  BY <1>1, PlaceInvariance, QueueInvariance, PTL

\* No input waits for a result that cannot come: its TEB has yet to build its event, or
\* holds the result for this DRP, or the result is under way or deferred.
THEOREM ResultsReach ==
  ASSUME Whole
  PROVE  Spec => []NoneForgotten
<1>1. PlaceInv /\ QueueInv => NoneForgotten
  <2> SUFFICES ASSUME PlaceInv, ReachInv, NEW d \in Drps, NEW p \in Inputs(d, read[d]),
                      InCommon(p)
               PROVE  \/ p \in Range(delivered[d])
                      \/ p \in Pending(Dst(p))
                      \/ p \in Range(result[Dst(p)]) /\ d \in dsts[Dst(p)]
                      \/ \E k \in DOMAIN wire[Dst(p)][d] : p \in Range(wire[Dst(p)][d][k])
                      \/ \E rs \in deferred[d] : p \in Range(rs)
                      \/ \E c \in Contractors \cap groups[p] :
                           read[c] < p \/ p \in Range(open[c])
    BY DEF NoneForgotten, QueueInv
  <2>1. p \in Pids /\ d \in groups[p]
    BY ResultsAssumption DEF Inputs, TypeInv, Pids
  <2>2. ASSUME NEW c \in Contractors \cap groups[p], ~Past(c, p)
        PROVE  read[c] < p \/ p \in Range(open[c])
    <3>1. c \in Drps /\ read[c] \in Nat /\ p \in Nat
      BY <2>1, ResultsAssumption DEF TypeInv, Pids
    <3> QED
      BY <2>2, <3>1 DEF Past
  <2> QED
    BY <2>1, <2>2 DEF ReachInv, Reaches
<1> QED
  BY <1>1, PlaceInvariance, QueueInvariance, PTL
=============================================================================
