---------------------------- MODULE ReadoutProofs ----------------------------
(***************************************************************************)
(* Proofs about Readout, for every number of lanes, workers, DMA buffers   *)
(* and transition buffers.                                                 *)
(*                                                                         *)
(* As long as no frame is lost, the events in a DRP are consecutive: the   *)
(* receiver has got to event Arrived, and of lane l those after it up to     *)
(* sent[l] are in the ring.  They are never more than the ring has slots,  *)
(* since each holds a DMA buffer (RingInv), so each has a slot of its own. *)
(* On the way through reader, workers and collector the events are cut in  *)
(* batches.  The batches have numbers, first .. next - 1, in the order in  *)
(* which the reader filled them, and begin[j] is the first event of batch  *)
(* j.  FlowInv says where in the queues of which worker batch j is, and    *)
(* that the events of the batches follow those that are with the           *)
(* contributor and precede those the reader is at.                         *)
(***************************************************************************)
EXTENDS Readout, FiniteSetTheorems, SequenceTheorems, WellFoundedInduction, TLAPS

Same(a, b, m) == a % m = b % m

Slot(n) == (n - zero) % NumBuffers
Begins(n) == n \in Events /\ kind[n] = "beginrun"

\* The event the receiver has got to; the last one of which lane l has given back
\* its buffer, and of which all lanes have.
Arrived == from + Len(delivered) - 1
Released(l) == IF cur # None /\ lane <= l THEN Arrived - 1 ELSE Arrived
Base == IF cur # None /\ lane < NumLanes THEN Arrived - 1 ELSE Arrived

Frames == {f \in Slots \X Lanes : buf[f[1]][f[2]] # 0}
Ahead == {s \in Slots : tr[s] > Arrived}

\* The type of the state, as far as the proofs need it.
TypeInv ==
  /\ kind \in [Events -> Kinds] /\ zero \in Int /\ from \in Nat \ {0}
  /\ sent \in [Lanes -> Nat] /\ \A l \in Lanes : sent[l] <= MaxEvents
  /\ lost \in Nat
  /\ buf \in [Slots -> [Lanes -> Nat]] /\ pebble \in [Slots -> Nat] /\ tr \in [Slots -> Nat]
  /\ trFree \in Nat /\ dmaFree \in Nat
  /\ last \in Int /\ batch \in [start : Int, size : Nat]
  /\ rworker \in Workers /\ cworker \in Workers
  /\ rpc \in {<<"read">>, <<"exit">>} \cup ({"alloc"} \X Events \X Slots)
  /\ inq \in [Workers -> Seq([start : Int, size : Nat])]
  /\ outq \in [Workers -> Seq([start : Int, size : Nat])]
  /\ wi \in [Workers -> Nat] /\ ci \in Nat
  /\ pend \in Seq(Slots) /\ delivered \in Seq(Nat)
  /\ lastIndex \in Slots /\ cur \in Slots \cup {None} /\ lane \in 0 .. NumLanes
  /\ held \in 0 .. RetSize - 1
  /\ configs \in Nat \ {0} /\ joined \in Nat

\* When what was under way is at an end, so are the threads.  Only a transition that
\* found the pool of buffers shut down ends the process.
PhaseInv ==
  /\ spc \in {"collector", "contributor", "done"} => rpc = <<"exit">>
  /\ spc \in {"reader", "collector", "contributor", "done"} => joined = NumWorkers
  /\ spc = "done" => cur = None /\ pend = << >>
  /\ spc = "run" /\ configs = 1 => ~trDown
  /\ ended => trDown

\* What is in the ring, and which buffers it holds.
RingInv ==
  /\ \A i \in DOMAIN delivered : delivered[i] = from + i - 1
  /\ \A l \in Lanes : Arrived <= sent[l] /\ sent[l] <= Base + NumBuffers
  /\ cur # None => cur = Slot(Arrived) /\ delivered # << >>
  /\ \A l \in Lanes : \A n \in Released(l) + 1 .. sent[l] : buf[Slot(n)][l] = n
  /\ \A s \in Slots, l \in Lanes : buf[s][l] # 0 =>
       buf[s][l] \in Released(l) + 1 .. sent[l] /\ Slot(buf[s][l]) = s
  /\ \A l \in Lanes : \A n \in Arrived + 1 .. sent[l] : Begins(n) => zero = n - 1
  /\ \A s \in Slots : tr[s] > Arrived =>
       /\ tr[s] \in Events /\ kind[tr[s]] # "l1accept" /\ Slot(tr[s]) = s
       /\ \A l \in Lanes : tr[s] <= sent[l]

\* Each buffer is somewhere.
CountInv ==
  /\ dmaFree + held + Cardinality(Frames) = DmaCount
  /\ trFree + Cardinality(Ahead) = TrBuffers

\* The queues of worker w, taken together, and how many batches after the one
\* at v's turn w's next one is.
Queue(w) == outq[w] \o inq[w]
Turn(w, v) == IF w >= v THEN w - v ELSE w - v + NumWorkers

\* The number of the batch at place i of the queue of w.
Number(first, w, i) == first + Turn(w, cworker) + NumWorkers * (i - 1)

QueueInv(first, next, begin) ==
  \A w \in Workers :
    /\ next + Turn(w, rworker) = Number(first, w, Len(Queue(w)) + 1)
    /\ \A i \in DOMAIN Queue(w) :
         LET j == Number(first, w, i)
         IN /\ j \in first .. next - 1
            /\ Queue(w)[i].size = begin[j + 1] - begin[j]
            /\ Same(Queue(w)[i].start, begin[j] - zero, NumBuffers)

\* The last event that is collected, and the last one that is complete.
Collected(first, begin) == begin[first] + ci - 1
Whence(next, begin) == begin[next] + batch.size - 1

OrderInv(first, next, begin) ==
  /\ first \in Nat /\ next \in Nat /\ first <= next
  /\ begin \in [Nat -> Int]
  /\ \A i, j \in first .. next : i < j => begin[i] < begin[j]
  /\ Arrived <= Collected(first, begin)
  /\ ci = 0 \/ (first < next /\ begin[first] + ci < begin[first + 1])
  /\ Len(pend) = Collected(first, begin) - Arrived
  /\ \A i \in DOMAIN pend : pend[i] = Slot(Arrived + i)
  /\ \A l \in Lanes : Whence(next, begin) <= sent[l]
  /\ \E l \in Lanes : Whence(next, begin) = sent[l]

\* What the workers are through with.
WorkInv(first, begin) ==
  /\ ci # 0 => outq[cworker] # << >>
  /\ \A w \in Workers : IF inq[w] = << >> THEN wi[w] = 0 ELSE wi[w] < Head(inq[w]).size
  /\ \A w \in Workers : \A i \in DOMAIN outq[w] :
       \A e \in begin[Number(first, w, i)] .. begin[Number(first, w, i) + 1] - 1 :
         e > Collected(first, begin) => pebble[Slot(e)] = e
  /\ \A w \in Workers : inq[w] # << >> =>
       LET b == begin[Number(first, w, Len(outq[w]) + 1)]
       IN \A e \in b .. b + wi[w] - 1 :
            e > Collected(first, begin) => pebble[Slot(e)] = e
  /\ \A e \in Arrived + 1 .. Collected(first, begin) : pebble[Slot(e)] = e

\* Where the reader and the receiver are; a BeginRun changes what they count.
ReaderInv(next, begin) ==
  LET c == Whence(next, begin)
  IN /\ Begins(c + 1) \/ Same(last, c - zero, CntMod)
     /\ \/ Begins(c + 1) /\ batch.size = 0
        \/ Same(batch.start, begin[next] - zero, NumBuffers)
     /\ \A l \in Lanes : \A n \in c + 1 .. sent[l] : Begins(n) => Arrived = n - 1
     /\ rpc[1] = "alloc" => /\ rpc = <<"alloc", c, Slot(c)>> /\ batch.size > 0
                            /\ kind[c] # "l1accept" /\ tr[Slot(c)] # c
     /\ \A n \in Arrived + 1 .. c :
          \/ kind[n] = "l1accept" \/ rpc = <<"alloc", n, Slot(n)>>
          \/ tr[Slot(n)] = n \/ (trDown /\ tr[Slot(n)] = 0)
     /\ Begins(Arrived + 1) \/ lastIndex = Slot(Arrived)

FlowInv(first, next, begin) ==
  /\ OrderInv(first, next, begin) /\ QueueInv(first, next, begin)
  /\ WorkInv(first, begin) /\ ReaderInv(next, begin)

\* Without a lane to spare, the slot of an event all of whose buffers are given back
\* may be used again before _deliver() is through with it.
Spare == NumLanes * NumBuffers > DmaCount

InputInv ==
  /\ cur # None /\ Spare => pebble[cur] = Arrived
  /\ ended => \A i \in DOMAIN pend : \A l \in Lanes : buf[pend[i]][l] = pebble[pend[i]]

Inv ==
  /\ TypeInv /\ PhaseInv /\ RingInv /\ CountInv /\ InputInv
  /\ ~ended /\ spc # "done" => \E first, next, begin : FlowInv(first, next, begin)


-----------------------------------------------------------------------------
(***************************************************************************)
(* Numbers                                                                 *)
(***************************************************************************)

LEMMA ModFacts ==
  ASSUME NEW a \in Int, NEW m \in Nat \ {0}
  PROVE  /\ a % m \in 0 .. m - 1
         /\ a \div m \in Int
         /\ a = m * (a \div m) + (a % m)
<1>1. a % m \in 0 .. m - 1
  BY SMT
<1>2. a \div m \in Int
  BY SMT
<1>3. a = m * (a \div m) + (a % m)
  BY SMT
<1> QED
  BY <1>1, <1>2, <1>3

Congruent(a, b, m) == \E q \in Int : a = b + m * q

\* A number has one remainder.
LEMMA ModUnique ==
  ASSUME NEW m \in Nat \ {0}, NEW q \in Int, NEW x \in 0 .. m - 1, NEW y \in 0 .. m - 1,
         x = y + m * q
  PROVE  x = y
<1>1. CASE q = 0
  BY <1>1, SMT
<1>2. CASE q > 0
  <2>1. m * q >= m
    BY <1>2, SMT
  <2> QED
    BY <2>1, SMT
<1>3. CASE q < 0
  <2>1. m * q <= -m
    BY <1>3, SMT
  <2> QED
    BY <2>1, SMT
<1> QED
  BY <1>1, <1>2, <1>3, SMT

\* Division, without its operators.
LEMMA ModSplit ==
  ASSUME NEW a \in Int, NEW m \in Nat \ {0}
  PROVE  \E q \in Int, r \in 0 .. m - 1 : a = m * q + r /\ a % m = r
<1>1. a % m \in 0 .. m - 1 /\ a \div m \in Int /\ a = m * (a \div m) + (a % m)
  BY ModFacts
<1> QED
  BY <1>1, Zenon

LEMMA ModMultiple ==
  ASSUME NEW a \in Int, NEW b \in Int, NEW m \in Nat \ {0}, Congruent(a, b, m)
  PROVE  a % m = b % m
<1>0. PICK q \in Int : a = b + m * q
  BY DEF Congruent
<1>1. PICK u \in Int, x \in 0 .. m - 1 : a = m * u + x /\ a % m = x
  BY ModSplit
<1>2. PICK v \in Int, y \in 0 .. m - 1 : b = m * v + y /\ b % m = y
  BY ModSplit
<1>3. x = y + m * (v + q - u)
  <2>1. a = m * u + x /\ b = m * v + y
    BY <1>1, <1>2
  <2>2. m * (v + q - u) = m * v + m * q - m * u
    BY SMT
  <2>3. m * u \in Int /\ m * v \in Int /\ m * q \in Int
    BY SMT
  <2> QED
    BY <1>0, <2>1, <2>2, <2>3, SMT
<1>4. x = y
  <2>1. v + q - u \in Int
    OBVIOUS
  <2> QED
    BY <1>3, <2>1, ModUnique
<1> QED
  BY <1>1, <1>2, <1>4

LEMMA ModQuotient ==
  ASSUME NEW a \in Int, NEW b \in Int, NEW m \in Nat \ {0}, a % m = b % m
  PROVE  Congruent(a, b, m)
<1>1. PICK u \in Int, x \in 0 .. m - 1 : a = m * u + x /\ a % m = x
  BY ModSplit
<1>2. PICK v \in Int, y \in 0 .. m - 1 : b = m * v + y /\ b % m = y
  BY ModSplit
<1>3. x = y
  BY <1>1, <1>2
<1>4. a = b + m * (u - v)
  <2>1. a = m * u + x /\ b = m * v + x
    BY <1>1, <1>2, <1>3
  <2>2. m * (u - v) = m * u - m * v
    BY SMT
  <2>3. m * u \in Int /\ m * v \in Int
    BY SMT
  <2> QED
    BY <2>1, <2>2, <2>3, SMT
<1>5. u - v \in Int
  OBVIOUS
<1> QED
  BY <1>4, <1>5 DEF Congruent

LEMMA ModShift ==
  ASSUME NEW a \in Int, NEW b \in Int, NEW x \in Int, NEW y \in Int, NEW m \in Nat \ {0},
         Same(a, b, m), x - y = a - b
  PROVE  Same(x, y, m)
<1>1. PICK q \in Int : a = b + m * q
  BY ModQuotient DEF Congruent, Same
<1>2. m * q \in Int
  BY <1>1, SMT
<1>3. x = y + m * q
  BY <1>1, <1>2, SMT
<1>4. x % m = y % m
  BY <1>1, <1>3, ModMultiple DEF Congruent
<1> QED
  BY <1>4 DEF Same

LEMMA ModSmall ==
  ASSUME NEW m \in Nat \ {0}, NEW a \in 0 .. m - 1
  PROVE  a % m = a
<1>1. a % m \in 0 .. m - 1 /\ a \div m \in Int /\ a = m * (a \div m) + (a % m)
  BY ModFacts
<1>2. a = (a % m) + m * (a \div m)
  BY <1>1, SMT
<1> QED
  BY <1>1, <1>2, ModUnique

\* Numbers closer than m have different remainders.
LEMMA ModApart ==
  ASSUME NEW a \in Int, NEW b \in Int, NEW m \in Nat \ {0}, a % m = b % m, b - m < a, a < b + m
  PROVE  a = b
<1>1. PICK q \in Int : a = b + m * q
  BY ModQuotient DEF Congruent
<1>2. CASE q > 0
  <2>1. m * q >= m
    BY <1>2, SMT
  <2> QED
    BY <2>1, <1>1, SMT
<1>3. CASE q < 0
  <2>1. m * q <= -m
    BY <1>3, SMT
  <2> QED
    BY <2>1, <1>1, SMT
<1>4. CASE q = 0
  BY <1>1, <1>4, SMT
<1> QED
  BY <1>2, <1>3, <1>4, SMT

\* Of m numbers that follow one another one has the remainder s.
LEMMA ModCovers ==
  ASSUME NEW m \in Nat \ {0}, NEW b \in Int, NEW z \in Int, NEW s \in 0 .. m - 1
  PROVE  \E n \in b + 1 .. b + m : (n - z) % m = s
<1>1. PICK y \in Int : y = s - (b + 1 - z)
  BY SMT
<1>2. PICK r \in 0 .. m - 1 : y % m = r
  BY <1>1, ModFacts
<1>3. PICK n \in Int : n = b + 1 + r
  BY SMT
<1>4. PICK x \in Int : x = n - z
  BY SMT
<1>5. r \in Int /\ s \in Int /\ r % m = r /\ s % m = s
  BY ModSmall
<1>6. x - s = r - y
  BY <1>1, <1>3, <1>4, <1>5, SMT
<1>7. Same(r, y, m)
  BY <1>2, <1>5 DEF Same
<1>8. Same(x, s, m)
  BY <1>5, <1>6, <1>7, ModShift
<1>9. x % m = s
  BY <1>5, <1>8 DEF Same
<1>10. n \in b + 1 .. b + m
  BY <1>3, SMT
<1> QED
  BY <1>4, <1>9, <1>10

LEMMA Sizes ==
  /\ NumBuffers \in Nat \ {0} /\ NumBuffers >= DmaCount /\ DmaCount \in Nat
  /\ NumLanes \in Nat \ {0} /\ NumWorkers \in Nat \ {0} /\ CntMod \in Nat \ {0}
  /\ TrBuffers \in Nat /\ RetSize \in Nat \ {0} /\ MaxEvents \in Nat \ {0}
  /\ NumBuffers \notin Slots
<1>1. DmaCount \in Nat \ {0}
  BY ReadoutAssumption
<1>2. NumBuffers \in Nat \ {0} /\ NumBuffers >= DmaCount
  BY <1>1, RingAssumption
<1> QED
  BY <1>1, <1>2, ReadoutAssumption DEF Slots

\* The slot of an event follows from the 24 bits of its counter.
LEMMA CounterSlot ==
  ASSUME NEW a \in Int
  PROVE  (a % CntMod) % NumBuffers = a % NumBuffers
<1>1. CntMod % NumBuffers = 0 /\ CntMod \in Nat \ {0} /\ NumBuffers \in Nat \ {0}
  BY Sizes, RingAssumption
<1> DEFINE k == CntMod \div NumBuffers
           q == a \div CntMod
<1>2. k \in Int /\ CntMod = NumBuffers * k + 0
  BY <1>1, ModFacts
<1>3. q \in Int /\ a = CntMod * q + (a % CntMod) /\ a % CntMod \in Int
  BY <1>1, ModFacts
<1> HIDE DEF k, q
<1>4. CntMod * q = NumBuffers * (k * q) /\ k * q \in Int
  BY <1>1, <1>2, <1>3, SMT
<1>5. a = (a % CntMod) + NumBuffers * (k * q)
  <2>1. NumBuffers * (k * q) \in Int
    BY <1>1, <1>4, SMT
  <2> QED
    BY <1>3, <1>4, <2>1, SMT
<1> DEFINE x == a % CntMod
<1>6. a \in Int /\ x \in Int /\ Congruent(a, x, NumBuffers)
  BY <1>3, <1>4, <1>5 DEF Congruent
<1> HIDE DEF x
<1>7. a % NumBuffers = x % NumBuffers
  BY <1>1, <1>6, ModMultiple
<1> QED
  BY <1>7 DEF x

LEMMA SlotRange ==
  ASSUME TypeInv, NEW n \in Int
  PROVE  Slot(n) \in Slots
<1>1. n - zero \in Int
  BY DEF TypeInv
<1>2. NumBuffers \in Nat \ {0}
  BY Sizes
<1>3. (n - zero) % NumBuffers \in 0 .. NumBuffers - 1
  BY <1>1, <1>2, ModFacts, Zenon
<1> QED
  BY <1>3 DEF Slot, Slots

\* Events that are less than a ring apart have different slots.
LEMMA SlotApart ==
  ASSUME TypeInv, NEW n \in Int, NEW k \in Int, Slot(n) = Slot(k),
         n < k + NumBuffers, k < n + NumBuffers
  PROVE  n = k
<1>1. n - zero \in Int /\ k - zero \in Int /\ zero \in Int
  BY DEF TypeInv
<1>2. n - zero = k - zero
  <2> DEFINE a == n - zero
             b == k - zero
  <2>1. a \in Int /\ b \in Int /\ b - NumBuffers < a /\ a < b + NumBuffers
    BY <1>1, Sizes, SMT
  <2>2. a % NumBuffers = b % NumBuffers /\ NumBuffers \in Nat \ {0}
    BY Sizes DEF Slot
  <2> HIDE DEF a, b
  <2>3. a = b
    BY <2>1, <2>2, ModApart, Zenon
  <2> QED
    BY <2>3 DEF a, b
<1> QED
  BY <1>1, <1>2

-----------------------------------------------------------------------------
(***************************************************************************)
(* The ring                                                                *)
(***************************************************************************)

LEMMA Places ==
  ASSUME TypeInv, RingInv
  PROVE  /\ Arrived \in Nat /\ Base \in Nat /\ Base <= Arrived /\ Arrived <= Base + 1
         /\ \A l \in Lanes : /\ Released(l) \in Nat /\ Released(l) <= Arrived
                             /\ Base <= Released(l) /\ Arrived <= Released(l) + 1
         /\ (cur # None => Arrived > 0)
<1>1. Len(delivered) \in Nat /\ from \in Nat \ {0} /\ lane \in Nat /\ NumLanes \in Nat
  BY Sizes DEF TypeInv
<1>2. cur # None => Len(delivered) > 0
  BY EmptySeq DEF RingInv, TypeInv
<1>3. \A l \in Lanes : l \in Nat /\ l < NumLanes
  BY <1>1 DEF Lanes
<1> QED
  BY <1>1, <1>2, <1>3 DEF Arrived, Base, Released

LEMMA FiniteFrames ==
  /\ IsFiniteSet(Slots \X Lanes) /\ Cardinality(Slots \X Lanes) = NumBuffers * NumLanes
  /\ IsFiniteSet(Frames) /\ Cardinality(Frames) \in Nat
  /\ IsFiniteSet(Slots) /\ IsFiniteSet(Ahead) /\ Cardinality(Ahead) \in Nat
<1>1. IsFiniteSet(Slots) /\ Cardinality(Slots) = NumBuffers
  BY Sizes, FS_Interval DEF Slots
<1>2. IsFiniteSet(Lanes) /\ Cardinality(Lanes) = NumLanes
  BY Sizes, FS_Interval DEF Lanes
<1>3. IsFiniteSet(Slots \X Lanes) /\ Cardinality(Slots \X Lanes) = NumBuffers * NumLanes
  BY <1>1, <1>2, FS_Product
<1>4. Frames \in SUBSET (Slots \X Lanes) /\ Ahead \in SUBSET Slots
  BY DEF Frames, Ahead
<1>5. IsFiniteSet(Frames) /\ IsFiniteSet(Ahead)
  BY <1>1, <1>3, <1>4, FS_Subset
<1> QED
  BY <1>1, <1>3, <1>5, FS_CardinalityType

\* While the driver has a buffer there is a slot for the next event.
LEMMA RingHasRoom ==
  ASSUME TypeInv, RingInv, CountInv, dmaFree > 0, NEW l \in Lanes
  PROVE  sent[l] < Base + NumBuffers
<1> DEFINE W == Base + 1 .. sent[l]
           f == [m \in W |-> IF m > Released(l) THEN <<Slot(m), l>> ELSE <<Slot(m), lane>>]
<1>1. /\ Arrived \in Nat /\ Base \in Nat /\ Base <= Arrived /\ Arrived <= Base + 1
      /\ \A k \in Lanes : /\ Released(k) \in Nat /\ Released(k) <= Arrived
                          /\ Base <= Released(k) /\ Arrived <= Released(k) + 1
  BY Places
<1>2. sent[l] \in Nat /\ Arrived <= sent[l] /\ sent[l] <= Base + NumBuffers
  BY DEF TypeInv, RingInv
<1>3. ASSUME NEW m \in W
      PROVE  m \in Nat \ {0} /\ Slot(m) \in Slots /\ f[m] \in Frames
  <2>1. m \in Nat \ {0}
    BY <1>1, <1>2
  <2>2. Slot(m) \in Slots
    BY <2>1, SlotRange
  <2>3. CASE m > Released(l)
    <3>1. buf[Slot(m)][l] = m
      BY <1>1, <1>2, <2>1, <2>3 DEF RingInv
    <3> QED
      BY <2>1, <2>2, <2>3, <3>1 DEF Frames
  <2>4. CASE ~(m > Released(l))
    <3>1. cur # None /\ lane < NumLanes /\ m = Arrived
      BY <1>1, <1>2, <2>1, <2>4 DEF Base, Released
    <3>2. lane \in Lanes
      BY <3>1, Sizes DEF Lanes, TypeInv
    <3>3. Released(lane) = Arrived - 1
      BY <3>1, <3>2, Sizes DEF Released, Lanes
    <3>4. Arrived <= sent[lane] /\ sent[lane] \in Nat
      BY <3>2 DEF RingInv, TypeInv
    <3>5. buf[Slot(m)][lane] = m
      <4>1. m \in Released(lane) + 1 .. sent[lane]
        BY <1>1, <3>1, <3>3, <3>4
      <4> QED
        BY <3>2, <4>1 DEF RingInv
    <3> QED
      BY <2>1, <2>2, <2>4, <3>2, <3>5 DEF Frames
  <2> QED
    BY <2>1, <2>2, <2>3, <2>4
<1>4. ASSUME NEW m \in W, NEW k \in W, f[m] = f[k]
      PROVE  m = k
  <2>1. Slot(m) = Slot(k)
    BY <1>4
  <2>2. m \in Int /\ k \in Int /\ m < k + NumBuffers /\ k < m + NumBuffers
    BY <1>1, <1>2, Sizes
  <2> QED
    BY <2>1, <2>2, SlotApart
<1>5. f \in [W -> Frames]
  BY <1>3
<1>6. f \in Injection(W, Frames)
  <2> HIDE DEF f, W
  <2> QED
    BY <1>4, <1>5 DEF Injection, IsInjective
<1>7. Cardinality(W) <= Cardinality(Frames)
  BY <1>6, FiniteFrames, FS_Injection
<1>8. Cardinality(W) = sent[l] - Base
  <2>1. Base + 1 \in Int /\ sent[l] \in Int
    BY <1>1, <1>2
  <2>2. Cardinality(W) = IF Base + 1 > sent[l] THEN 0 ELSE sent[l] - (Base + 1) + 1
    BY <2>1, FS_Interval
  <2> HIDE DEF W
  <2> QED
    BY <1>1, <1>2, <2>2
<1>9. Cardinality(Frames) < DmaCount /\ Cardinality(Frames) \in Nat
  <2>1. held \in Nat /\ dmaFree \in Nat
    BY Sizes DEF TypeInv
  <2>2. Cardinality(Frames) \in Nat
    BY FiniteFrames
  <2>3. dmaFree + held + Cardinality(Frames) = DmaCount
    BY DEF CountInv
  <2> QED
    BY <2>1, <2>2, <2>3, Sizes
<1> QED
  BY <1>1, <1>2, <1>7, <1>8, <1>9, Sizes

\* The slot of the next event is free, and what other lanes have in it is its.
LEMMA NextSlot ==
  ASSUME TypeInv, RingInv, CountInv, dmaFree > 0, NEW l \in Lanes, NEW k \in Lanes,
         buf[Slot(sent[l] + 1)][k] # 0
  PROVE  buf[Slot(sent[l] + 1)][k] = sent[l] + 1 /\ k # l
<1> DEFINE n == sent[l] + 1
           m == buf[Slot(n)][k]
<1>1. /\ Arrived \in Nat /\ Base \in Nat /\ Base <= Arrived /\ Arrived <= Base + 1
      /\ Released(k) \in Nat /\ Base <= Released(k)
  BY Places
<1>2. sent[l] \in Nat /\ Arrived <= sent[l] /\ sent[k] \in Nat /\ sent[k] <= Base + NumBuffers
  BY DEF TypeInv, RingInv
<1>3. sent[l] < Base + NumBuffers
  BY RingHasRoom
<1>4. Slot(n) \in Slots
  BY <1>2, SlotRange
<1>5. m \in Released(k) + 1 .. sent[k] /\ Slot(m) = Slot(n)
  BY <1>4 DEF RingInv
<1>6. m \in Int /\ n \in Int /\ m < n + NumBuffers /\ n < m + NumBuffers
  BY <1>1, <1>2, <1>3, <1>5, Sizes
<1>7. m = n
  BY <1>5, <1>6, SlotApart
<1> QED
  BY <1>2, <1>5, <1>7

-----------------------------------------------------------------------------
(***************************************************************************)
(* The reader                                                              *)
(***************************************************************************)

LEMMA OrderFacts ==
  ASSUME TypeInv, RingInv, NEW first, NEW next, NEW begin, OrderInv(first, next, begin)
  PROVE  /\ Collected(first, begin) \in Int /\ Whence(next, begin) \in Int
         /\ begin[first] \in Int /\ begin[next] \in Int
         /\ Arrived <= Collected(first, begin) /\ Collected(first, begin) < begin[next]
         /\ begin[next] <= Whence(next, begin) + 1
         /\ \A l \in Lanes : Whence(next, begin) <= sent[l]
<1>1. first \in Nat /\ next \in Nat /\ first <= next /\ begin \in [Nat -> Int]
      /\ ci \in Nat /\ batch.size \in Nat
  BY DEF OrderInv, TypeInv
<1>2. begin[first] \in Int /\ begin[next] \in Int /\ begin[first + 1] \in Int
  BY <1>1
<1>3. ASSUME first < next
      PROVE  begin[first + 1] <= begin[next] /\ begin[first] < begin[next]
  <2>1. \A i, j \in first .. next : i < j => begin[i] < begin[j]
    BY DEF OrderInv
  <2>2. first \in first .. next /\ first + 1 \in first .. next /\ next \in first .. next
    BY <1>1, <1>3
  <2>3. begin[first] < begin[next]
    BY <1>3, <2>1, <2>2
  <2>4. CASE first + 1 < next
    BY <1>2, <2>1, <2>2, <2>3, <2>4
  <2>5. CASE first + 1 = next
    BY <1>2, <2>3, <2>5
  <2> QED
    BY <1>1, <1>3, <2>3, <2>4, <2>5
<1>4. Collected(first, begin) < begin[next]
  <2>1. first = next => ci = 0
    BY DEF OrderInv
  <2>2. ci = 0 \/ begin[first] + ci < begin[first + 1]
    BY DEF OrderInv
  <2> QED
    BY <1>1, <1>2, <1>3, <2>1, <2>2 DEF Collected
<1>5. Arrived <= Collected(first, begin) /\ \A l \in Lanes : Whence(next, begin) <= sent[l]
  BY DEF OrderInv
<1>6. Collected(first, begin) \in Int /\ Whence(next, begin) \in Int
      /\ begin[next] <= Whence(next, begin) + 1
  BY <1>1, <1>2 DEF Collected, Whence
<1> QED
  BY <1>2, <1>4, <1>5, <1>6

\* A BeginRun comes when all before it is done with.
LEMMA BeginsQuiet ==
  ASSUME TypeInv, RingInv, NEW first, NEW next, NEW begin, FlowInv(first, next, begin),
         NEW l \in Lanes, NEW n, n = sent[l] + 1, MaySend(l, n), Begins(n)
  PROVE  /\ Arrived = n - 1 /\ Whence(next, begin) = n - 1
         /\ \/ zero = n - 1
            \/ /\ cur = None /\ \A k \in Lanes : sent[k] = n - 1
               /\ \A s \in Slots, k \in Lanes : buf[s][k] = 0
<1> DEFINE c == Whence(next, begin)
<1>1. /\ Arrived \in Nat /\ c \in Int /\ Arrived <= c /\ c <= sent[l] /\ sent \in [Lanes -> Nat]
      /\ n \in Nat
  <2>1. OrderInv(first, next, begin)
    BY DEF FlowInv
  <2>2. /\ Collected(first, begin) \in Int /\ c \in Int /\ begin[next] \in Int
        /\ Arrived <= Collected(first, begin) /\ Collected(first, begin) < begin[next]
        /\ begin[next] <= c + 1 /\ \A k \in Lanes : c <= sent[k]
    BY <2>1, OrderFacts
  <2>3. Arrived \in Nat /\ sent \in [Lanes -> Nat]
    BY Places DEF TypeInv
  <2> HIDE DEF c
  <2> QED
    BY <2>2, <2>3
<1>2. CASE \A k \in Lanes : sent[k] < n
  <2>1. Quiet
    BY <1>2 DEF MaySend, Begins
  <2>2. cur = None /\ \A s \in Slots, k \in Lanes : buf[s][k] = 0
    BY <2>1 DEF Quiet, Empty
  <2>3. ASSUME NEW k \in Lanes
        PROVE  sent[k] = Arrived
    <3>1. Released(k) = Arrived /\ Arrived <= sent[k] /\ sent[k] \in Nat
      BY <2>2 DEF Released, RingInv, TypeInv
    <3>2. CASE sent[k] > Arrived
      <4>1. sent[k] \in Released(k) + 1 .. sent[k]
        BY <1>1, <3>1, <3>2
      <4>2. buf[Slot(sent[k])][k] = sent[k]
        BY <4>1 DEF RingInv
      <4>3. Slot(sent[k]) \in Slots
        BY <3>1, SlotRange
      <4> QED
        BY <1>1, <2>2, <3>1, <3>2, <4>2, <4>3
    <3> QED
      BY <1>1, <3>1, <3>2
  <2>4. Arrived = n - 1
    BY <1>1, <2>3
  <2>5. \E k \in Lanes : c = sent[k]
    BY DEF FlowInv, OrderInv
  <2> QED
    BY <2>2, <2>3, <2>4, <2>5
<1>3. CASE \E k \in Lanes : ~(sent[k] < n)
  <2>1. PICK k \in Lanes : n <= sent[k]
    BY <1>1, <1>3
  <2>2. n \in c + 1 .. sent[k]
    BY <1>1, <2>1
  <2>3. Arrived = n - 1
    BY <2>2 DEF FlowInv, ReaderInv
  <2>4. c = n - 1
    BY <1>1, <2>3
  <2>5. n \in Arrived + 1 .. sent[k]
    BY <1>1, <2>1, <2>3
  <2>6. zero = n - 1
    BY <2>5 DEF RingInv
  <2> QED
    BY <2>3, <2>4, <2>6
<1> QED
  BY <1>2, <1>3

\* The slot that the reader finds for an event.
LEMMA ReadSlot ==
  ASSUME TypeInv, NEW n \in Events
  PROVE  /\ Zero(n) \in Int /\ Ctr(n) \in 0 .. CntMod - 1
         /\ Ctr(n) % NumBuffers = (n - Zero(n)) % NumBuffers
         /\ Zero(n) = (IF Begins(n) THEN n - 1 ELSE zero)
<1>1. n \in Nat /\ zero \in Int
  BY Sizes DEF Events, TypeInv
<1>2. Zero(n) = (IF Begins(n) THEN n - 1 ELSE zero)
  BY DEF Zero, Begins
<1>3. Zero(n) \in Int /\ n - Zero(n) \in Int
  BY <1>1, <1>2
<1>4. (n - Zero(n)) % CntMod \in 0 .. CntMod - 1
  BY <1>3, Sizes, ModFacts, Zenon
<1>5. ((n - Zero(n)) % CntMod) % NumBuffers = (n - Zero(n)) % NumBuffers
  BY <1>3, CounterSlot, Zenon
<1> QED
  BY <1>2, <1>3, <1>4, <1>5 DEF Ctr

\* Lane l sends event n, and its frame gets into the slot of the event.
Sends(l, n) ==
  /\ n = sent[l] + 1 /\ n \in Events /\ dmaFree > 0
  /\ sent' = [sent EXCEPT ![l] = n]
  /\ zero' = Zero(n)

FrameIn(l, n) ==
  /\ Sends(l, n)
  /\ dmaFree' = dmaFree - 1
  /\ buf' = [buf EXCEPT ![(n - Zero(n)) % NumBuffers][l] = n]
  /\ UNCHANGED <<kind, from, delivered, cur, lane, tr, trFree, held>>

\* What does not change where the slots are renumbered.
Renumbered(n) ==
  \/ Zero(n) = zero
  \/ /\ cur = None /\ \A k \in Lanes : sent[k] = n - 1
     /\ Arrived = n - 1
     /\ \A s \in Slots, k \in Lanes : buf[s][k] = 0

LEMMA ReadRing ==
  ASSUME TypeInv, RingInv, CountInv, NEW l \in Lanes, NEW n, FrameIn(l, n), Renumbered(n)
  PROVE  RingInv'
<1> DEFINE s == (n - Zero(n)) % NumBuffers
<1>1. /\ Arrived \in Nat /\ Base \in Nat /\ Base <= Arrived /\ Arrived <= Base + 1
      /\ \A k \in Lanes : /\ Released(k) \in Nat /\ Released(k) <= Arrived
                          /\ Base <= Released(k) /\ Arrived <= Released(k) + 1
  BY Places
<1>2. Arrived' = Arrived /\ Base' = Base /\ \A k \in Lanes : Released(k)' = Released(k)
  BY DEF FrameIn, Sends, Arrived, Base, Released
<1>3. n \in Nat \ {0} /\ n - 1 = sent[l] /\ \A k \in Lanes : sent[k] \in Nat
  <2>1. \A k \in Lanes : sent[k] \in Nat
    BY DEF TypeInv
  <2>2. n = sent[l] + 1
    BY DEF FrameIn, Sends
  <2> QED
    BY <2>1, <2>2
<1>4. \A k \in Lanes : sent'[k] = IF k = l THEN n ELSE sent[k]
  BY DEF FrameIn, Sends, TypeInv
<1>5. s \in Slots
  <2>1. n - Zero(n) \in Int /\ NumBuffers \in Nat \ {0}
    BY <1>3, ReadSlot, Sizes DEF FrameIn, Sends
  <2>2. s \in 0 .. NumBuffers - 1
    BY <2>1, ModFacts, Zenon
  <2> QED
    BY <2>2 DEF Slots
<1>6. Slot(n)' = s
  BY DEF FrameIn, Sends, Slot
<1>7. \A t \in Slots, k \in Lanes : buf'[t][k] = IF t = s /\ k = l THEN n ELSE buf[t][k]
  BY <1>5 DEF FrameIn, Sends, TypeInv
<1>8. \A k \in Lanes : Arrived <= sent[k] /\ sent[k] <= Base + NumBuffers
  BY DEF RingInv
<1>9. n <= Base + NumBuffers
  BY <1>1, <1>3, <1>8, RingHasRoom, Sizes DEF FrameIn, Sends
<1>10. ASSUME Zero(n) = zero
       PROVE  buf[s][l] = 0
  <2>1. s = Slot(sent[l] + 1)
    BY <1>10 DEF Slot, FrameIn, Sends
  <2> QED
    BY <2>1, NextSlot DEF FrameIn, Sends
<1>11. \A k \in Lanes : \A m \in Released(k)' + 1 .. sent'[k] : buf'[Slot(m)'][k] = m
  <2> SUFFICES ASSUME NEW k \in Lanes, NEW m \in Released(k) + 1 .. sent'[k]
               PROVE  buf'[Slot(m)'][k] = m
    BY <1>2
  <2>1. CASE k = l /\ m = n
    BY <1>5, <1>6, <1>7, <2>1
  <2>2. CASE ~(k = l /\ m = n)
    <3>1. m \in Released(k) + 1 .. sent[k] /\ m \in Nat
      BY <1>1, <1>3, <1>4, <2>2
    <3>2. Zero(n) = zero
      BY <1>1, <1>3, <3>1 DEF Renumbered, Released
    <3>3. Slot(m)' = Slot(m) /\ buf[Slot(m)][k] = m /\ Slot(m) \in Slots
      BY <3>1, <3>2, SlotRange DEF Slot, FrameIn, Sends, RingInv
    <3>4. ~(Slot(m) = s /\ k = l)
      BY <1>1, <1>10, <3>1, <3>2, <3>3
    <3> QED
      BY <1>7, <3>3, <3>4
  <2> QED
    BY <2>1, <2>2
<1>12. \A t \in Slots, k \in Lanes : buf'[t][k] # 0 =>
         buf'[t][k] \in Released(k)' + 1 .. sent'[k] /\ (buf'[t][k] - zero') % NumBuffers = t
  <2> SUFFICES ASSUME NEW t \in Slots, NEW k \in Lanes, buf'[t][k] # 0
               PROVE  buf'[t][k] \in Released(k) + 1 .. sent'[k] /\ (buf'[t][k] - zero') % NumBuffers = t
    BY <1>2
  <2>1. CASE t = s /\ k = l
    <3>1. buf'[t][k] = n
      BY <1>7, <2>1
    <3>2. n \in Released(k) + 1 .. sent'[k]
      BY <1>1, <1>3, <1>4, <1>8, <2>1
    <3> QED
      BY <2>1, <3>1, <3>2 DEF FrameIn, Sends
  <2>2. CASE ~(t = s /\ k = l)
    <3>1. buf'[t][k] = buf[t][k]
      BY <1>7, <2>2
    <3>2. Zero(n) = zero
      BY <3>1 DEF Renumbered
    <3>3. buf[t][k] \in Released(k) + 1 .. sent[k] /\ Slot(buf[t][k]) = t
      BY <3>1 DEF RingInv
    <3>5. (buf'[t][k] - zero') % NumBuffers = (buf[t][k] - zero) % NumBuffers
      BY <3>1, <3>2 DEF FrameIn, Sends
    <3> QED
      BY <1>1, <1>3, <1>4, <3>1, <3>3, <3>5 DEF Slot
  <2> QED
    BY <2>1, <2>2
<1>13. \A k \in Lanes : \A m \in Arrived' + 1 .. sent'[k] : Begins(m)' => zero' = m - 1
  <2> SUFFICES ASSUME NEW k \in Lanes, NEW m \in Arrived + 1 .. sent'[k], Begins(m)
               PROVE  zero' = m - 1
    BY <1>2 DEF Begins, FrameIn, Sends
  <2>1. CASE m = n
    BY <2>1, ReadSlot DEF FrameIn, Sends
  <2>2. CASE m # n
    <3>1. m \in Arrived + 1 .. sent[k]
      BY <1>1, <1>3, <1>4, <2>2
    <3>2. Zero(n) = zero
      BY <1>1, <1>3, <3>1 DEF Renumbered
    <3> QED
      BY <3>1, <3>2 DEF RingInv, FrameIn, Sends
  <2> QED
    BY <2>1, <2>2
<1>14. \A t \in Slots : tr'[t] > Arrived' =>
         /\ tr'[t] \in Events /\ kind'[tr'[t]] # "l1accept" /\ (tr'[t] - zero') % NumBuffers = t
         /\ \A k \in Lanes : tr'[t] <= sent'[k]
  <2> SUFFICES ASSUME NEW t \in Slots, tr[t] > Arrived
               PROVE  /\ tr[t] \in Events /\ kind[tr[t]] # "l1accept"
                      /\ (tr[t] - zero') % NumBuffers = t
                      /\ \A k \in Lanes : tr[t] <= sent'[k]
    BY <1>2 DEF FrameIn, Sends, Slot
  <2>1. /\ tr[t] \in Events /\ kind[tr[t]] # "l1accept" /\ Slot(tr[t]) = t
        /\ \A k \in Lanes : tr[t] <= sent[k]
    BY DEF RingInv
  <2>2. tr[t] \in Nat
    BY DEF TypeInv
  <2>3. Zero(n) = zero
    BY <1>1, <1>3, <2>1, <2>2 DEF Renumbered
  <2>4. \A k \in Lanes : tr[t] <= sent'[k]
    BY <1>3, <1>4, <2>1, <2>2
  <2> QED
    BY <2>1, <2>3, <2>4 DEF FrameIn, Sends, Slot
<1>15. cur # None => cur' = Slot(Arrived)' /\ delivered # << >>
  <2> SUFFICES ASSUME cur # None
               PROVE  cur' = Slot(Arrived)' /\ delivered # << >>
    OBVIOUS
  <2>1. Zero(n) = zero
    BY DEF Renumbered
  <2> QED
    BY <1>2, <2>1 DEF RingInv, Slot, FrameIn, Sends
<1>16. \A k \in Lanes : Arrived' <= sent'[k] /\ sent'[k] <= Base' + NumBuffers
  BY <1>1, <1>2, <1>3, <1>4, <1>8, <1>9
<1>17. \A i \in DOMAIN delivered' : delivered'[i] = from' + i - 1
  BY DEF RingInv, FrameIn, Sends
<1>18. cur' # None => cur' = Slot(Arrived)' /\ delivered' # << >>
  BY <1>15 DEF FrameIn, Sends, None
<1> QED
  BY <1>11, <1>12, <1>13, <1>14, <1>16, <1>17, <1>18 DEF RingInv, Slot

LEMMA ReadCount ==
  ASSUME TypeInv, RingInv, CountInv, NEW l \in Lanes, NEW n, FrameIn(l, n), Renumbered(n)
  PROVE  CountInv'
<1> DEFINE s == (n - Zero(n)) % NumBuffers
<1>1. s \in Slots /\ n # 0
  <2>1. n \in Nat \ {0} /\ n - Zero(n) \in Int /\ NumBuffers \in Nat \ {0}
    BY ReadSlot, Sizes DEF FrameIn, Sends, Events
  <2>2. s \in 0 .. NumBuffers - 1
    BY <2>1, ModFacts, Zenon
  <2> QED
    BY <2>1, <2>2 DEF Slots
<1>2. buf[s][l] = 0
  <2>1. CASE Zero(n) = zero
    <3>1. s = Slot(sent[l] + 1)
      BY <2>1 DEF Slot, FrameIn, Sends
    <3> QED
      BY <3>1, NextSlot DEF FrameIn, Sends
  <2>2. CASE ~(Zero(n) = zero)
    BY <1>1, <2>2 DEF Renumbered
  <2> QED
    BY <2>1, <2>2
<1>3. \A t \in Slots, k \in Lanes : buf'[t][k] = IF t = s /\ k = l THEN n ELSE buf[t][k]
  BY <1>1 DEF FrameIn, Sends, TypeInv
<1>4. Frames' = Frames \cup {<<s, l>>} /\ <<s, l>> \notin Frames
  <2> HIDE DEF s
  <2> QED
    BY <1>1, <1>2, <1>3 DEF Frames
<1>5. Cardinality(Frames') = Cardinality(Frames) + 1
  BY <1>4, FiniteFrames, FS_AddElement
<1>6. Ahead' = Ahead
  BY DEF Ahead, Arrived, FrameIn, Sends
<1>7. dmaFree' = dmaFree - 1 /\ held' = held /\ trFree' = trFree
  BY DEF FrameIn, Sends
<1>8. dmaFree \in Nat /\ held \in Nat /\ Cardinality(Frames) \in Nat
  BY FiniteFrames, Sizes DEF TypeInv
<1> QED
  BY <1>5, <1>6, <1>7, <1>8 DEF CountInv

\* The mask of the slot is full when every other lane has sent the event, too.
LEMMA WholeSlot ==
  ASSUME TypeInv, RingInv, CountInv, NEW l \in Lanes, NEW n, Sends(l, n), Renumbered(n),
         NEW frames, frames = [buf EXCEPT ![(n - Zero(n)) % NumBuffers][l] = n]
  PROVE  Whole(frames[(n - Zero(n)) % NumBuffers]) <=> \A k \in Lanes : n <= sent'[k]
<1> DEFINE s == (n - Zero(n)) % NumBuffers
<1>1. s \in Slots /\ n # 0 /\ n \in Nat
  <2>1. n \in Nat \ {0} /\ n - Zero(n) \in Int /\ NumBuffers \in Nat \ {0}
    BY ReadSlot, Sizes DEF Sends, Events
  <2>2. s \in 0 .. NumBuffers - 1
    BY <2>1, ModFacts, Zenon
  <2> QED
    BY <2>1, <2>2 DEF Slots
<1>2. \A k \in Lanes : frames[s][k] = IF k = l THEN n ELSE buf[s][k]
  BY <1>1 DEF TypeInv
<1>3. /\ n = sent[l] + 1 /\ \A k \in Lanes : sent[k] \in Nat
      /\ \A k \in Lanes : sent'[k] = IF k = l THEN n ELSE sent[k]
  BY DEF Sends, TypeInv
<1>4. ASSUME NEW k \in Lanes, k # l
      PROVE  buf[s][k] # 0 <=> n <= sent[k]
  <2>1. CASE Zero(n) = zero
    <3>1. s = Slot(n)
      BY <2>1 DEF Slot
    <3>2. ASSUME buf[s][k] # 0
          PROVE  n <= sent[k]
      <4>1. buf[Slot(sent[l] + 1)][k] # 0 /\ dmaFree > 0
        BY <1>3, <3>1, <3>2 DEF Sends
      <4>2. buf[s][k] = n
        BY <1>3, <3>1, <4>1, NextSlot
      <4>3. n \in Released(k) + 1 .. sent[k]
        BY <1>1, <3>2, <4>2 DEF RingInv
      <4> QED
        BY <4>3
    <3>3. ASSUME n <= sent[k]
          PROVE  buf[s][k] # 0
      <4>1. Released(k) \in Nat /\ Released(k) <= Arrived /\ Arrived <= sent[l] /\ Arrived \in Nat
        BY Places DEF RingInv
      <4>2. n \in Released(k) + 1 .. sent[k]
        BY <1>1, <1>3, <3>3, <4>1
      <4>3. buf[s][k] = n
        BY <3>1, <4>2 DEF RingInv
      <4> QED
        BY <1>1, <4>3
    <3> QED
      BY <3>2, <3>3
  <2>2. CASE ~(Zero(n) = zero)
    BY <1>1, <1>3, <2>2 DEF Renumbered
  <2> QED
    BY <2>1, <2>2
<1>5. ASSUME NEW k \in Lanes
      PROVE  frames[s][k] # 0 <=> n <= sent'[k]
  BY <1>1, <1>2, <1>3, <1>4
<1> QED
  BY <1>5 DEF Whole

\* What QueueInv says of the queue q of w.
QueueAt(q, w, turn, first, next, begin) ==
  /\ next + turn = Number(first, w, Len(q) + 1)
  /\ \A i \in DOMAIN q :
       LET j == Number(first, w, i)
       IN /\ j \in first .. next - 1
          /\ q[i].size = begin[j + 1] - begin[j]
          /\ Same(q[i].start, begin[j] - zero, NumBuffers)

LEMMA QueueNext ==
  ASSUME NEW first, NEW next, NEW begin, UNCHANGED <<cworker, zero>>,
         \A w \in Workers : QueueAt(Queue(w)', w, Turn(w, rworker'), first, next, begin)
  PROVE  QueueInv(first, next, begin)'
<1> SUFFICES ASSUME NEW w \in Workers
             PROVE  (/\ next + Turn(w, rworker) = Number(first, w, Len(Queue(w)) + 1)
                     /\ \A i \in DOMAIN Queue(w) :
                          LET j == Number(first, w, i)
                          IN /\ j \in first .. next - 1
                             /\ Queue(w)[i].size = begin[j + 1] - begin[j]
                             /\ Same(Queue(w)[i].start, begin[j] - zero, NumBuffers))'
  BY DEF QueueInv
<1>0. QueueAt(Queue(w)', w, Turn(w, rworker'), first, next, begin)
  OBVIOUS
<1>1. \A i : Number(first, w, i)' = Number(first, w, i)
  BY DEF Number, Turn
<1>2. (next + Turn(w, rworker) = Number(first, w, Len(Queue(w)) + 1))'
  BY <1>0, <1>1 DEF Number, Turn, QueueAt
<1>3. ASSUME NEW i \in DOMAIN Queue(w)'
      PROVE  (LET j == Number(first, w, i)
              IN /\ j \in first .. next - 1
                 /\ Queue(w)[i].size = begin[j + 1] - begin[j]
                 /\ Same(Queue(w)[i].start, begin[j] - zero, NumBuffers))'
  BY <1>0, <1>1, <1>3 DEF Same, QueueAt
<1> QED
  BY <1>2, <1>3

LEMMA BothEmpty ==
  ASSUME NEW T, NEW s \in Seq(T), NEW t \in Seq(T), Len(s) + Len(t) = 0
  PROVE  s = << >> /\ t = << >>
<1>1. PICK i \in Nat, j \in Nat : i = Len(s) /\ j = Len(t)
  BY LenProperties
<1>2. i = 0 /\ j = 0
  BY <1>1
<1> QED
  BY <1>1, <1>2, EmptySeq

\* When the receiver has got to the last complete event, nothing is on its way.
LEMMA Idle ==
  ASSUME TypeInv, RingInv, NEW first, NEW next, NEW begin, OrderInv(first, next, begin),
         QueueInv(first, next, begin), Whence(next, begin) = Arrived
  PROVE  /\ first = next /\ begin[next] = Arrived + 1 /\ batch.size = 0
         /\ Collected(first, begin) = Arrived /\ pend = << >>
         /\ \A w \in Workers : inq[w] = << >> /\ outq[w] = << >>
<1>1. /\ Collected(first, begin) \in Int /\ begin[first] \in Int /\ begin[next] \in Int
      /\ Arrived <= Collected(first, begin) /\ Collected(first, begin) < begin[next]
      /\ begin[next] <= Whence(next, begin) + 1 /\ Arrived \in Nat
  BY OrderFacts, Places
<1>2. begin[next] = Arrived + 1 /\ Collected(first, begin) = Arrived
  BY <1>1
<1>3. batch.size = 0 /\ begin[first] + ci - 1 = Arrived
  <2>1. batch.size \in Nat
    BY DEF TypeInv
  <2> QED
    BY <1>1, <1>2, <2>1 DEF Whence, Collected
<1>4. first \in Nat /\ next \in Nat /\ first <= next /\ ci \in Nat
  BY DEF OrderInv, TypeInv
<1>5. CASE first < next
  <2>1. \A i, j \in first .. next : i < j => begin[i] < begin[j]
    BY DEF OrderInv
  <2>2. first \in first .. next /\ first + 1 \in first .. next /\ next \in first .. next
    BY <1>4, <1>5
  <2>3. begin[first] < begin[next]
    BY <1>5, <2>1, <2>2
  <2>4. ci # 0
    BY <1>1, <1>2, <1>3, <2>3
  <2>5. begin[first] + ci < begin[first + 1]
    BY <2>4 DEF OrderInv
  <2>6. begin[first + 1] \in Int
    BY <1>4 DEF OrderInv
  <2>7. begin[first + 1] <= begin[next]
    <3>1. CASE first + 1 < next
      BY <1>1, <2>1, <2>2, <2>6, <3>1
    <3>2. CASE first + 1 = next
      BY <2>6, <3>2
    <3> QED
      BY <1>4, <1>5, <3>1, <3>2
  <2> QED
    BY <1>1, <1>2, <1>3, <1>4, <2>5, <2>6, <2>7
<1>6. first = next
  BY <1>4, <1>5
<1>7. ASSUME NEW w \in Workers
      PROVE  inq[w] = << >> /\ outq[w] = << >>
  <2>1. inq[w] \in Seq([start : Int, size : Nat]) /\ outq[w] \in Seq([start : Int, size : Nat])
    BY DEF TypeInv
  <2>2. Queue(w) \in Seq([start : Int, size : Nat]) /\ Len(Queue(w)) = Len(outq[w]) + Len(inq[w])
    BY <2>1, ConcatProperties DEF Queue
  <2>3. \A i \in DOMAIN Queue(w) : Number(first, w, i) \in first .. next - 1
    BY DEF QueueInv
  <2>4. DOMAIN Queue(w) = {}
    BY <1>4, <1>6, <2>3
  <2>5. Len(Queue(w)) = 0
    <3>1. DOMAIN Queue(w) = 1 .. Len(Queue(w)) /\ Len(Queue(w)) \in Nat
      BY <2>2, LenProperties
    <3> QED
      BY <2>4, <3>1
  <2> QED
    BY <2>1, <2>2, <2>5, BothEmpty
<1>8. Len(pend) = 0 /\ pend \in Seq(Slots)
  BY <1>1, <1>2 DEF OrderInv, TypeInv
<1> QED
  BY <1>2, <1>3, <1>6, <1>7, <1>8, EmptySeq

\* The queues and the collector are as they were; the slots may be renumbered.
QueuesKept ==
  UNCHANGED <<inq, outq, wi, rworker, cworker, ci, pend, pebble, from, delivered>>

LEMMA KeptQueue ==
  ASSUME TypeInv, RingInv, NEW first, NEW next, NEW begin, OrderInv(first, next, begin),
         QueueInv(first, next, begin), WorkInv(first, begin), QueuesKept,
         zero' = zero \/ Whence(next, begin) = Arrived
  PROVE  QueueInv(first, next, begin)' /\ WorkInv(first, begin)'
<1>1. Arrived' = Arrived /\ Collected(first, begin)' = Collected(first, begin)
      /\ \A w \in Workers : Queue(w)' = Queue(w)
      /\ \A v \in Workers, i \in Nat : Number(first, v, i)' = Number(first, v, i)
      /\ \A u \in Workers : Turn(u, rworker)' = Turn(u, rworker)
  BY DEF QueuesKept, Arrived, Collected, Queue, Number, Turn
<1>2. CASE zero' = zero
  <2>1. \A e : Slot(e)' = Slot(e)
    BY <1>2 DEF Slot
  <2>2. QueueInv(first, next, begin)'
    <3>1. UNCHANGED <<cworker, zero>> /\ rworker' = rworker
      BY <1>2 DEF QueuesKept
    <3>2. ASSUME NEW w \in Workers
          PROVE  QueueAt(Queue(w), w, Turn(w, rworker), first, next, begin)
      BY DEF QueueInv, QueueAt
    <3>3. \A w \in Workers : QueueAt(Queue(w)', w, Turn(w, rworker'), first, next, begin)
      BY <1>1, <3>1, <3>2
    <3> QED
      BY <3>1, <3>3, QueueNext
  <2>3. WorkInv(first, begin)'
    BY <1>2, <1>1, <2>1 DEF WorkInv, QueuesKept, Number, Turn
  <2> QED
    BY <2>2, <2>3
<1>3. CASE Whence(next, begin) = Arrived
  <2>1. /\ Collected(first, begin) = Arrived
        /\ \A w \in Workers : inq[w] = << >> /\ outq[w] = << >>
    BY <1>3, Idle
  <2>2. \A w \in Workers : Queue(w) = << >>
    BY <2>1, ConcatEmptySeq DEF Queue
  <2>3. QueueInv(first, next, begin)'
    <3> SUFFICES ASSUME NEW w \in Workers
                 PROVE  /\ next + Turn(w, rworker') = (Number(first, w, Len(Queue(w)) + 1))'
                        /\ DOMAIN Queue(w)' = {}
      BY DEF QueueInv, Turn
    <3>1. Queue(w) = << >> /\ Queue(w)' = << >>
      BY <1>1, <2>2
    <3>2. next + Turn(w, rworker) = Number(first, w, Len(Queue(w)) + 1)
      BY DEF QueueInv
    <3>3. rworker' = rworker /\ cworker' = cworker
      BY DEF QueuesKept
    <3> QED
      BY <3>1, <3>2, <3>3 DEF Number, Turn
  <2>4. Arrived + 1 .. Arrived = {}
    BY Places
  <2>5. WorkInv(first, begin)'
    BY <1>1, <2>1, <2>4 DEF WorkInv, QueuesKept
  <2> QED
    BY <2>3, <2>5
<1> QED
  BY <1>2, <1>3

LEMMA ReadRenumbered ==
  ASSUME TypeInv, RingInv, NEW first, NEW next, NEW begin, FlowInv(first, next, begin),
         NEW l \in Lanes, NEW n, Sends(l, n), MaySend(l, n)
  PROVE  /\ Renumbered(n)
         /\ zero' = zero \/ (Whence(next, begin) = Arrived /\ Begins(n))
         /\ Begins(n) => Arrived = n - 1 /\ Whence(next, begin) = n - 1
<1>1. n = sent[l] + 1 /\ n \in Events /\ zero' = Zero(n)
  BY DEF Sends
<1>2. CASE Begins(n)
  <2>1. /\ Arrived = n - 1 /\ Whence(next, begin) = n - 1
        /\ \/ zero = n - 1
           \/ /\ cur = None /\ \A k \in Lanes : sent[k] = n - 1
              /\ \A s \in Slots, k \in Lanes : buf[s][k] = 0
    BY <1>1, <1>2, BeginsQuiet
  <2>2. Zero(n) = n - 1
    BY <1>1, <1>2, ReadSlot
  <2> QED
    BY <1>1, <1>2, <2>1, <2>2 DEF Renumbered
<1>3. CASE ~Begins(n)
  <2>1. Zero(n) = zero
    BY <1>1, <1>3, ReadSlot
  <2> QED
    BY <1>1, <1>3, <2>1 DEF Renumbered
<1> QED
  BY <1>2, <1>3

\* The last complete event, once lane l has sent event n.
LEMMA ReadWhence ==
  ASSUME TypeInv, RingInv, NEW first, NEW next, NEW begin, OrderInv(first, next, begin),
         NEW l \in Lanes, NEW n, Sends(l, n)
  PROVE  /\ (\A k \in Lanes : n <= sent'[k]) => Whence(next, begin) = n - 1
         /\ ~(\A k \in Lanes : n <= sent'[k]) =>
              \E k \in Lanes : sent'[k] = Whence(next, begin)
         /\ \A k \in Lanes : Whence(next, begin) <= sent'[k] /\ sent[k] <= sent'[k]
         /\ n \in Nat /\ Whence(next, begin) < n
<1> DEFINE c == Whence(next, begin)
<1>1. c \in Int /\ \A k \in Lanes : c <= sent[k]
  BY OrderFacts
<1>2. PICK k \in Lanes : c = sent[k]
  BY DEF OrderInv
<1>3. n = sent[l] + 1 /\ \A j \in Lanes : sent[j] \in Nat
  BY DEF Sends, TypeInv
<1>4. \A j \in Lanes : sent'[j] = IF j = l THEN n ELSE sent[j]
  BY DEF Sends, TypeInv
<1> HIDE DEF c
<1>5. ASSUME \A j \in Lanes : n <= sent'[j]
      PROVE  c = n - 1
  BY <1>1, <1>2, <1>3, <1>4, <1>5
<1>6. ASSUME NEW j \in Lanes, ~(n <= sent'[j])
      PROVE  \E i \in Lanes : sent'[i] = c
  <2>1. j # l /\ sent[j] < n /\ sent'[j] = sent[j]
    BY <1>3, <1>4, <1>6
  <2>2. CASE k = l
    <3>1. c = sent[j]
      BY <1>1, <1>2, <1>3, <2>1, <2>2
    <3> QED
      BY <2>1, <3>1
  <2>3. CASE k # l
    BY <1>2, <1>4, <2>3
  <2> QED
    BY <2>2, <2>3
<1>7. (\A j \in Lanes : c <= sent'[j] /\ sent[j] <= sent'[j]) /\ n \in Nat /\ c < n
  BY <1>1, <1>3, <1>4
<1> QED
  BY <1>5, <1>6, <1>7 DEF c

LEMMA ReadOrder ==
  ASSUME TypeInv, RingInv, NEW first, NEW next, NEW begin, FlowInv(first, next, begin),
         NEW l \in Lanes, NEW n, Sends(l, n), MaySend(l, n), QueuesKept,
         batch.size \in Nat,
         batch'.size = batch.size + (IF \A k \in Lanes : n <= sent'[k] THEN 1 ELSE 0)
  PROVE  OrderInv(first, next, begin)'
<1>1. OrderInv(first, next, begin) /\ QueueInv(first, next, begin)
  BY DEF FlowInv
<1>2. Arrived' = Arrived /\ Collected(first, begin)' = Collected(first, begin)
  BY DEF QueuesKept, Arrived, Collected
<1>3. Whence(next, begin) \in Int /\ begin[next] \in Int
  BY <1>1, OrderFacts
<1>4. Whence(next, begin)' =
        Whence(next, begin) + (IF \A k \in Lanes : n <= sent'[k] THEN 1 ELSE 0)
  BY <1>3 DEF Whence
<1>5. (\A k \in Lanes : Whence(next, begin)' <= sent'[k])
      /\ \E k \in Lanes : Whence(next, begin)' = sent'[k]
  <2>1. CASE \A k \in Lanes : n <= sent'[k]
    <3>1. Whence(next, begin)' = n
      BY <1>1, <1>3, <1>4, <2>1, ReadWhence
    <3>2. sent'[l] = n
      BY DEF Sends, TypeInv
    <3> QED
      BY <2>1, <3>1, <3>2
  <2>2. CASE ~(\A k \in Lanes : n <= sent'[k])
    <3>1. Whence(next, begin)' = Whence(next, begin)
      BY <1>3, <1>4, <2>2
    <3> QED
      BY <1>1, <2>2, <3>1, ReadWhence
  <2> QED
    BY <2>1, <2>2
<1>6. \A i \in DOMAIN pend : pend[i] = Slot(Arrived + i)'
  <2>1. CASE zero' = zero
    BY <1>1, <1>2, <2>1 DEF OrderInv, Slot
  <2>2. CASE zero' # zero
    <3>1. pend = << >>
      BY <1>1, <2>2, ReadRenumbered, Idle
    <3> QED
      BY <3>1
  <2> QED
    BY <2>1, <2>2
<1> QED
  BY <1>1, <1>2, <1>5, <1>6 DEF OrderInv, QueuesKept

-----------------------------------------------------------------------------
(***************************************************************************)
(* The queues of the workers                                               *)
(***************************************************************************)

LEMMA NextWorker ==
  ASSUME NEW v \in Workers
  PROVE  /\ (v + 1) % NumWorkers = (IF v + 1 = NumWorkers THEN 0 ELSE v + 1)
         /\ (v + 1) % NumWorkers \in Workers
<1>1. v \in Nat /\ v + 1 <= NumWorkers /\ NumWorkers \in Nat \ {0}
  BY Sizes DEF Workers
<1>2. CASE v + 1 = NumWorkers
  <2>1. Congruent(NumWorkers, 0, NumWorkers)
    <3>1. NumWorkers = 0 + NumWorkers * 1 /\ 1 \in Int
      BY <1>1
    <3> QED
      BY <3>1 DEF Congruent
  <2>2. NumWorkers % NumWorkers = 0 % NumWorkers
    BY <1>1, <2>1, ModMultiple
  <2>3. 0 % NumWorkers = 0
    BY <1>1, ModSmall
  <2> QED
    BY <1>1, <1>2, <2>2, <2>3 DEF Workers
<1>3. CASE v + 1 # NumWorkers
  <2>1. v + 1 \in 0 .. NumWorkers - 1
    BY <1>1, <1>3
  <2>2. (v + 1) % NumWorkers = v + 1
    BY <1>1, <2>1, ModSmall
  <2> QED
    BY <1>3, <2>1, <2>2 DEF Workers
<1> QED
  BY <1>2, <1>3

LEMMA NextTurn ==
  ASSUME NEW v \in Workers, NEW w \in Workers
  PROVE  /\ Turn(w, v) \in Nat /\ Turn(w, v) < NumWorkers
         /\ Turn(w, v) = 0 <=> w = v
         /\ Turn(w, (v + 1) % NumWorkers) =
              (IF w = v THEN NumWorkers - 1 ELSE Turn(w, v) - 1)
<1>1. v \in Nat /\ v < NumWorkers /\ w \in Nat /\ w < NumWorkers /\ NumWorkers \in Nat \ {0}
  BY Sizes DEF Workers
<1> DEFINE u == (v + 1) % NumWorkers
<1>2. u = IF v + 1 = NumWorkers THEN 0 ELSE v + 1
  BY NextWorker
<1> HIDE DEF u
<1>3. Turn(w, u) = IF w = v THEN NumWorkers - 1 ELSE Turn(w, v) - 1
  BY <1>1, <1>2 DEF Turn
<1>4. Turn(w, v) \in Nat /\ Turn(w, v) < NumWorkers /\ (Turn(w, v) = 0 <=> w = v)
  BY <1>1 DEF Turn
<1> QED
  BY <1>3, <1>4 DEF u

LEMMA NextNumber ==
  ASSUME TypeInv, NEW first \in Nat, NEW w \in Workers, NEW i \in Nat
  PROVE  /\ Number(first, w, i) \in Int
         /\ Number(first, w, 1) = first + Turn(w, cworker)
         /\ Number(first, w, i + 1) = Number(first, w, i) + NumWorkers
<1>1. cworker \in Workers /\ NumWorkers \in Nat
  BY Sizes DEF TypeInv
<1>2. Turn(w, cworker) \in Nat
  BY <1>1, NextTurn
<1>3. NumWorkers * (i - 1) \in Int /\ NumWorkers * ((i + 1) - 1) = NumWorkers * (i - 1) + NumWorkers
      /\ NumWorkers * (1 - 1) = 0
  BY <1>1, SMT
<1> QED
  BY <1>1, <1>2, <1>3 DEF Number

LEMMA HeadFirst ==
  ASSUME NEW T, NEW s \in Seq(T), s # << >>
  PROVE  Head(s) = s[1] /\ Head(s) \in T /\ 1 \in DOMAIN s
OBVIOUS

\* The sequence s followed by t.
LEMMA JoinFacts ==
  ASSUME NEW T, NEW s \in Seq(T), NEW t \in Seq(T)
  PROVE  /\ s \o t \in Seq(T) /\ Len(s \o t) = Len(s) + Len(t)
         /\ Len(s \o t) \in Nat /\ Len(s) \in Nat /\ Len(t) \in Nat
         /\ DOMAIN (s \o t) = 1 .. Len(s \o t) /\ DOMAIN s = 1 .. Len(s)
         /\ \A i \in DOMAIN s : i \in DOMAIN (s \o t) /\ (s \o t)[i] = s[i]
         /\ t # << >> => /\ Len(s) + 1 \in DOMAIN (s \o t)
                         /\ (s \o t)[Len(s) + 1] = Head(t)
                         /\ Head(t) \in T /\ Len(t) > 0
<1>1. s \o t \in Seq(T) /\ Len(s \o t) = Len(s) + Len(t)
      /\ \A i \in 1 .. Len(s) + Len(t) :
           (s \o t)[i] = IF i <= Len(s) THEN s[i] ELSE t[i - Len(s)]
  BY ConcatProperties
<1>2. Len(s \o t) \in Nat /\ Len(s) \in Nat /\ Len(t) \in Nat
      /\ DOMAIN (s \o t) = 1 .. Len(s \o t) /\ DOMAIN s = 1 .. Len(s)
  BY <1>1, LenProperties
<1>3. \A i \in DOMAIN s : i \in DOMAIN (s \o t) /\ (s \o t)[i] = s[i]
  <2> DEFINE m == Len(s)
             n == Len(t)
             u == s \o t
  <2>1. m \in Nat /\ n \in Nat /\ DOMAIN u = 1 .. m + n /\ DOMAIN s = 1 .. m
        /\ \A i \in 1 .. m + n : u[i] = IF i <= m THEN s[i] ELSE t[i - m]
    BY <1>1, <1>2
  <2> HIDE DEF m, n, u
  <2>2. \A i \in DOMAIN s : i \in DOMAIN u /\ u[i] = s[i]
    BY <2>1
  <2> QED
    BY <2>2 DEF u
<1>4. ASSUME t # << >>
      PROVE  /\ Len(s) + 1 \in DOMAIN (s \o t) /\ (s \o t)[Len(s) + 1] = Head(t)
             /\ Head(t) \in T /\ Len(t) > 0
  <2> DEFINE m == Len(s)
             n == Len(t)
             u == s \o t
  <2>1. m \in Nat /\ n \in Nat /\ DOMAIN u = 1 .. m + n
        /\ \A i \in 1 .. m + n : u[i] = IF i <= m THEN s[i] ELSE t[i - m]
    BY <1>1, <1>2
  <2>2. n \in Nat \ {0}
    BY <1>4, EmptySeq
  <2>3. Head(t) = t[1] /\ Head(t) \in T
    BY <1>4, HeadFirst
  <2> HIDE DEF m, n, u
  <2>4. m + 1 \in DOMAIN u /\ u[m + 1] = t[1] /\ n > 0
    <3>1. m + 1 \in 1 .. m + n /\ ~(m + 1 <= m) /\ (m + 1) - m = 1
      BY <2>1, <2>2
    <3>2. u[m + 1] = t[(m + 1) - m]
      BY <2>1, <3>1
    <3> QED
      BY <2>1, <2>2, <3>1, <3>2
  <2> QED
    BY <2>3, <2>4 DEF m, n, u
<1> QED
  BY <1>1, <1>2, <1>3, <1>4

LEMMA JoinAppend ==
  ASSUME NEW T, NEW s \in Seq(T), NEW t \in Seq(T), NEW e \in T
  PROVE  /\ Append(t, e) \in Seq(T) /\ Append(t, e) # << >>
         /\ Len(s \o Append(t, e)) = Len(s \o t) + 1
         /\ \A i \in 1 .. Len(s \o t) : (s \o Append(t, e))[i] = (s \o t)[i]
         /\ (s \o Append(t, e))[Len(s \o t) + 1] = e
         /\ DOMAIN (s \o Append(t, e)) = 1 .. Len(s \o t) + 1
         /\ Head(Append(t, e)) = IF t = << >> THEN e ELSE Head(t)
<1>1. Append(t, e) \in Seq(T) /\ Len(Append(t, e)) = Len(t) + 1
      /\ (\A i \in 1 .. Len(t) : Append(t, e)[i] = t[i]) /\ Append(t, e)[Len(t) + 1] = e
      /\ Append(t, e) # << >>
  BY AppendProperties
<1>3. s \o t \in Seq(T)
  BY ConcatProperties
<1>2. s \o Append(t, e) = Append(s \o t, e)
  <2>1. << e >> \in Seq(T)
    OBVIOUS
  <2>2. Append(t, e) = t \o << e >> /\ Append(s \o t, e) = (s \o t) \o << e >>
    BY <1>3, AppendIsConcat
  <2>3. (s \o t) \o << e >> = s \o (t \o << e >>)
    BY <2>1, ConcatAssociative
  <2> QED
    BY <2>2, <2>3
<1>4. Append(s \o t, e) \in Seq(T) /\ Len(Append(s \o t, e)) = Len(s \o t) + 1
      /\ (\A i \in 1 .. Len(s \o t) : Append(s \o t, e)[i] = (s \o t)[i])
      /\ Append(s \o t, e)[Len(s \o t) + 1] = e
  BY <1>3, AppendProperties
<1>5. DOMAIN Append(s \o t, e) = 1 .. Len(s \o t) + 1
  BY <1>4, LenProperties
<1>6. Head(Append(t, e)) = Append(t, e)[1]
  BY <1>1, HeadFirst
<1>7. CASE t = << >>
  <2>1. Len(t) = 0
    BY <1>7, EmptySeq
  <2> QED
    BY <1>1, <1>2, <1>4, <1>5, <1>6, <1>7, <2>1
<1>8. CASE t # << >>
  <2>1. Len(t) \in Nat \ {0}
    BY <1>8, EmptySeq
  <2>2. 1 \in 1 .. Len(t)
    BY <2>1
  <2>3. Head(t) = t[1]
    BY <1>8, HeadFirst
  <2> QED
    BY <1>1, <1>2, <1>4, <1>5, <1>6, <1>8, <2>2, <2>3
<1> QED
  BY <1>7, <1>8

\* The first of t goes to the end of s.
LEMMA JoinMove ==
  ASSUME NEW T, NEW s \in Seq(T), NEW t \in Seq(T), t # << >>
  PROVE  /\ Append(s, Head(t)) \o Tail(t) = s \o t
         /\ Append(s, Head(t)) \in Seq(T) /\ Tail(t) \in Seq(T)
         /\ Len(Append(s, Head(t))) = Len(s) + 1
         /\ \A i \in 1 .. Len(s) : Append(s, Head(t))[i] = s[i]
<1>1. Head(t) \in T /\ Tail(t) \in Seq(T) /\ t = << Head(t) >> \o Tail(t)
  <2>1. Len(t) \in Nat \ {0}
    BY EmptySeq
  <2>2. 1 \in 1 .. Len(t) /\ Len(t) \in 1 .. Len(t)
    BY <2>1
  <2>3. SubSeq(t, 1, Len(t)) = << t[1] >> \o SubSeq(t, 1 + 1, Len(t))
    BY <2>2, SubSeqRecursiveFirst
  <2>4. SubSeq(t, 1, Len(t)) = t /\ Tail(t) = SubSeq(t, 2, Len(t)) /\ Head(t) = t[1]
    BY SubSeqFull, TailIsSubSeq, HeadFirst
  <2>5. 1 + 1 = 2
    OBVIOUS
  <2> QED
    BY <2>3, <2>4, <2>5, HeadTailProperties
<1>2. Append(s, Head(t)) = s \o << Head(t) >> /\ << Head(t) >> \in Seq(T)
  <2>1. << Head(t) >> \in Seq(T)
    BY <1>1
  <2> QED
    BY <1>1, <2>1, AppendIsConcat
<1>3. (s \o << Head(t) >>) \o Tail(t) = s \o (<< Head(t) >> \o Tail(t))
  BY <1>1, <1>2, ConcatAssociative
<1> QED
  BY <1>1, <1>2, <1>3, AppendProperties

\* The first of s is taken.
LEMMA JoinTail ==
  ASSUME NEW T, NEW s \in Seq(T), NEW t \in Seq(T), s # << >>
  PROVE  /\ Tail(s) \in Seq(T) /\ Len(Tail(s)) = Len(s) - 1
         /\ \A i \in 1 .. Len(s) - 1 : Tail(s)[i] = s[i + 1]
         /\ Len(Tail(s) \o t) = Len(s \o t) - 1 /\ Len(s \o t) > 0
         /\ DOMAIN (Tail(s) \o t) = 1 .. Len(s \o t) - 1
         /\ \A i \in 1 .. Len(s \o t) - 1 : (Tail(s) \o t)[i] = (s \o t)[i + 1]
         /\ (s \o t)[1] = Head(s)
<1>1. Tail(s) \in Seq(T) /\ Len(Tail(s)) = Len(s) - 1
      /\ \A i \in 1 .. Len(Tail(s)) : Tail(s)[i] = s[i + 1]
  BY HeadTailProperties
<1>2. Head(s) = s[1]
  BY HeadFirst
<1> DEFINE m == Len(s)
           n == Len(t)
           u == s \o t
           v == Tail(s) \o t
           r == Tail(s)
<1>3. m \in Nat \ {0} /\ n \in Nat
  BY EmptySeq, LenProperties
<1>4. Len(u) = m + n /\ \A i \in 1 .. m + n : u[i] = IF i <= m THEN s[i] ELSE t[i - m]
  BY ConcatProperties
<1>5. v \in Seq(T) /\ Len(v) = Len(r) + n
      /\ \A i \in 1 .. Len(r) + n : v[i] = IF i <= Len(r) THEN r[i] ELSE t[i - Len(r)]
  BY <1>1, ConcatProperties
<1>6. DOMAIN v = 1 .. Len(v)
  BY <1>5, LenProperties
<1>7. Len(r) = m - 1 /\ \A i \in 1 .. Len(r) : r[i] = s[i + 1]
  BY <1>1
<1> HIDE DEF m, n, u, v, r
<1>8. Len(v) = Len(u) - 1 /\ Len(u) > 0 /\ DOMAIN v = 1 .. Len(u) - 1
  BY <1>3, <1>4, <1>5, <1>6, <1>7
<1>9. ASSUME NEW i \in 1 .. Len(u) - 1
      PROVE  v[i] = u[i + 1]
  <2>1. i \in 1 .. (m + n) - 1
    BY <1>3, <1>4
  <2>2. CASE i <= m - 1
    <3>1. i \in 1 .. Len(r) + n /\ i \in 1 .. Len(r) /\ i + 1 \in 1 .. m + n /\ i + 1 <= m
      BY <1>3, <1>7, <2>1, <2>2
    <3> QED
      BY <1>4, <1>5, <1>7, <3>1
  <2>3. CASE ~(i <= m - 1)
    <3>1. /\ i \in 1 .. Len(r) + n /\ ~(i <= Len(r)) /\ i + 1 \in 1 .. m + n /\ ~(i + 1 <= m)
          /\ i - Len(r) = (i + 1) - m
      BY <1>3, <1>7, <2>1, <2>3
    <3> QED
      BY <1>4, <1>5, <3>1
  <2> QED
    BY <2>2, <2>3
<1>10. u[1] = s[1]
  <2>1. 1 \in 1 .. m + n /\ 1 <= m
    BY <1>3
  <2> QED
    BY <1>4, <2>1
<1> QED
  BY <1>1, <1>2, <1>7, <1>8, <1>9, <1>10 DEF m, n, u, v, r
LEMMA QueueFacts ==
  ASSUME TypeInv, NEW w \in Workers
  PROVE  /\ inq[w] \in Seq([start : Int, size : Nat]) /\ outq[w] \in Seq([start : Int, size : Nat])
         /\ Queue(w) = outq[w] \o inq[w]
         /\ Queue(w) \in Seq([start : Int, size : Nat]) /\ Len(Queue(w)) \in Nat
         /\ DOMAIN Queue(w) = 1 .. Len(Queue(w))
         /\ Len(outq[w]) \in Nat /\ DOMAIN outq[w] = 1 .. Len(outq[w])
         /\ \A i \in DOMAIN outq[w] : i \in DOMAIN Queue(w) /\ Queue(w)[i] = outq[w][i]
         /\ inq[w] # << >> => /\ Len(outq[w]) + 1 \in DOMAIN Queue(w)
                              /\ Queue(w)[Len(outq[w]) + 1] = Head(inq[w])
                              /\ Head(inq[w]) \in [start : Int, size : Nat]
<1> DEFINE T == [start : Int, size : Nat]
<1>1. inq[w] \in Seq(T) /\ outq[w] \in Seq(T)
  BY DEF TypeInv
<1> HIDE DEF T
<1>2. /\ outq[w] \o inq[w] \in Seq(T) /\ Len(outq[w] \o inq[w]) \in Nat
      /\ DOMAIN (outq[w] \o inq[w]) = 1 .. Len(outq[w] \o inq[w])
      /\ Len(outq[w]) \in Nat /\ DOMAIN outq[w] = 1 .. Len(outq[w])
      /\ \A i \in DOMAIN outq[w] : /\ i \in DOMAIN (outq[w] \o inq[w])
                                   /\ (outq[w] \o inq[w])[i] = outq[w][i]
      /\ inq[w] # << >> => /\ Len(outq[w]) + 1 \in DOMAIN (outq[w] \o inq[w])
                           /\ (outq[w] \o inq[w])[Len(outq[w]) + 1] = Head(inq[w])
                           /\ Head(inq[w]) \in T
  <2> DEFINE s == outq[w]
             r == inq[w]
  <2>1. s \in Seq(T) /\ r \in Seq(T)
    BY <1>1
  <2> HIDE DEF s, r
  <2>2. /\ s \o r \in Seq(T) /\ Len(s \o r) \in Nat
        /\ DOMAIN (s \o r) = 1 .. Len(s \o r)
        /\ Len(s) \in Nat /\ DOMAIN s = 1 .. Len(s)
        /\ \A i \in DOMAIN s : i \in DOMAIN (s \o r) /\ (s \o r)[i] = s[i]
        /\ r # << >> => /\ Len(s) + 1 \in DOMAIN (s \o r)
                        /\ (s \o r)[Len(s) + 1] = Head(r) /\ Head(r) \in T
    BY <2>1, JoinFacts
  <2> QED
    BY <2>2 DEF s, r
<1>3. Queue(w) = outq[w] \o inq[w]
  BY DEF Queue
<1> QED
  BY <1>1, <1>2, <1>3 DEF T

\* A batch at place i of the queue of w, and where it begins and ends.
LEMMA PlaceFacts ==
  ASSUME TypeInv, NEW first, NEW next, NEW begin, OrderInv(first, next, begin),
         QueueInv(first, next, begin), NEW w \in Workers, NEW i \in DOMAIN Queue(w)
  PROVE  /\ i \in Nat /\ Number(first, w, i) \in first .. next - 1
         /\ Number(first, w, i) \in Nat /\ Number(first, w, i) + 1 \in Nat
         /\ begin[Number(first, w, i)] \in Int /\ begin[Number(first, w, i) + 1] \in Int
         /\ begin[Number(first, w, i)] < begin[Number(first, w, i) + 1]
<1>1. i \in Nat
  BY QueueFacts
<1>2. first \in Nat /\ next \in Nat /\ begin \in [Nat -> Int]
      /\ \A j, k \in first .. next : j < k => begin[j] < begin[k]
  BY DEF OrderInv
<1>3. Number(first, w, i) \in first .. next - 1
  BY DEF QueueInv
<1> DEFINE j == Number(first, w, i)
<1>4. j \in first .. next - 1
  BY <1>3
<1> HIDE DEF j
<1>5. j \in Nat /\ j + 1 \in Nat /\ j \in first .. next /\ j + 1 \in first .. next /\ j < j + 1
  BY <1>2, <1>4
<1>6. begin[j] < begin[j + 1]
  BY <1>2, <1>5
<1> QED
  BY <1>1, <1>2, <1>3, <1>5, <1>6 DEF j

\* The reader has made batch b of the events up to e - 1.
Pushed(b, e, next, begin) ==
  /\ b \in [start : Int, size : Nat] /\ e \in Int /\ begin[next] < e
  /\ b.size = e - begin[next] /\ Same(b.start, begin[next] - zero, NumBuffers)
  /\ inq' = [inq EXCEPT ![rworker] = Append(@, b)]
  /\ rworker' = (rworker + 1) % NumWorkers
  /\ UNCHANGED <<outq, wi, cworker, ci, pend, pebble, from, delivered, zero>>

LEMMA PushQueue ==
  ASSUME TypeInv, NEW first, NEW next, NEW begin, OrderInv(first, next, begin),
         QueueInv(first, next, begin), NEW b, NEW e, Pushed(b, e, next, begin),
         NEW begin2, begin2 = [begin EXCEPT ![next + 1] = e]
  PROVE  QueueInv(first, next + 1, begin2)'
<1>1. first \in Nat /\ next \in Nat /\ begin \in [Nat -> Int] /\ first <= next /\ e \in Int
  BY DEF OrderInv, Pushed
<1>2. next + 1 \in Nat /\ begin2[next + 1] = e /\ \A j \in first .. next : begin2[j] = begin[j]
  BY <1>1
<1>0. UNCHANGED <<cworker, zero>>
  BY DEF Pushed
<1> SUFFICES ASSUME NEW w \in Workers
             PROVE  QueueAt(Queue(w)', w, Turn(w, rworker'), first, next + 1, begin2)
  BY <1>0, QueueNext
<1> DEFINE m == Len(Queue(w))
           t == Turn(w, rworker)
<1>3. m \in Nat /\ DOMAIN Queue(w) = 1 .. m /\ inq[w] \in Seq([start : Int, size : Nat])
      /\ outq[w] \in Seq([start : Int, size : Nat]) /\ Queue(w) = outq[w] \o inq[w]
  BY QueueFacts
<1>4. rworker \in Workers /\ inq \in [Workers -> Seq([start : Int, size : Nat])]
  BY DEF TypeInv
<1>5. t \in Nat /\ t < NumWorkers /\ (t = 0 <=> w = rworker)
      /\ Turn(w, rworker') = IF w = rworker THEN NumWorkers - 1 ELSE t - 1
  BY <1>4, NextTurn DEF Pushed
<1>6. next + t = Number(first, w, m + 1)
  BY DEF QueueInv
<1>7. \A i \in 1 .. m : LET j == Number(first, w, i)
                        IN /\ j \in first .. next - 1
                           /\ Queue(w)[i].size = begin[j + 1] - begin[j]
                           /\ Same(Queue(w)[i].start, begin[j] - zero, NumBuffers)
  BY <1>3 DEF QueueInv
<1>8. ASSUME NEW i \in 1 .. m
      PROVE  /\ Number(first, w, i) \in first .. (next + 1) - 1
             /\ Queue(w)[i].size = begin2[Number(first, w, i) + 1] - begin2[Number(first, w, i)]
             /\ Same(Queue(w)[i].start, begin2[Number(first, w, i)] - zero, NumBuffers)
  <2> DEFINE j == Number(first, w, i)
  <2>1. j \in first .. next - 1
    BY <1>7
  <2> HIDE DEF j
  <2>2. j \in first .. next /\ j + 1 \in first .. next /\ j \in first .. (next + 1) - 1
    BY <1>1, <2>1
  <2> QED
    BY <1>2, <1>7, <2>2 DEF j
<1>9. CASE w # rworker
  <2>1. Queue(w)' = Queue(w)
    BY <1>4, <1>9 DEF Queue, Pushed
  <2>2. next + 1 + Turn(w, rworker') = next + t
    BY <1>1, <1>5, <1>9
  <2> QED
    <3>1. next + 1 + Turn(w, rworker') = Number(first, w, Len(Queue(w)') + 1)
      BY <1>6, <2>1, <2>2
    <3>2. \A i \in DOMAIN Queue(w)' :
            LET j == Number(first, w, i)
            IN /\ j \in first .. (next + 1) - 1
               /\ Queue(w)'[i].size = begin2[j + 1] - begin2[j]
               /\ Same(Queue(w)'[i].start, begin2[j] - zero, NumBuffers)
      BY <1>3, <1>8, <2>1
    <3> QED
      BY <3>1, <3>2 DEF QueueAt
<1>10. CASE w = rworker
  <2>1. b \in [start : Int, size : Nat]
    BY DEF Pushed
  <2>2. Queue(w)' = outq[w] \o Append(inq[w], b)
    BY <1>4, <1>10 DEF Queue, Pushed
  <2>3. /\ Len(Queue(w)') = m + 1 /\ DOMAIN Queue(w)' = 1 .. m + 1
        /\ \A i \in 1 .. m : Queue(w)'[i] = Queue(w)[i]
        /\ Queue(w)'[m + 1] = b
    <3> DEFINE T == [start : Int, size : Nat]
    <3>1. inq[w] \in Seq(T) /\ outq[w] \in Seq(T) /\ b \in T
      BY <1>3, <2>1
    <3> HIDE DEF T
    <3>2. /\ Len(outq[w] \o Append(inq[w], b)) = Len(outq[w] \o inq[w]) + 1
          /\ DOMAIN (outq[w] \o Append(inq[w], b)) = 1 .. Len(outq[w] \o inq[w]) + 1
          /\ \A i \in 1 .. Len(outq[w] \o inq[w]) :
               (outq[w] \o Append(inq[w], b))[i] = (outq[w] \o inq[w])[i]
          /\ (outq[w] \o Append(inq[w], b))[Len(outq[w] \o inq[w]) + 1] = b
      <4> DEFINE s == outq[w]
                 r == inq[w]
      <4>1. s \in Seq(T) /\ r \in Seq(T) /\ b \in T
        BY <3>1
      <4> HIDE DEF s, r
      <4>2. /\ Len(s \o Append(r, b)) = Len(s \o r) + 1
            /\ DOMAIN (s \o Append(r, b)) = 1 .. Len(s \o r) + 1
            /\ \A i \in 1 .. Len(s \o r) : (s \o Append(r, b))[i] = (s \o r)[i]
            /\ (s \o Append(r, b))[Len(s \o r) + 1] = b
        BY <4>1, JoinAppend
      <4> QED
        BY <4>2 DEF s, r
    <3>3. outq[w] \o inq[w] = Queue(w)
      BY <1>3
    <3> QED
      BY <2>2, <3>2, <3>3
  <2>4. Number(first, w, m + 1) = next
    BY <1>1, <1>5, <1>6, <1>10
  <2>5. next + 1 + Turn(w, rworker') = Number(first, w, (m + 1) + 1)
    <3>1. Number(first, w, (m + 1) + 1) = Number(first, w, m + 1) + NumWorkers
      <4> HIDE DEF m
      <4>1. m + 1 \in Nat
        BY <1>3
      <4> QED
        BY <1>1, <4>1, NextNumber
    <3>2. NumWorkers \in Nat
      BY Sizes
    <3> QED
      BY <1>1, <1>5, <1>10, <2>4, <3>1, <3>2
  <2>6. /\ next \in first .. (next + 1) - 1 /\ b.size = begin2[next + 1] - begin2[next]
        /\ Same(b.start, begin2[next] - zero, NumBuffers)
    <3>1. next \in first .. next
      BY <1>1
    <3> QED
      BY <1>1, <1>2, <3>1 DEF Pushed
  <2>7. \A i \in 1 .. m + 1 : i = m + 1 \/ i \in 1 .. m
    <3> HIDE DEF m
    <3> QED
      BY <1>3
  <2> QED
    <3>1. next + 1 + Turn(w, rworker') = Number(first, w, Len(Queue(w)') + 1)
      BY <2>3, <2>5
    <3>2. ASSUME NEW i \in DOMAIN Queue(w)'
          PROVE  LET j == Number(first, w, i)
                 IN /\ j \in first .. (next + 1) - 1
                    /\ Queue(w)'[i].size = begin2[j + 1] - begin2[j]
                    /\ Same(Queue(w)'[i].start, begin2[j] - zero, NumBuffers)
      <4>1. i = m + 1 \/ i \in 1 .. m
        BY <2>3, <2>7, <3>2
      <4>2. CASE i = m + 1
        BY <2>3, <2>4, <2>6, <4>2
      <4>3. CASE i \in 1 .. m
        BY <1>8, <2>3, <4>3
      <4> QED
        BY <4>1, <4>2, <4>3
    <3> QED
      BY <3>1, <3>2 DEF QueueAt
<1> QED
  BY <1>9, <1>10

LEMMA WorkNext ==
  ASSUME NEW first, NEW begin, UNCHANGED cworker, ci' # 0 => outq'[cworker] # << >>,
         \A w \in Workers : IF inq'[w] = << >> THEN wi'[w] = 0 ELSE wi'[w] < Head(inq'[w]).size,
         \A w \in Workers : \A i \in DOMAIN outq'[w] :
           \A e \in begin[Number(first, w, i)] .. begin[Number(first, w, i) + 1] - 1 :
             e > Collected(first, begin)' => pebble'[Slot(e)'] = e,
         \A w \in Workers : inq'[w] # << >> =>
           LET b == begin[Number(first, w, Len(outq'[w]) + 1)]
           IN \A e \in b .. b + wi'[w] - 1 :
                e > Collected(first, begin)' => pebble'[Slot(e)'] = e,
         \A e \in Arrived' + 1 .. Collected(first, begin)' : pebble'[Slot(e)'] = e
  PROVE  WorkInv(first, begin)'
<1>1. \A w, i : Number(first, w, i)' = Number(first, w, i)
  BY DEF Number, Turn
<1>2. \A w : (Number(first, w, Len(outq[w]) + 1))' = Number(first, w, Len(outq'[w]) + 1)
  BY DEF Number, Turn
<1> QED
  BY <1>1, <1>2 DEF WorkInv

LEMMA PushWork ==
  ASSUME TypeInv, NEW first, NEW next, NEW begin, OrderInv(first, next, begin),
         QueueInv(first, next, begin), WorkInv(first, begin),
         NEW b, NEW e, Pushed(b, e, next, begin),
         NEW begin2, begin2 = [begin EXCEPT ![next + 1] = e]
  PROVE  WorkInv(first, begin2)'
<1>1. first \in Nat /\ next \in Nat /\ begin \in [Nat -> Int] /\ first <= next /\ e \in Int
  BY DEF OrderInv, Pushed
<1>2. next + 1 \in Nat /\ begin2 \in [Nat -> Int] /\ \A j \in first .. next : begin2[j] = begin[j]
  BY <1>1
<1>3. /\ Collected(first, begin2)' = Collected(first, begin) /\ Arrived' = Arrived
      /\ \A x : Slot(x)' = Slot(x) /\ \A w, i : Number(first, w, i)' = Number(first, w, i)
  <2>1. first \in first .. next
    BY <1>1
  <2> QED
    BY <1>2, <2>1 DEF Collected, Arrived, Slot, Number, Turn, Pushed
<1>4. ASSUME NEW w \in Workers, NEW i \in DOMAIN Queue(w)
      PROVE  /\ begin2[Number(first, w, i)] = begin[Number(first, w, i)]
             /\ begin2[Number(first, w, i) + 1] = begin[Number(first, w, i) + 1]
  <2>1. Number(first, w, i) \in first .. next - 1
    BY PlaceFacts
  <2>2. Number(first, w, i) \in first .. next /\ Number(first, w, i) + 1 \in first .. next
    BY <1>1, <2>1
  <2> QED
    BY <1>2, <2>2
<1>5. rworker \in Workers /\ inq \in [Workers -> Seq([start : Int, size : Nat])]
  BY DEF TypeInv
<1>6. b \in [start : Int, size : Nat] /\ b.size \in Nat /\ b.size > 0
  <2>1. b \in [start : Int, size : Nat] /\ b.size = e - begin[next] /\ begin[next] < e
    BY DEF Pushed
  <2>2. begin[next] \in Int
    BY <1>1
  <2> QED
    BY <1>1, <2>1, <2>2
<1>7. \A w \in Workers : inq'[w] = IF w = rworker THEN Append(inq[w], b) ELSE inq[w]
  BY <1>5 DEF Pushed
<1>8. \A w \in Workers : /\ inq[w] # << >> => inq'[w] # << >> /\ Head(inq'[w]) = Head(inq[w])
                         /\ inq[w] = << >> /\ inq'[w] # << >> => Head(inq'[w]) = b
  <2> SUFFICES ASSUME NEW w \in Workers
               PROVE  /\ inq[w] # << >> => inq'[w] # << >> /\ Head(inq'[w]) = Head(inq[w])
                      /\ inq[w] = << >> /\ inq'[w] # << >> => Head(inq'[w]) = b
    OBVIOUS
  <2> DEFINE T == [start : Int, size : Nat]
  <2>1. inq[w] \in Seq(T) /\ b \in T
    BY <1>5, <1>6
  <2> HIDE DEF T
  <2>2. Append(inq[w], b) # << >> /\ Head(Append(inq[w], b)) = IF inq[w] = << >> THEN b ELSE Head(inq[w])
    BY <2>1, AppendProperties, HeadTailAppend
  <2> QED
    BY <1>7, <2>2
<1>9. ASSUME NEW w \in Workers
      PROVE  IF inq'[w] = << >> THEN wi'[w] = 0 ELSE wi'[w] < Head(inq'[w]).size
  <2>1. wi' = wi /\ IF inq[w] = << >> THEN wi[w] = 0 ELSE wi[w] < Head(inq[w]).size
    BY DEF WorkInv, Pushed
  <2> QED
    BY <1>6, <1>8, <2>1
<1>10. ASSUME NEW w \in Workers, NEW i \in DOMAIN outq'[w],
              NEW x \in begin2[Number(first, w, i)] .. begin2[Number(first, w, i) + 1] - 1,
              x > Collected(first, begin)
       PROVE  pebble'[Slot(x)] = x
  <2>1. outq' = outq /\ pebble' = pebble
    BY DEF Pushed
  <2>2. i \in DOMAIN outq[w] /\ i \in DOMAIN Queue(w)
    BY <2>1, QueueFacts
  <2>3. x \in begin[Number(first, w, i)] .. begin[Number(first, w, i) + 1] - 1
    BY <1>4, <2>2
  <2> QED
    BY <1>10, <2>1, <2>2, <2>3 DEF WorkInv
<1>11. ASSUME NEW w \in Workers, inq'[w] # << >>,
              NEW x \in begin2[Number(first, w, Len(outq'[w]) + 1)] ..
                        begin2[Number(first, w, Len(outq'[w]) + 1)] + wi'[w] - 1,
              x > Collected(first, begin)
       PROVE  pebble'[Slot(x)] = x
  <2>1. outq' = outq /\ pebble' = pebble /\ wi' = wi
    BY DEF Pushed
  <2>2. CASE inq[w] # << >>
    <3>1. Len(outq[w]) + 1 \in DOMAIN Queue(w)
      BY <2>2, QueueFacts
    <3>2. begin2[Number(first, w, Len(outq'[w]) + 1)] = begin[Number(first, w, Len(outq[w]) + 1)]
      BY <1>4, <2>1, <3>1
    <3>3. x \in begin[Number(first, w, Len(outq[w]) + 1)] ..
                begin[Number(first, w, Len(outq[w]) + 1)] + wi[w] - 1
      BY <2>1, <3>2
    <3> QED
      BY <1>11, <2>1, <2>2, <3>3 DEF WorkInv
  <2>3. CASE inq[w] = << >>
    <3>1. wi[w] = 0
      BY <2>3 DEF WorkInv
    <3>2. w = rworker
      BY <1>7, <1>11, <2>3
    <3>3. Number(first, w, Len(outq[w]) + 1) \in Nat
      <4>1. Queue(w) = outq[w]
        <5>1. Queue(w) = outq[w] \o << >> /\ outq[w] \in Seq([start : Int, size : Nat])
          BY <2>3, QueueFacts
        <5> QED
          BY <5>1, ConcatEmptySeq
      <4>2. next + Turn(w, rworker) = Number(first, w, Len(outq[w]) + 1)
        BY <4>1 DEF QueueInv
      <4>3. Turn(w, rworker) \in Nat
        BY <1>5, NextTurn
      <4> DEFINE k == Number(first, w, Len(outq[w]) + 1)
                 r == Turn(w, rworker)
      <4>4. next + r = k /\ r \in Nat
        BY <4>2, <4>3
      <4> HIDE DEF k, r
      <4>5. k \in Nat
        BY <1>1, <4>4
      <4> QED
        BY <4>5 DEF k
    <3>4. begin2[Number(first, w, Len(outq'[w]) + 1)] \in Int
      BY <1>2, <2>1, <3>3
    <3> QED
      BY <2>1, <3>1, <3>4
  <2> QED
    BY <2>2, <2>3
<1>12. \A x \in Arrived + 1 .. Collected(first, begin) : pebble'[Slot(x)] = x
  BY DEF WorkInv, Pushed
<1> QED
  <2>1. UNCHANGED cworker /\ (ci' # 0 => outq'[cworker] # << >>)
    BY DEF Pushed, WorkInv
  <2>2. \A w \in Workers : \A i \in DOMAIN outq'[w] :
          \A x \in begin2[Number(first, w, i)] .. begin2[Number(first, w, i) + 1] - 1 :
            x > Collected(first, begin2)' => pebble'[Slot(x)'] = x
    BY <1>3, <1>10
  <2>3. \A w \in Workers : inq'[w] # << >> =>
          LET a == begin2[Number(first, w, Len(outq'[w]) + 1)]
          IN \A x \in a .. a + wi'[w] - 1 :
               x > Collected(first, begin2)' => pebble'[Slot(x)'] = x
    BY <1>3, <1>11
  <2>4. \A x \in Arrived' + 1 .. Collected(first, begin2)' : pebble'[Slot(x)'] = x
    BY <1>3, <1>12
  <2> HIDE <1>3, <1>10, <1>11, <1>12
  <2> QED
    BY <1>9, <2>1, <2>2, <2>3, <2>4, WorkNext

LEMMA PushOrder ==
  ASSUME TypeInv, RingInv, NEW first, NEW next, NEW begin, OrderInv(first, next, begin),
         NEW b, NEW e, Pushed(b, e, next, begin),
         NEW begin2, begin2 = [begin EXCEPT ![next + 1] = e],
         batch'.size = 0,
         \A l \in Lanes : e - 1 <= sent'[l], \E l \in Lanes : e - 1 = sent'[l]
  PROVE  OrderInv(first, next + 1, begin2)'
<1>1. first \in Nat /\ next \in Nat /\ begin \in [Nat -> Int] /\ first <= next /\ e \in Int
      /\ begin[next] < e
  BY DEF OrderInv, Pushed
<1>2. next + 1 \in Nat /\ begin2 \in [Nat -> Int] /\ begin2[next + 1] = e
      /\ \A j \in first .. next : begin2[j] = begin[j]
  BY <1>1
<1>3. /\ Collected(first, begin2)' = Collected(first, begin) /\ Arrived' = Arrived
      /\ \A x : Slot(x)' = Slot(x)
  <2>1. first \in first .. next
    BY <1>1
  <2> QED
    BY <1>2, <2>1 DEF Collected, Arrived, Slot, Pushed
<1>4. ASSUME NEW i \in first .. next + 1, NEW j \in first .. next + 1, i < j
      PROVE  begin2[i] < begin2[j]
  <2>0. i \in first .. next /\ i \in Nat /\ next \in first .. next
    BY <1>1, <1>4
  <2>1. CASE j \in first .. next
    BY <1>2, <1>4, <2>0, <2>1 DEF OrderInv
  <2>2. CASE j = next + 1
    <3>1. i = next \/ begin[i] < begin[next]
      <4>1. \A x, y \in first .. next : x < y => begin[x] < begin[y]
        BY DEF OrderInv
      <4>2. i = next \/ i < next
        BY <1>1, <2>0
      <4> QED
        BY <2>0, <4>1, <4>2
    <3>2. begin[i] \in Int /\ begin[next] \in Int /\ begin2[i] = begin[i]
      BY <1>1, <1>2, <2>0
    <3> QED
      BY <1>1, <1>2, <2>2, <3>1, <3>2
  <2> QED
    BY <1>1, <2>1, <2>2
<1>5. ci' = 0 \/ (first < next + 1 /\ begin2[first] + ci' < begin2[first + 1])
  <2>1. ci' = ci
    BY DEF Pushed
  <2>2. CASE ci # 0
    <3>1. first < next /\ begin[first] + ci < begin[first + 1]
      BY <2>2 DEF OrderInv
    <3>2. first \in first .. next /\ first + 1 \in first .. next
      BY <1>1, <3>1
    <3> QED
      BY <1>1, <1>2, <2>1, <3>1, <3>2
  <2> QED
    BY <2>1, <2>2
<1>6. Whence(next + 1, begin2)' = e - 1
  BY <1>1, <1>2 DEF Whence
<1>7. first <= next + 1
  BY <1>1
<1>8. /\ Arrived <= Collected(first, begin) /\ Len(pend') = Collected(first, begin) - Arrived
      /\ \A i \in DOMAIN pend' : pend'[i] = Slot(Arrived + i)
  BY DEF OrderInv, Pushed
<1> QED
  BY <1>1, <1>2, <1>3, <1>4, <1>5, <1>6, <1>7, <1>8 DEF OrderInv

-----------------------------------------------------------------------------
(***************************************************************************)
(* The reader                                                              *)
(***************************************************************************)

LEMMA CounterSame ==
  ASSUME TypeInv, NEW n \in Events
  PROVE  /\ Ctr(n) \in 0 .. CntMod - 1 /\ Same(Ctr(n), n - Zero(n), CntMod)
         /\ Same(Ctr(n), n - Zero(n), NumBuffers)
<1>1. Ctr(n) \in 0 .. CntMod - 1 /\ Ctr(n) % NumBuffers = (n - Zero(n)) % NumBuffers
      /\ CntMod \in Nat \ {0}
  BY ReadSlot, Sizes
<1>2. Ctr(n) % CntMod = Ctr(n)
  BY <1>1, ModSmall
<1> QED
  BY <1>1, <1>2 DEF Same, Ctr

\* Event n follows the last one, as do their counters.
LEMMA NoJump ==
  ASSUME TypeInv, RingInv, NEW first, NEW next, NEW begin, FlowInv(first, next, begin),
         NEW n \in Events, Whence(next, begin) = n - 1
  PROVE  /\ Ctr(n) = ((IF kind[n] = "beginrun" THEN 0 ELSE last) + 1) % CntMod
         /\ Ctr(n) \in 0 .. CntMod - 1 /\ Same(Ctr(n), n - Zero(n), CntMod)
         /\ Same(Ctr(n), n - Zero(n), NumBuffers)
<1>1. Zero(n) \in Int /\ Ctr(n) \in 0 .. CntMod - 1 /\ n \in Int
      /\ Ctr(n) % NumBuffers = (n - Zero(n)) % NumBuffers
      /\ Zero(n) = (IF Begins(n) THEN n - 1 ELSE zero)
      /\ CntMod \in Nat \ {0}
  BY ReadSlot, Sizes DEF Events
<1>3. Same(Ctr(n), n - Zero(n), CntMod) /\ Same(Ctr(n), n - Zero(n), NumBuffers)
  BY CounterSame
<1>4. CASE Begins(n)
  <2>1. n - Zero(n) = 0 + 1 /\ kind[n] = "beginrun"
    BY <1>1, <1>4 DEF Begins
  <2>2. Ctr(n) = (0 + 1) % CntMod
    BY <2>1 DEF Ctr
  <2> QED
    BY <1>1, <1>3, <2>1, <2>2
<1>5. CASE ~Begins(n)
  <2>1. kind[n] # "beginrun" /\ Zero(n) = zero
    BY <1>1, <1>5 DEF Begins
  <2>2. Same(last, (n - 1) - zero, CntMod)
    <3>1. Whence(next, begin) + 1 = n
      BY <1>1
    <3> QED
      BY <1>5, <3>1 DEF FlowInv, ReaderInv
  <2>3. last \in Int /\ zero \in Int
    BY DEF TypeInv
  <2>4. Same(last + 1, n - zero, CntMod)
    <3>1. (last + 1) - (n - zero) = last - ((n - 1) - zero)
          /\ last + 1 \in Int /\ n - zero \in Int /\ (n - 1) - zero \in Int
      BY <1>1, <2>3
    <3> QED
      BY <1>1, <2>2, <2>3, <3>1, ModShift
  <2>5. Ctr(n) = (last + 1) % CntMod
    BY <2>1, <2>4 DEF Same, Ctr
  <2> QED
    BY <1>1, <1>3, <2>1, <2>5
<1> QED
  BY <1>4, <1>5

\* What a step of the reader does when the counters follow one another.
ReadKept ==
  UNCHANGED <<kind, from, lost, pebble, tr, trFree, trDown, outq, wi, cworker, ci, pend,
              lastIndex, delivered, cur, lane, held, spc, joined, configs, ended>>

ReadPart(l, n) ==
  /\ ~(\A k \in Lanes : n <= sent'[k])
  /\ UNCHANGED <<last, batch, batchId, rworker, rpc, inq>>

Filled(n) == IF kind[n] = "beginrun" THEN [start |-> 1, size |-> 1]
             ELSE [batch EXCEPT !.size = @ + 1]

ReadWhole(l, n) ==
  /\ \A k \in Lanes : n <= sent'[k]
  /\ last' = Ctr(n)
  /\ \/ /\ kind[n] # "l1accept" /\ rpc' = <<"alloc", n, (n - Zero(n)) % NumBuffers>>
        /\ batch' = Filled(n) /\ UNCHANGED <<inq, rworker>>
     \/ /\ kind[n] = "l1accept" /\ rpc' = <<"read">>
        /\ batch' = Filled(n) /\ UNCHANGED <<inq, rworker>>
     \/ /\ kind[n] = "l1accept" /\ rpc' = <<"read">>
        /\ inq' = [inq EXCEPT ![rworker] = Append(@, Filled(n))]
        /\ rworker' = (rworker + 1) % NumWorkers
        /\ batch' = [start |-> Ctr(n) + 1, size |-> 0]

LEMMA ReadStep ==
  ASSUME TypeInv, RingInv, CountInv, NEW first, NEW next, NEW begin,
         FlowInv(first, next, begin), NEW l \in Lanes, Read(l)
  PROVE  /\ ~ended /\ rpc = <<"read">>
         /\ MaySend(l, sent[l] + 1) /\ FrameIn(l, sent[l] + 1) /\ Renumbered(sent[l] + 1)
         /\ ReadKept
         /\ ReadPart(l, sent[l] + 1) \/ ReadWhole(l, sent[l] + 1)
<1> DEFINE n == sent[l] + 1
           s == Ctr(n) % NumBuffers
           frames == [buf EXCEPT ![s][l] = n]
<1>1. /\ ~ended /\ rpc = <<"read">> /\ MaySend(l, n) /\ n \in Events /\ dmaFree > 0
      /\ sent' = [sent EXCEPT ![l] = n] /\ zero' = Zero(n) /\ dmaFree' = dmaFree - 1
  BY DEF Read, MaySend
<1>2. Sends(l, n)
  BY <1>1 DEF Sends
<1>3. Renumbered(n) /\ OrderInv(first, next, begin)
  <2> HIDE DEF n
  <2> QED
    BY <1>1, <1>2, ReadRenumbered DEF FlowInv
<1>4. s = (n - Zero(n)) % NumBuffers
  <2> HIDE DEF n
  <2> QED
    BY <1>1, ReadSlot
<1>5. Whole(frames[s]) <=> \A k \in Lanes : n <= sent'[k]
  <2>1. frames = [buf EXCEPT ![(n - Zero(n)) % NumBuffers][l] = n]
    BY <1>4
  <2> HIDE DEF n, s, frames
  <2>2. Whole(frames[(n - Zero(n)) % NumBuffers]) <=> \A k \in Lanes : n <= sent'[k]
    BY <1>2, <1>3, <2>1, WholeSlot
  <2> QED
    BY <1>4, <2>2
<1>6. UNCHANGED <<kind, from, lost, pebble, tr, trFree, trDown, outq, wi, collector, receiver,
                  spc, joined, configs>>
  BY DEF Read
<1>7. CASE ~Whole(frames[s])
  <2>1. buf' = frames /\ UNCHANGED <<reader, inq, ended>>
    BY <1>7 DEF Read
  <2>2. FrameIn(l, n) /\ ReadKept /\ ReadPart(l, n)
    <3> HIDE DEF n, s
    <3> QED
      BY <1>1, <1>2, <1>4, <1>5, <1>6, <1>7, <2>1
      DEF FrameIn, ReadKept, ReadPart, reader, collector, receiver
  <2> QED
    BY <1>1, <1>3, <2>2
<1>8. CASE Whole(frames[s])
  <2>1. Complete(n, s, frames)
    BY <1>8 DEF Read
  <2>2. \A k \in Lanes : n <= sent'[k]
    BY <1>5, <1>8
  <2>3. Whence(next, begin) = n - 1
    <3> HIDE DEF n
    <3> QED
      BY <1>2, <1>3, <2>2, ReadWhence
  <2>4. Ctr(n) = ((IF kind[n] = "beginrun" THEN 0 ELSE last) + 1) % CntMod
    <3> HIDE DEF n
    <3> QED
      BY <1>1, <2>3, NoJump
  <2> DEFINE b0 == IF kind[n] = "beginrun" THEN [start |-> 1, size |-> 0] ELSE batch
             whole == [b0 EXCEPT !.size = @ + 1]
  <2>5. whole = Filled(n)
    BY DEF Filled
  <2> HIDE DEF n, s, frames, b0, whole
  <2>6. /\ buf' = [t \in Slots |-> IF t \in {} THEN [k \in Lanes |-> 0] ELSE frames[t]]
        /\ last' = Ctr(n)
        /\ IF kind[n] = "l1accept" THEN Finish(n, whole)
           ELSE /\ rpc' = <<"alloc", n, s>> /\ batch' = whole
                /\ UNCHANGED <<inq, rworker, batchId>>
        /\ UNCHANGED ended
    BY <2>1, <2>4 DEF Complete, whole, b0
  <2>7. buf' = frames
    <3>1. n \in Nat /\ buf \in [Slots -> [Lanes -> Nat]]
      BY <1>1 DEF TypeInv, Events
    <3>2. DOMAIN frames = Slots /\ frames = [t \in Slots |-> frames[t]]
      BY <3>1 DEF frames
    <3> QED
      BY <2>6, <3>2
  <2>8. FrameIn(l, n)
    BY <1>1, <1>2, <1>4, <1>6, <2>7 DEF FrameIn, receiver, frames
  <2>9. ReadWhole(l, n)
    BY <1>4, <2>2, <2>5, <2>6 DEF ReadWhole, Finish
  <2>10. ReadKept
    BY <1>6, <2>6 DEF ReadKept, collector, receiver
  <2> QED
    BY <1>1, <1>3, <2>8, <2>9, <2>10 DEF n
<1> QED
  BY <1>7, <1>8

LEMMA ReaderNext ==
  ASSUME NEW next, NEW begin, NEW c, Whence(next, begin)' = c,
         \A m : Begins(m)' <=> Begins(m),
         Begins(c + 1) \/ Same(last', c - zero', CntMod),
         \/ Begins(c + 1) /\ batch'.size = 0
         \/ Same(batch'.start, begin[next] - zero', NumBuffers),
         \A l \in Lanes : \A n \in c + 1 .. sent'[l] : Begins(n) => Arrived' = n - 1,
         rpc'[1] = "alloc" =>
           /\ rpc' = <<"alloc", c, (c - zero') % NumBuffers>> /\ batch'.size > 0
           /\ kind'[c] # "l1accept" /\ tr'[(c - zero') % NumBuffers] # c,
         \A n \in Arrived' + 1 .. c :
           \/ kind'[n] = "l1accept" \/ rpc' = <<"alloc", n, (n - zero') % NumBuffers>>
           \/ tr'[(n - zero') % NumBuffers] = n
           \/ (trDown' /\ tr'[(n - zero') % NumBuffers] = 0),
         Begins(Arrived' + 1) \/ lastIndex' = (Arrived' - zero') % NumBuffers
  PROVE  ReaderInv(next, begin)'
<1>1. \A m : Slot(m)' = (m - zero') % NumBuffers
  BY DEF Slot
<1>2. \A x, y : Same(x, y, CntMod)' <=> Same(x, y, CntMod)
  BY DEF Same
<1> QED
  BY <1>1, <1>2 DEF ReaderInv, Same

\* What ReaderInv says beyond the events that are complete.
LEMMA ReadRest ==
  ASSUME TypeInv, RingInv, NEW first, NEW next, NEW begin, FlowInv(first, next, begin),
         NEW l \in Lanes, NEW n, Sends(l, n), MaySend(l, n), ReadKept, rpc = <<"read">>
  PROVE  /\ Arrived' = Arrived /\ \A m : Begins(m)' <=> Begins(m)
         /\ \A k \in Lanes : \A m \in Whence(next, begin) + 1 .. sent'[k] :
              Begins(m) => Arrived = m - 1
         /\ \A m \in Arrived + 1 .. Whence(next, begin) :
              \/ kind[m] = "l1accept" \/ tr[(m - zero') % NumBuffers] = m
              \/ (trDown /\ tr[(m - zero') % NumBuffers] = 0)
         /\ Begins(Arrived + 1) \/ lastIndex = (Arrived - zero') % NumBuffers
<1> DEFINE c == Whence(next, begin)
<1>1. OrderInv(first, next, begin) /\ ReaderInv(next, begin)
  BY DEF FlowInv
<1>2. /\ zero' = zero \/ (c = Arrived /\ Begins(n))
      /\ Begins(n) => Arrived = n - 1 /\ c = n - 1
  BY ReadRenumbered
<1>3. c \in Int /\ n \in Nat /\ n = sent[l] + 1 /\ (\A k \in Lanes : sent[k] \in Nat) /\ Arrived \in Nat
  BY <1>1, OrderFacts, ReadWhence, Places DEF Sends, TypeInv
<1>4. \A k \in Lanes : sent'[k] = IF k = l THEN n ELSE sent[k]
  BY DEF Sends, TypeInv
<1>5. /\ \A k \in Lanes : \A m \in c + 1 .. sent[k] : Begins(m) => Arrived = m - 1
      /\ \A m \in Arrived + 1 .. c :
           kind[m] = "l1accept" \/ tr[Slot(m)] = m \/ (trDown /\ tr[Slot(m)] = 0)
      /\ Begins(Arrived + 1) \/ lastIndex = Slot(Arrived)
  BY <1>1 DEF ReaderInv
<1> HIDE DEF c
<1>6. ASSUME NEW k \in Lanes, NEW m \in c + 1 .. sent'[k], Begins(m)
      PROVE  Arrived = m - 1
  <2>1. CASE m = n
    BY <1>2, <1>6, <2>1
  <2>2. CASE m # n
    <3>1. m \in c + 1 .. sent[k]
      BY <1>3, <1>4, <1>6, <2>2
    <3> QED
      BY <1>5, <1>6, <3>1
  <2> QED
    BY <2>1, <2>2
<1>7. CASE zero' = zero
  <2>1. \A m : (m - zero') % NumBuffers = Slot(m)
    BY <1>7 DEF Slot
  <2> QED
    BY <1>5, <1>6, <2>1 DEF c, Arrived, Begins, ReadKept
<1>8. CASE zero' # zero
  <2>1. c = Arrived /\ Begins(Arrived + 1)
    <3>1. Arrived + 1 = n
      BY <1>2, <1>3, <1>8
    <3> QED
      BY <1>2, <1>8, <3>1
  <2>2. Arrived + 1 .. c = {}
    BY <1>3, <2>1
  <2> QED
    BY <1>6, <2>1, <2>2 DEF c, Arrived, Begins, ReadKept
<1> QED
  BY <1>7, <1>8

LEMMA ReadPartFlow ==
  ASSUME TypeInv, RingInv, NEW first, NEW next, NEW begin, FlowInv(first, next, begin),
         NEW l \in Lanes, NEW n, Sends(l, n), MaySend(l, n), ReadKept, rpc = <<"read">>,
         ReadPart(l, n)
  PROVE  FlowInv(first, next, begin)'
<1>0. OrderInv(first, next, begin) /\ QueueInv(first, next, begin) /\ WorkInv(first, begin)
      /\ ReaderInv(next, begin)
  BY DEF FlowInv
<1>1. QueuesKept
  BY DEF QueuesKept, ReadKept, ReadPart
<1>2. batch' = batch /\ batch.size \in Nat
  BY DEF ReadPart, TypeInv
<1>3. OrderInv(first, next, begin)'
  <2>1. batch'.size = batch.size + (IF \A k \in Lanes : n <= sent'[k] THEN 1 ELSE 0)
    BY <1>2 DEF ReadPart
  <2> QED
    BY <1>1, <1>2, <2>1, ReadOrder
<1>4. QueueInv(first, next, begin)' /\ WorkInv(first, begin)'
  BY <1>0, <1>1, ReadRenumbered, KeptQueue
<1> DEFINE c == Whence(next, begin)
<1>5. /\ zero' = zero \/ (c = Arrived /\ Begins(n) /\ c = n - 1)
      /\ c \in Int /\ n \in Nat /\ c' = c
  BY <1>0, <1>2, ReadRenumbered, ReadWhence, OrderFacts DEF Whence
<1>6. zero' # zero => Begins(c + 1) /\ batch.size = 0
  <2>1. zero' # zero => Whence(next, begin) = Arrived
    BY <1>5
  <2>2. zero' # zero => batch.size = 0
    BY <1>0, <2>1, Idle
  <2>3. zero' # zero => c + 1 = n
    BY <1>5
  <2> QED
    BY <1>5, <2>2, <2>3
<1>7. /\ Begins(c + 1) \/ Same(last, c - zero', CntMod)
      /\ \/ Begins(c + 1) /\ batch.size = 0
         \/ Same(batch.start, begin[next] - zero', NumBuffers)
  BY <1>0, <1>6 DEF ReaderInv
<1>8. /\ Arrived' = Arrived /\ \A m : Begins(m)' <=> Begins(m)
      /\ \A k \in Lanes : \A m \in c + 1 .. sent'[k] : Begins(m) => Arrived = m - 1
      /\ \A m \in Arrived + 1 .. c :
           \/ kind[m] = "l1accept" \/ tr[(m - zero') % NumBuffers] = m
           \/ (trDown /\ tr[(m - zero') % NumBuffers] = 0)
      /\ Begins(Arrived + 1) \/ lastIndex = (Arrived - zero') % NumBuffers
  BY ReadRest
<1>9. UNCHANGED <<last, batch, rpc, kind, tr, trDown, lastIndex>>
  BY DEF ReadPart, ReadKept
<1> HIDE DEF c
<1>10. ReaderInv(next, begin)'
  <2>1. Whence(next, begin)' = c
    BY <1>5 DEF c
  <2> QED
    BY <1>7, <1>8, <1>9, <2>1, ReaderNext
<1> QED
  BY <1>3, <1>4, <1>10 DEF FlowInv

LEMMA ReadWholeFlow ==
  ASSUME TypeInv, RingInv, NEW first, NEW next, NEW begin, FlowInv(first, next, begin),
         NEW l \in Lanes, NEW n, Sends(l, n), MaySend(l, n), ReadKept, rpc = <<"read">>,
         ReadWhole(l, n)
  PROVE  \E next2, begin2 : FlowInv(first, next2, begin2)'
<1>0. OrderInv(first, next, begin) /\ QueueInv(first, next, begin) /\ WorkInv(first, begin)
      /\ ReaderInv(next, begin)
  BY DEF FlowInv
<1>1. /\ \A k \in Lanes : n <= sent'[k]
      /\ last' = Ctr(n) /\ n \in Events /\ n \in Nat
      /\ Whence(next, begin) = n - 1 /\ zero' = Zero(n)
  <2>1. (\A k \in Lanes : n <= sent'[k]) /\ last' = Ctr(n) /\ n \in Events /\ zero' = Zero(n)
    BY DEF ReadWhole, Sends
  <2>2. n \in Nat /\ Whence(next, begin) = n - 1
    BY <1>0, <2>1, ReadWhence
  <2> QED
    BY <2>1, <2>2
<1>2. /\ Ctr(n) \in 0 .. CntMod - 1 /\ Same(Ctr(n), n - zero', CntMod)
      /\ Same(Ctr(n), n - zero', NumBuffers)
  BY <1>1, NoJump
<1>3. /\ zero' = zero \/ (Whence(next, begin) = Arrived /\ Begins(n))
      /\ Begins(n) => Arrived = n - 1
      /\ Begins(n) <=> kind[n] = "beginrun"
      /\ zero' = (IF Begins(n) THEN n - 1 ELSE zero)
  BY <1>1, ReadRenumbered, ReadSlot DEF Begins
<1>4. begin[next] \in Int /\ batch.size \in Nat /\ batch.start \in Int /\ zero' \in Int
      /\ batch \in [start : Int, size : Nat] /\ zero \in Int
  <2>1. begin[next] \in Int
    BY <1>0, OrderFacts
  <2>2. batch \in [start : Int, size : Nat] /\ zero \in Int
    BY DEF TypeInv
  <2>3. zero' \in Int
    BY <1>1, <1>3, <2>2
  <2> QED
    BY <2>1, <2>2, <2>3
<1>5. begin[next] + batch.size = n
  BY <1>1, <1>4 DEF Whence
<1>6. Filled(n) \in [start : Int, size : Nat] /\ Filled(n).size = batch.size + 1
      /\ Same(Filled(n).start, begin[next] - zero', NumBuffers)
  <2>1. CASE Begins(n)
    <3>1. Whence(next, begin) = Arrived
      BY <1>1, <1>3, <2>1
    <3>2. batch.size = 0 /\ begin[next] = Arrived + 1
      BY <1>0, <3>1, Idle
    <3>3. Filled(n) = [start |-> 1, size |-> 1]
      BY <1>3, <2>1 DEF Filled
    <3>4. begin[next] - zero' = 1
      BY <1>1, <1>3, <1>4, <1>5, <2>1, <3>2
    <3> QED
      BY <3>2, <3>3, <3>4 DEF Same
  <2>2. CASE ~Begins(n)
    <3>1. Filled(n) = [batch EXCEPT !.size = batch.size + 1]
      BY <1>3, <2>2 DEF Filled
    <3>2. Same(batch.start, begin[next] - zero, NumBuffers)
      <4>1. Whence(next, begin) + 1 = n
        BY <1>1
      <4> QED
        BY <1>0, <2>2, <4>1 DEF ReaderInv
    <3>3. zero' = zero
      BY <1>3, <2>2
    <3>4. Filled(n) \in [start : Int, size : Nat] /\ Filled(n).size = batch.size + 1
          /\ Filled(n).start = batch.start
      BY <1>4, <3>1
    <3> QED
      BY <3>2, <3>3, <3>4
  <2> QED
    BY <2>1, <2>2
<1>7. /\ Arrived' = Arrived /\ \A m : Begins(m)' <=> Begins(m)
      /\ \A k \in Lanes : \A m \in Whence(next, begin) + 1 .. sent'[k] :
           Begins(m) => Arrived = m - 1
      /\ \A m \in Arrived + 1 .. Whence(next, begin) :
           \/ kind[m] = "l1accept" \/ tr[(m - zero') % NumBuffers] = m
           \/ (trDown /\ tr[(m - zero') % NumBuffers] = 0)
      /\ Begins(Arrived + 1) \/ lastIndex = (Arrived - zero') % NumBuffers
  BY ReadRest
<1>8. \A k \in Lanes : \A m \in n + 1 .. sent'[k] : Begins(m) => Arrived = m - 1
  <2>1. \A k \in Lanes : sent'[k] \in Int
    BY <1>1 DEF Sends, TypeInv
  <2>2. \A k \in Lanes : \A m \in n + 1 .. sent'[k] : m \in (n - 1) + 1 .. sent'[k]
    BY <1>1, <2>1
  <2> QED
    BY <1>1, <1>7, <2>2
<1>9. UNCHANGED <<kind, tr, trDown, lastIndex>>
  BY DEF ReadKept
<1>10. ASSUME kind[n] = "l1accept" \/ rpc' = <<"alloc", n, (n - zero') % NumBuffers>>
       PROVE  \A m \in Arrived + 1 .. n :
                \/ kind[m] = "l1accept" \/ rpc' = <<"alloc", m, (m - zero') % NumBuffers>>
                \/ tr[(m - zero') % NumBuffers] = m
                \/ (trDown /\ tr[(m - zero') % NumBuffers] = 0)
  <2>1. \A m \in Arrived + 1 .. n : m = n \/ m \in Arrived + 1 .. n - 1
    BY <1>1, Places
  <2> QED
    BY <1>1, <1>7, <1>10, <2>1
<1>11. CASE batch' = Filled(n) /\ UNCHANGED <<inq, rworker>>
            /\ \/ kind[n] = "l1accept" /\ rpc' = <<"read">>
               \/ kind[n] # "l1accept" /\ rpc' = <<"alloc", n, (n - zero') % NumBuffers>>
  <2>1. QueuesKept
    BY <1>11 DEF QueuesKept, ReadKept
  <2>2. OrderInv(first, next, begin)'
    <3>1. batch'.size = batch.size + (IF \A k \in Lanes : n <= sent'[k] THEN 1 ELSE 0)
      BY <1>1, <1>6, <1>11
    <3> QED
      BY <1>4, <2>1, <3>1, ReadOrder
  <2>3. QueueInv(first, next, begin)' /\ WorkInv(first, begin)'
    BY <1>0, <1>3, <2>1, KeptQueue
  <2>4. Whence(next, begin)' = n
    BY <1>4, <1>5, <1>6, <1>11 DEF Whence
  <2>5. ReaderInv(next, begin)'
    <3>0. tr[(n - zero') % NumBuffers] # n
      <4>1. (n - zero') % NumBuffers \in Slots
        <5>1. n - zero' \in Int
          BY <1>1, <1>4
        <5>2. (n - zero') % NumBuffers \in 0 .. NumBuffers - 1
          BY <5>1, Sizes, ModFacts
        <5> QED
          BY <5>2 DEF Slots
      <4>2. Arrived <= sent[l] /\ Arrived \in Nat /\ sent[l] \in Nat /\ n = sent[l] + 1
        BY Places DEF RingInv, TypeInv, Sends
      <4>3. \A s \in Slots : tr[s] > Arrived => tr[s] <= sent[l]
        BY DEF RingInv
      <4> QED
        BY <4>1, <4>2, <4>3
    <3>1. rpc'[1] = "alloc" =>
            /\ rpc' = <<"alloc", n, (n - zero') % NumBuffers>> /\ batch'.size > 0
            /\ kind[n] # "l1accept" /\ tr[(n - zero') % NumBuffers] # n
      BY <1>4, <1>6, <1>11, <3>0
    <3>2. Same(last', n - zero', CntMod) /\ Same(batch'.start, begin[next] - zero', NumBuffers)
      BY <1>1, <1>2, <1>6, <1>11
    <3>3. \A m \in Arrived + 1 .. n :
            \/ kind[m] = "l1accept" \/ rpc' = <<"alloc", m, (m - zero') % NumBuffers>>
            \/ tr[(m - zero') % NumBuffers] = m
            \/ (trDown /\ tr[(m - zero') % NumBuffers] = 0)
      BY <1>10, <1>11
    <3> QED
      BY <1>7, <1>8, <1>9, <2>4, <3>1, <3>2, <3>3, ReaderNext
  <2>6. FlowInv(first, next, begin)'
    BY <2>2, <2>3, <2>5 DEF FlowInv
  <2> QED
    BY <2>6
<1>12. CASE /\ kind[n] = "l1accept" /\ rpc' = <<"read">>
            /\ inq' = [inq EXCEPT ![rworker] = Append(@, Filled(n))]
            /\ rworker' = (rworker + 1) % NumWorkers
            /\ batch' = [start |-> Ctr(n) + 1, size |-> 0]
  <2> DEFINE begin2 == [begin EXCEPT ![next + 1] = n + 1]
  <2>1. zero' = zero
    BY <1>3, <1>12
  <2>2. n + 1 \in Int /\ begin[next] < n + 1 /\ (n + 1) - begin[next] = batch.size + 1
    BY <1>1, <1>4, <1>5
  <2>3. Pushed(Filled(n), n + 1, next, begin)
    BY <1>6, <1>12, <2>1, <2>2 DEF Pushed, ReadKept
  <2>4. begin2 = [begin EXCEPT ![next + 1] = n + 1]
    OBVIOUS
  <2> HIDE DEF begin2
  <2>5. QueueInv(first, next + 1, begin2)' /\ WorkInv(first, begin2)'
    BY <1>0, <2>3, <2>4, PushQueue, PushWork
  <2>6. OrderInv(first, next + 1, begin2)'
    <3>1. (n + 1) - 1 = n /\ sent'[l] = n
      BY <1>1, SMTT(30) DEF Sends, TypeInv
    <3> QED
      BY <1>0, <1>1, <1>12, <2>3, <2>4, <3>1, PushOrder
  <2>7. next + 1 \in Nat /\ begin \in [Nat -> Int]
    BY <1>0 DEF OrderInv
  <2>8. begin2[next + 1] = n + 1
    BY <2>4, <2>7
  <2>9. Whence(next + 1, begin2)' = n
    BY <1>1, <1>12, <2>8 DEF Whence
  <2>10. Same(batch'.start, begin2[next + 1] - zero', NumBuffers)
    <3>1. (Ctr(n) + 1) - ((n + 1) - zero') = Ctr(n) - (n - zero')
          /\ Ctr(n) \in Int /\ Ctr(n) + 1 \in Int /\ n - zero' \in Int /\ (n + 1) - zero' \in Int
      BY <1>1, <1>2, <1>4
    <3>2. Same(Ctr(n) + 1, (n + 1) - zero', NumBuffers)
      BY <1>2, <3>1, Sizes, ModShift
    <3> QED
      BY <1>12, <2>8, <3>2
  <2>11. ReaderInv(next + 1, begin2)'
    <3>1. Same(last', n - zero', CntMod) /\ rpc'[1] # "alloc"
      BY <1>1, <1>2, <1>12
    <3>2. \A m \in Arrived + 1 .. n :
            \/ kind[m] = "l1accept" \/ rpc' = <<"alloc", m, (m - zero') % NumBuffers>>
            \/ tr[(m - zero') % NumBuffers] = m
            \/ (trDown /\ tr[(m - zero') % NumBuffers] = 0)
      BY <1>10, <1>12
    <3> QED
      BY <1>7, <1>8, <1>9, <2>9, <2>10, <3>1, <3>2, ReaderNext
  <2>12. FlowInv(first, next + 1, begin2)'
    BY <2>5, <2>6, <2>11 DEF FlowInv
  <2> QED
    BY <2>12
<1> QED
  BY <1>1, <1>11, <1>12 DEF ReadWhole

LEMMA ReadType ==
  ASSUME TypeInv, NEW l \in Lanes, NEW n, FrameIn(l, n), ReadKept,
         ReadPart(l, n) \/ ReadWhole(l, n)
  PROVE  TypeInv'
<1>1. n \in Nat /\ n <= MaxEvents /\ n \in Events /\ Zero(n) \in Int
      /\ Ctr(n) \in 0 .. CntMod - 1 /\ (n - Zero(n)) % NumBuffers \in Slots
  <2>1. n \in Events /\ Zero(n) \in Int /\ Ctr(n) \in 0 .. CntMod - 1
    BY ReadSlot DEF FrameIn, Sends
  <2>2. NumBuffers \in Nat \ {0} /\ n - Zero(n) \in Int
    BY <2>1, Sizes DEF Events
  <2>3. (n - Zero(n)) % NumBuffers \in 0 .. NumBuffers - 1
    BY <2>2, ModFacts, Zenon
  <2> QED
    BY <2>1, <2>2, <2>3, Sizes DEF Events, Slots
<1>2. sent' \in [Lanes -> Nat] /\ \A k \in Lanes : sent'[k] <= MaxEvents
  BY <1>1 DEF FrameIn, Sends, TypeInv
<1>3. buf' \in [Slots -> [Lanes -> Nat]] /\ dmaFree' \in Nat /\ zero' \in Int
  <2>1. buf \in [Slots -> [Lanes -> Nat]] /\ buf' = [buf EXCEPT ![(n - Zero(n)) % NumBuffers][l] = n]
        /\ dmaFree' = dmaFree - 1 /\ dmaFree \in Nat /\ dmaFree > 0 /\ zero' = Zero(n)
    BY DEF TypeInv, FrameIn, Sends
  <2> DEFINE s == (n - Zero(n)) % NumBuffers
  <2>2. s \in Slots /\ buf' = [buf EXCEPT ![s][l] = n]
    BY <1>1, <2>1
  <2> HIDE DEF s
  <2>3. buf' \in [Slots -> [Lanes -> Nat]]
    BY <1>1, <2>1, <2>2
  <2> QED
    BY <1>1, <2>1, <2>3
<1>4. Filled(n) \in [start : Int, size : Nat]
  <2>1. batch \in [start : Int, size : Nat]
    BY DEF TypeInv
  <2> QED
    BY <2>1 DEF Filled
<1>5. CntMod \in Nat \ {0} /\ Ctr(n) \in Int /\ Ctr(n) + 1 \in Int
  BY <1>1, Sizes
<1>6. rworker \in Workers /\ (rworker + 1) % NumWorkers \in Workers
      /\ inq \in [Workers -> Seq([start : Int, size : Nat])]
  BY NextWorker DEF TypeInv
<1>7. /\ last' \in Int /\ batch' \in [start : Int, size : Nat] /\ rworker' \in Workers
      /\ rpc' \in {<<"read">>, <<"exit">>} \cup ({"alloc"} \X Events \X Slots)
      /\ inq' \in [Workers -> Seq([start : Int, size : Nat])]
  <2>1. CASE ReadPart(l, n)
    BY <2>1 DEF ReadPart, TypeInv
  <2>2. CASE batch' = Filled(n) /\ UNCHANGED <<inq, rworker>> /\ ReadWhole(l, n)
    BY <1>1, <1>4, <1>5, <1>6, <2>2 DEF ReadWhole
  <2>3. CASE /\ inq' = [inq EXCEPT ![rworker] = Append(@, Filled(n))]
             /\ rworker' = (rworker + 1) % NumWorkers /\ rpc' = <<"read">>
             /\ batch' = [start |-> Ctr(n) + 1, size |-> 0] /\ last' = Ctr(n)
    <3>1. inq' \in [Workers -> Seq([start : Int, size : Nat])]
      BY <1>4, <1>6, <2>3
    <3> QED
      BY <1>5, <1>6, <2>3, <3>1
  <2> QED
    BY <2>1, <2>2, <2>3 DEF ReadWhole
<1> QED
  BY <1>2, <1>3, <1>7 DEF TypeInv, FrameIn, ReadKept

LEMMA ReadInv ==
  ASSUME Inv, lost = 0, NEW l \in Lanes, Read(l)
  PROVE  Inv'
<1>1. TypeInv /\ PhaseInv /\ RingInv /\ CountInv /\ InputInv
  BY DEF Inv
<1>2. ~ended /\ rpc = <<"read">> /\ Read(l)
  BY DEF Read
<1>3. spc # "done"
  BY <1>1, <1>2 DEF PhaseInv
<1>4. PICK first, next, begin : FlowInv(first, next, begin)
  BY <1>2, <1>3 DEF Inv
<1> DEFINE n == sent[l] + 1
<1>5. MaySend(l, n) /\ FrameIn(l, n) /\ Renumbered(n) /\ ReadKept
      /\ (ReadPart(l, n) \/ ReadWhole(l, n))
  BY <1>1, <1>4, ReadStep
<1> HIDE DEF n
<1>6. Sends(l, n)
  BY <1>5 DEF FrameIn
<1>7. TypeInv' /\ RingInv' /\ CountInv'
  BY <1>1, <1>5, ReadType, ReadRing, ReadCount
<1>8. \E first2, next2, begin2 : FlowInv(first2, next2, begin2)'
  <2>1. CASE ReadPart(l, n)
    BY <1>1, <1>2, <1>4, <1>5, <1>6, <2>1, ReadPartFlow
  <2>2. CASE ReadWhole(l, n)
    BY <1>1, <1>2, <1>4, <1>5, <1>6, <2>2, ReadWholeFlow
  <2> QED
    BY <1>5, <2>1, <2>2
<1>9. PhaseInv'
  BY <1>1, <1>2, <1>3, <1>5 DEF PhaseInv, ReadKept
<1>10. InputInv'
  BY <1>1, <1>2, <1>5 DEF InputInv, ReadKept, Arrived, Spare
<1> QED
  BY <1>7, <1>8, <1>9, <1>10 DEF Inv

-----------------------------------------------------------------------------
(***************************************************************************)
(* allocateTr()                                                            *)
(***************************************************************************)

\* What the reader has at hand: event c, which is complete.
LEMMA AllocFacts ==
  ASSUME TypeInv, RingInv, NEW first, NEW next, NEW begin, FlowInv(first, next, begin),
         rpc[1] = "alloc"
  PROVE  LET c == Whence(next, begin)
         IN /\ rpc[2] = c /\ rpc[3] = Slot(c) /\ c \in Events /\ Slot(c) \in Slots
            /\ rpc = <<"alloc", c, Slot(c)>>
            /\ Arrived < c /\ kind[c] # "l1accept" /\ batch.size > 0
            /\ Zero(c) = zero /\ \A l \in Lanes : c <= sent[l]
            /\ c <= Arrived + NumBuffers
            /\ \A s \in Slots : tr[s] > Arrived => tr[s] # c
            /\ ~(tr[Slot(c)] > Arrived)
<1> DEFINE c == Whence(next, begin)
<1>1. OrderInv(first, next, begin) /\ ReaderInv(next, begin)
  BY DEF FlowInv
<1>2. /\ rpc = <<"alloc", c, Slot(c)>> /\ batch.size > 0 /\ kind[c] # "l1accept"
      /\ tr[Slot(c)] # c
  BY <1>1 DEF ReaderInv
<1>3. /\ c \in Int /\ Arrived <= Collected(first, begin) /\ Collected(first, begin) < begin[next]
      /\ begin[next] \in Int /\ Collected(first, begin) \in Int
      /\ \A l \in Lanes : c <= sent[l]
  BY <1>1, OrderFacts
<1>4. Arrived \in Nat /\ Base \in Nat /\ Base <= Arrived
  BY Places
<1>5. batch.size \in Nat /\ zero \in Int
  BY DEF TypeInv
<1>6. c = begin[next] + batch.size - 1
  BY DEF Whence
<1>7. PICK l \in Lanes : c = sent[l]
  BY <1>1 DEF OrderInv
<1> HIDE DEF c
<1>8. Arrived < c
  BY <1>2, <1>3, <1>4, <1>5, <1>6
<1>9. c \in Events /\ c \in Nat
  <2>1. sent[l] <= MaxEvents /\ MaxEvents \in Nat
    BY Sizes DEF TypeInv
  <2> QED
    BY <1>3, <1>4, <1>7, <1>8, <2>1 DEF Events
<1>10. Slot(c) \in Slots
  BY <1>3, SlotRange
<1>11. Zero(c) = zero
  <2>1. c \in Arrived + 1 .. sent[l]
    BY <1>3, <1>4, <1>7, <1>8
  <2>2. Begins(c) => zero = c - 1
    BY <2>1 DEF RingInv
  <2> QED
    BY <1>9, <2>2, ReadSlot
<1>12. c <= Arrived + NumBuffers /\ \A k \in Lanes : sent[k] <= Arrived + NumBuffers
  <2>1. \A k \in Lanes : sent[k] <= Base + NumBuffers /\ sent[k] \in Nat
    BY DEF RingInv, TypeInv
  <2> QED
    BY <1>3, <1>4, <1>7, <2>1, Sizes
<1>13. ASSUME NEW s \in Slots, tr[s] > Arrived
       PROVE  tr[s] # c
  <2>1. Slot(tr[s]) = s
    BY <1>13 DEF RingInv
  <2> QED
    BY <1>2, <1>13, <2>1
<1>14. ~(tr[Slot(c)] > Arrived)
  <2> SUFFICES ASSUME tr[Slot(c)] > Arrived
               PROVE  FALSE
    OBVIOUS
  <2> DEFINE m == tr[Slot(c)]
  <2>1. Slot(m) = Slot(c) /\ m <= sent[l] /\ m \in Nat /\ m > Arrived
    BY <1>10 DEF RingInv, TypeInv
  <2> HIDE DEF m
  <2>2. m = c
    <3>1. sent[l] <= Arrived + NumBuffers /\ sent[l] \in Nat /\ NumBuffers \in Nat
      BY <1>12, Sizes DEF TypeInv
    <3>2. m < c + NumBuffers /\ c < m + NumBuffers /\ m \in Int
      BY <1>3, <1>4, <1>8, <1>12, <2>1, <3>1
    <3> QED
      BY <1>3, <2>1, <3>2, SlotApart
  <2> QED
    BY <1>2, <2>2 DEF m
<1> QED
  BY <1>2, <1>3, <1>8, <1>9, <1>10, <1>11, <1>12, <1>13, <1>14 DEF c

\* The buffers of the pool, once the slot of event c has one or got none.
LEMMA AllocRing ==
  ASSUME TypeInv, RingInv, CountInv, NEW c \in Events, Slot(c) \in Slots, Arrived < c,
         kind[c] # "l1accept", \A l \in Lanes : c <= sent[l], ~(tr[Slot(c)] > Arrived),
         UNCHANGED <<kind, zero, from, sent, buf, dmaFree, delivered, cur, lane, held>>,
         \/ trFree > 0 /\ trFree' = trFree - 1 /\ tr' = [tr EXCEPT ![Slot(c)] = c]
         \/ trFree' = trFree /\ tr' = [tr EXCEPT ![Slot(c)] = 0]
  PROVE  RingInv' /\ CountInv'
<1>1. /\ Arrived' = Arrived /\ Base' = Base /\ \A l \in Lanes : Released(l)' = Released(l)
      /\ \A m : Slot(m)' = Slot(m) /\ \A k : Begins(k)' <=> Begins(k)
      /\ Frames' = Frames
  BY DEF Arrived, Base, Released, Slot, Begins, Frames
<1>2. tr \in [Slots -> Nat] /\ c \in Nat /\ Arrived \in Nat
  <2>1. Arrived \in Nat
    BY Places
  <2> QED
    BY <2>1, Sizes DEF TypeInv, Events
<1>3. \A s \in Slots : tr'[s] > Arrived =>
        /\ tr'[s] \in Events /\ kind[tr'[s]] # "l1accept" /\ Slot(tr'[s]) = s
        /\ \A l \in Lanes : tr'[s] <= sent[l]
  BY <1>2 DEF RingInv
<1>4. RingInv'
  BY <1>1, <1>3 DEF RingInv
<1>5. IsFiniteSet(Ahead) /\ Cardinality(Ahead) \in Nat
  BY FiniteFrames
<1>6. CASE trFree > 0 /\ trFree' = trFree - 1 /\ tr' = [tr EXCEPT ![Slot(c)] = c]
  <2>1. Ahead' = Ahead \cup {Slot(c)} /\ Slot(c) \notin Ahead
    BY <1>1, <1>2, <1>6 DEF Ahead
  <2>2. Cardinality(Ahead') = Cardinality(Ahead) + 1
    BY <1>5, <2>1, FS_AddElement
  <2>3. trFree \in Nat /\ trFree + Cardinality(Ahead) = TrBuffers
    BY DEF TypeInv, CountInv
  <2> DEFINE a == Cardinality(Ahead)
             b == Cardinality(Ahead')
  <2>4. b = a + 1 /\ a \in Nat /\ trFree + a = TrBuffers
    BY <1>5, <2>2, <2>3
  <2> HIDE DEF a, b
  <2>5. trFree' + b = TrBuffers
    BY <1>6, <2>3, <2>4
  <2> QED
    BY <1>1, <1>4, <2>5 DEF CountInv, b
<1>7. CASE trFree' = trFree /\ tr' = [tr EXCEPT ![Slot(c)] = 0]
  <2>1. Ahead' = Ahead
    BY <1>1, <1>2, <1>7 DEF Ahead
  <2> QED
    BY <1>1, <1>4, <1>7, <2>1 DEF CountInv
<1> QED
  BY <1>6, <1>7

LEMMA AllocFlow ==
  ASSUME TypeInv, RingInv, NEW first, NEW next, NEW begin, FlowInv(first, next, begin),
         AllocateTr, NEW c, c = Whence(next, begin)
  PROVE  \E next2, begin2 : FlowInv(first, next2, begin2)'
<1>0. OrderInv(first, next, begin) /\ QueueInv(first, next, begin) /\ WorkInv(first, begin)
      /\ ReaderInv(next, begin)
  BY DEF FlowInv
<1>1. rpc[1] = "alloc" /\ ~ended
  BY DEF AllocateTr
<1>2. /\ rpc[2] = c /\ rpc[3] = Slot(c) /\ c \in Events /\ Slot(c) \in Slots
      /\ rpc = <<"alloc", c, Slot(c)>>
      /\ Arrived < c /\ kind[c] # "l1accept" /\ batch.size > 0
      /\ Zero(c) = zero /\ \A l \in Lanes : c <= sent[l]
      /\ c <= Arrived + NumBuffers
  BY <1>1, AllocFacts
<1>3. UNCHANGED <<kind, zero, from, sent, lost, buf, pebble, trDown, dmaFree, last, outq, wi,
                  cworker, ci, pend, lastIndex, delivered, cur, lane, held, spc, joined,
                  configs, ended>>
  BY DEF AllocateTr, stream, collector, receiver, control
<1>4. \/ tr' = [tr EXCEPT ![Slot(c)] = c] /\ Finish(c, batch)
      \/ /\ trDown /\ tr' = [tr EXCEPT ![Slot(c)] = 0] /\ rpc' = <<"read">>
         /\ UNCHANGED <<inq, rworker, batch>>
  BY <1>2 DEF AllocateTr
<1>5. c \in Int /\ c \in Nat /\ Arrived \in Nat /\ rpc' = <<"read">> /\ rpc'[1] # "alloc"
  BY <1>0, <1>2, <1>4, OrderFacts, Places DEF Finish, Events
<1>6. /\ Arrived' = Arrived /\ \A m : Begins(m)' <=> Begins(m)
      /\ \A m : Slot(m)' = Slot(m) /\ \A k : (k - zero') % NumBuffers = Slot(k)
      /\ \A l : sent'[l] = sent[l]
  BY <1>3 DEF Arrived, Begins, Slot
<1>7. /\ Begins(c + 1) \/ Same(last', c - zero', CntMod)
      /\ \A l \in Lanes : \A n \in c + 1 .. sent'[l] : Begins(n) => Arrived' = n - 1
      /\ Begins(Arrived' + 1) \/ lastIndex' = (Arrived' - zero') % NumBuffers
  BY <1>0, <1>3, <1>6 DEF ReaderInv, Slot
<1>8. ASSUME NEW m \in Arrived' + 1 .. c
      PROVE  \/ kind'[m] = "l1accept" \/ rpc' = <<"alloc", m, (m - zero') % NumBuffers>>
             \/ tr'[(m - zero') % NumBuffers] = m
             \/ (trDown' /\ tr'[(m - zero') % NumBuffers] = 0)
  <2>1. (m - zero') % NumBuffers = Slot(m) /\ kind' = kind /\ trDown' = trDown
        /\ tr \in [Slots -> Nat]
    BY <1>3, <1>6 DEF TypeInv
  <2>2. CASE m = c
    BY <1>2, <1>4, <2>1, <2>2
  <2>3. CASE m # c
    <3>1. m \in Int /\ m < c /\ Arrived < m /\ m \in Arrived + 1 .. c
      BY <1>5, <1>6, <1>8, <2>3
    <3>2. Slot(m) # Slot(c)
      <4>1. m < c + NumBuffers /\ c < m + NumBuffers
        BY <1>2, <1>5, <3>1, Sizes
      <4> QED
        BY <1>5, <2>3, <3>1, <4>1, SlotApart
    <3>3. Slot(m) \in Slots
      BY <3>1, SlotRange
    <3>4. tr'[Slot(m)] = tr[Slot(m)]
      BY <1>4, <2>1, <3>2, <3>3
    <3>5. rpc # <<"alloc", m, Slot(m)>>
      BY <1>2, <2>3
    <3>6. kind[m] = "l1accept" \/ tr[Slot(m)] = m \/ (trDown /\ tr[Slot(m)] = 0)
      BY <1>0, <3>1, <3>5 DEF ReaderInv
    <3> QED
      BY <2>1, <3>4, <3>6
  <2> QED
    BY <2>2, <2>3
<1>9. \/ Begins(c + 1) /\ batch.size = 0
      \/ Same(batch.start, begin[next] - zero', NumBuffers)
  BY <1>0, <1>3 DEF ReaderInv
<1>10. PICK l \in Lanes : c = sent[l]
  BY <1>0 DEF OrderInv
<1>11. CASE UNCHANGED <<inq, rworker, batch>>
  <2>1. QueuesKept /\ zero' = zero
    BY <1>3, <1>11 DEF QueuesKept
  <2>2. QueueInv(first, next, begin)' /\ WorkInv(first, begin)'
    BY <1>0, <2>1, KeptQueue
  <2>3. Whence(next, begin)' = c
    BY <1>11 DEF Whence
  <2>4. OrderInv(first, next, begin)'
    BY <1>0, <1>3, <1>6, <1>11 DEF OrderInv, Whence, Collected
  <2>5. ReaderInv(next, begin)'
    <3>1. batch' = batch
      BY <1>11
    <3>2. \/ Begins(c + 1) /\ batch'.size = 0
          \/ Same(batch'.start, begin[next] - zero', NumBuffers)
      BY <1>9, <3>1
    <3> QED
      BY <1>5, <1>6, <1>7, <1>8, <2>3, <3>2, ReaderNext
  <2>6. FlowInv(first, next, begin)'
    BY <2>2, <2>4, <2>5 DEF FlowInv
  <2> QED
    BY <2>6
<1>12. CASE /\ inq' = [inq EXCEPT ![rworker] = Append(@, batch)]
            /\ rworker' = (rworker + 1) % NumWorkers
            /\ batch' = [start |-> Ctr(c) + 1, size |-> 0]
  <2> DEFINE begin2 == [begin EXCEPT ![next + 1] = c + 1]
  <2>1. begin[next] \in Int /\ batch.size \in Nat /\ batch \in [start : Int, size : Nat]
        /\ zero \in Int
    BY <1>0, OrderFacts DEF TypeInv
  <2>2. c = begin[next] + batch.size - 1
    BY DEF Whence
  <2>3. c + 1 \in Int /\ begin[next] < c + 1 /\ batch.size = (c + 1) - begin[next]
    BY <1>2, <1>5, <2>1, <2>2
  <2>4. Same(batch.start, begin[next] - zero, NumBuffers)
    <3>1. batch.size # 0
      BY <1>2, <2>1
    <3> QED
      BY <1>3, <1>9, <3>1
  <2>5. Pushed(batch, c + 1, next, begin)
    BY <1>3, <1>12, <2>1, <2>3, <2>4 DEF Pushed
  <2>6. begin2 = [begin EXCEPT ![next + 1] = c + 1]
    OBVIOUS
  <2> HIDE DEF begin2
  <2>7. QueueInv(first, next + 1, begin2)' /\ WorkInv(first, begin2)'
    BY <1>0, <2>5, <2>6, PushQueue, PushWork
  <2>8. (c + 1) - 1 = c
    BY <1>5
  <2>9. OrderInv(first, next + 1, begin2)'
    <3>1. \A k \in Lanes : (c + 1) - 1 <= sent'[k]
      BY <1>2, <1>6, <2>8
    <3>2. \E k \in Lanes : (c + 1) - 1 = sent'[k]
      BY <1>6, <1>10, <2>8
    <3> QED
      BY <1>0, <1>12, <2>5, <2>6, <3>1, <3>2, PushOrder
  <2>10. begin2[next + 1] = c + 1
    <3>1. next + 1 \in Nat /\ begin \in [Nat -> Int]
      BY <1>0 DEF OrderInv
    <3> QED
      BY <2>6, <3>1
  <2>11. Whence(next + 1, begin2)' = c
    BY <1>5, <1>12, <2>10 DEF Whence
  <2>12. Same(batch'.start, begin2[next + 1] - zero', NumBuffers)
    <3>1. Ctr(c) \in 0 .. CntMod - 1 /\ Same(Ctr(c), c - zero, NumBuffers)
      BY <1>2, CounterSame
    <3>2. Ctr(c) \in Int
      BY <3>1, Sizes
    <3>3. (Ctr(c) + 1) - ((c + 1) - zero) = Ctr(c) - (c - zero)
          /\ Ctr(c) + 1 \in Int /\ c - zero \in Int /\ (c + 1) - zero \in Int
      BY <1>5, <2>1, <3>2
    <3>4. Same(Ctr(c) + 1, (c + 1) - zero, NumBuffers)
      BY <3>1, <3>2, <3>3, Sizes, ModShift
    <3> QED
      BY <1>3, <1>12, <2>10, <3>4
  <2>13. ReaderInv(next + 1, begin2)'
    BY <1>5, <1>6, <1>7, <1>8, <2>11, <2>12, ReaderNext
  <2>14. FlowInv(first, next + 1, begin2)'
    BY <2>7, <2>9, <2>13 DEF FlowInv
  <2> QED
    BY <2>14
<1> QED
  BY <1>4, <1>11, <1>12 DEF Finish

LEMMA AllocInv ==
  ASSUME Inv, lost = 0, AllocateTr
  PROVE  Inv'
<1>1. TypeInv /\ PhaseInv /\ RingInv /\ CountInv /\ InputInv
  BY DEF Inv
<1>2. ~ended /\ rpc[1] = "alloc" /\ rpc # <<"exit">>
  BY DEF AllocateTr
<1>3. spc \notin {"collector", "contributor", "done"}
  BY <1>1, <1>2 DEF PhaseInv
<1>4. PICK first, next, begin : FlowInv(first, next, begin)
  BY <1>2, <1>3 DEF Inv
<1>5. PICK c : c = Whence(next, begin)
  OBVIOUS
<1>6. /\ rpc[2] = c /\ rpc[3] = Slot(c) /\ c \in Events /\ Slot(c) \in Slots
      /\ Arrived < c /\ kind[c] # "l1accept" /\ Zero(c) = zero
      /\ (\A l \in Lanes : c <= sent[l]) /\ ~(tr[Slot(c)] > Arrived)
  BY <1>1, <1>2, <1>4, <1>5, AllocFacts
<1>7. UNCHANGED <<kind, zero, from, sent, lost, buf, pebble, trDown, dmaFree, last, outq, wi,
                  cworker, ci, pend, lastIndex, delivered, cur, lane, held, spc, joined,
                  configs, ended>>
  BY DEF AllocateTr, stream, collector, receiver, control
<1>8. /\ \/ trFree > 0 /\ trFree' = trFree - 1 /\ tr' = [tr EXCEPT ![Slot(c)] = c]
         \/ trFree' = trFree /\ tr' = [tr EXCEPT ![Slot(c)] = 0]
      /\ Finish(c, batch) \/ (rpc' = <<"read">> /\ UNCHANGED <<inq, rworker, batch>>)
  BY <1>6 DEF AllocateTr
<1>9. RingInv' /\ CountInv'
  BY <1>1, <1>6, <1>7, <1>8, AllocRing
<1>10. \E first2, next2, begin2 : FlowInv(first2, next2, begin2)'
  BY <1>1, <1>4, <1>5, AllocFlow
<1>11. TypeInv'
  <2>1. tr \in [Slots -> Nat] /\ c \in Nat /\ trFree \in Nat
    <3>1. tr \in [Slots -> Nat] /\ trFree \in Nat
      BY <1>1 DEF TypeInv
    <3>2. c \in Nat
      BY <1>6, Sizes DEF Events
    <3> QED
      BY <3>1, <3>2
  <2>2. tr' \in [Slots -> Nat] /\ trFree' \in Nat
    BY <1>8, <2>1
  <2>3. Ctr(c) + 1 \in Int
    <3>1. Ctr(c) \in 0 .. CntMod - 1
      BY <1>1, <1>6, CounterSame
    <3> QED
      BY <3>1, Sizes
  <2>4. rworker \in Workers /\ (rworker + 1) % NumWorkers \in Workers
        /\ batch \in [start : Int, size : Nat]
        /\ inq \in [Workers -> Seq([start : Int, size : Nat])]
    BY <1>1, NextWorker DEF TypeInv
  <2>5. /\ rpc' = <<"read">> /\ batch' \in [start : Int, size : Nat] /\ rworker' \in Workers
        /\ inq' \in [Workers -> Seq([start : Int, size : Nat])]
    <3>1. CASE UNCHANGED <<inq, rworker, batch>>
      BY <1>8, <2>4, <3>1 DEF Finish
    <3>2. CASE /\ inq' = [inq EXCEPT ![rworker] = Append(@, batch)] /\ rpc' = <<"read">>
               /\ rworker' = (rworker + 1) % NumWorkers
               /\ batch' = [start |-> Ctr(c) + 1, size |-> 0]
      BY <2>3, <2>4, <3>2
    <3> QED
      BY <1>8, <3>1, <3>2 DEF Finish
  <2> QED
    BY <1>1, <1>7, <2>2, <2>5 DEF TypeInv
<1>12. PhaseInv' /\ InputInv'
  BY <1>1, <1>2, <1>3, <1>7 DEF PhaseInv, InputInv, Arrived
<1> QED
  BY <1>9, <1>10, <1>11, <1>12 DEF Inv

-----------------------------------------------------------------------------
(***************************************************************************)
(* Steps that leave the events where they are                              *)
(***************************************************************************)

LEMMA FlowKept ==
  ASSUME NEW first, NEW next, NEW begin, FlowInv(first, next, begin),
         UNCHANGED <<kind, zero, from, sent, pebble, inq, outq, wi, rworker, cworker, ci, pend,
                     last, batch, tr, lastIndex, delivered>>,
         rpc' = rpc \/ (rpc[1] # "alloc" /\ rpc'[1] # "alloc"), trDown => trDown'
  PROVE  FlowInv(first, next, begin)'
<1>1. /\ Arrived' = Arrived /\ Collected(first, begin)' = Collected(first, begin)
      /\ Whence(next, begin)' = Whence(next, begin)
      /\ (\A w : Queue(w)' = Queue(w)) /\ \A m : Begins(m)' <=> Begins(m)
      /\ (\A w, i : Number(first, w, i)' = Number(first, w, i)) /\ \A m : Slot(m)' = Slot(m)
      /\ \A m : (m - zero') % NumBuffers = Slot(m)
  BY DEF Arrived, Collected, Whence, Queue, Begins, Number, Turn, Slot
<1>2. OrderInv(first, next, begin) /\ QueueInv(first, next, begin) /\ WorkInv(first, begin)
      /\ ReaderInv(next, begin)
  BY DEF FlowInv
<1>3. OrderInv(first, next, begin)'
  BY <1>1, <1>2 DEF OrderInv
<1>4. QueueInv(first, next, begin)'
  <2>1. \A w \in Workers : QueueAt(Queue(w), w, Turn(w, rworker), first, next, begin)
    BY <1>2 DEF QueueInv, QueueAt
  <2>2. rworker' = rworker /\ UNCHANGED <<cworker, zero>>
    OBVIOUS
  <2>3. \A w \in Workers : QueueAt(Queue(w)', w, Turn(w, rworker'), first, next, begin)
    BY <1>1, <2>1, <2>2
  <2> QED
    BY <2>2, <2>3, QueueNext
<1>5. WorkInv(first, begin)'
  BY <1>1, <1>2, WorkNext DEF WorkInv
<1>6. ReaderInv(next, begin)'
  <2> DEFINE c == Whence(next, begin)
  <2>1. /\ Begins(c + 1) \/ Same(last', c - zero', CntMod)
        /\ \/ Begins(c + 1) /\ batch'.size = 0
           \/ Same(batch'.start, begin[next] - zero', NumBuffers)
        /\ \A l \in Lanes : \A n \in c + 1 .. sent'[l] : Begins(n) => Arrived' = n - 1
        /\ Begins(Arrived' + 1) \/ lastIndex' = (Arrived' - zero') % NumBuffers
    BY <1>1, <1>2 DEF ReaderInv
  <2>2. rpc'[1] = "alloc" =>
          /\ rpc' = <<"alloc", c, (c - zero') % NumBuffers>> /\ batch'.size > 0
          /\ kind'[c] # "l1accept" /\ tr'[(c - zero') % NumBuffers] # c
    BY <1>1, <1>2 DEF ReaderInv
  <2>3. \A n \in Arrived' + 1 .. c :
          \/ kind'[n] = "l1accept" \/ rpc' = <<"alloc", n, (n - zero') % NumBuffers>>
          \/ tr'[(n - zero') % NumBuffers] = n
          \/ (trDown' /\ tr'[(n - zero') % NumBuffers] = 0)
    <3> SUFFICES ASSUME NEW n \in Arrived' + 1 .. c
                 PROVE  \/ kind[n] = "l1accept" \/ rpc' = <<"alloc", n, Slot(n)>>
                        \/ tr[Slot(n)] = n \/ (trDown' /\ tr[Slot(n)] = 0)
      BY <1>1
    <3>1. \/ kind[n] = "l1accept" \/ rpc = <<"alloc", n, Slot(n)>>
          \/ tr[Slot(n)] = n \/ (trDown /\ tr[Slot(n)] = 0)
      BY <1>1, <1>2 DEF ReaderInv
    <3> QED
      BY <3>1
  <2>4. Whence(next, begin)' = c
    BY <1>1
  <2> HIDE DEF c
  <2> QED
    BY <1>1, <2>1, <2>2, <2>3, <2>4, ReaderNext
<1> QED
  BY <1>3, <1>4, <1>5, <1>6 DEF FlowInv

\* ReaderExits, Unconfigure, LookForEnd, most of Shutdown, and stuttering.
Aside ==
  /\ UNCHANGED <<kind, zero, from, sent, lost, buf, pebble, tr, trFree, dmaFree, last, batch,
                 rworker, inq, outq, wi, cworker, ci, lastIndex, delivered, held, configs,
                 ended>>
  /\ rpc' = rpc \/ (rpc = <<"read">> /\ rpc' = <<"exit">>)
  /\ trDown => trDown'
  /\ \/ UNCHANGED <<cur, lane>>
     \/ cur # None /\ lane = NumLanes /\ cur' = None /\ lane' = lane
  /\ joined' \in Nat
  /\ pend' = pend \/ (pend' = << >> /\ spc' = "done")

LEMMA AsideInv ==
  ASSUME Inv, Aside, spc' # "done" => spc # "done"
  PROVE  TypeInv' /\ RingInv' /\ CountInv' /\ InputInv'
         /\ (~ended' /\ spc' # "done" => \E first, next, begin : FlowInv(first, next, begin)')
<1>1. TypeInv /\ RingInv /\ CountInv /\ InputInv
  BY DEF Inv
<1>2. TypeInv'
  <2>1. pend' \in Seq(Slots)
    <3>1. pend \in Seq(Slots) /\ << >> \in Seq(Slots)
      BY <1>1, EmptySeq DEF TypeInv
    <3> QED
      BY <3>1 DEF Aside
  <2>2. cur' \in Slots \cup {None} /\ lane' \in 0 .. NumLanes
    <3>1. cur \in Slots \cup {None} /\ lane \in 0 .. NumLanes
      BY <1>1 DEF TypeInv
    <3> QED
      BY <3>1 DEF Aside
  <2>3. rpc' \in {<<"read">>, <<"exit">>} \cup ({"alloc"} \X Events \X Slots)
    <3>1. rpc \in {<<"read">>, <<"exit">>} \cup ({"alloc"} \X Events \X Slots)
      BY <1>1 DEF TypeInv
    <3> QED
      BY <3>1 DEF Aside
  <2>4. lost' \in Nat /\ joined' \in Nat
    BY <1>1 DEF TypeInv, Aside
  <2>5. UNCHANGED <<kind, zero, from, sent, buf, pebble, tr, trFree, dmaFree, last, batch,
                    rworker, inq, outq, wi, cworker, ci, lastIndex, delivered, held, configs>>
    BY DEF Aside
  <2> QED
    BY <1>1, <2>1, <2>2, <2>3, <2>4, <2>5 DEF TypeInv
<1>3. /\ Arrived' = Arrived /\ Base' = Base /\ \A l \in Lanes : Released(l)' = Released(l)
      /\ \A m : Slot(m)' = Slot(m) /\ \A k : Begins(k)' <=> Begins(k)
      /\ Frames' = Frames /\ Ahead' = Ahead
  <2>1. NumLanes \in Nat /\ \A l \in Lanes : ~(NumLanes <= l)
    BY Sizes DEF Lanes
  <2> QED
    BY <2>1 DEF Aside, Arrived, Base, Released, Slot, Begins, Frames, Ahead
<1>4. RingInv'
  BY <1>1, <1>3 DEF RingInv, Aside
<1>5. CountInv'
  BY <1>1, <1>3 DEF CountInv, Aside
<1>6. InputInv'
  BY <1>1, <1>3 DEF InputInv, Aside, Spare
<1>7. ASSUME ~ended', spc' # "done"
      PROVE  \E first, next, begin : FlowInv(first, next, begin)'
  <2>1. PICK first, next, begin : FlowInv(first, next, begin)
    BY <1>7 DEF Inv, Aside
  <2>2. FlowInv(first, next, begin)'
    BY <1>7, <2>1, FlowKept DEF Aside
  <2> QED
    BY <2>2
<1> QED
  BY <1>2, <1>4, <1>5, <1>6, <1>7

LEMMA ReaderExitsInv ==
  ASSUME Inv, ReaderExits
  PROVE  Inv'
<1>1. Aside /\ spc' = spc /\ UNCHANGED <<trDown, cur, pend, joined, configs, ended>>
  BY DEF ReaderExits, Aside, stream, pool, workers, collector, receiver, control, Inv, TypeInv
<1>2. PhaseInv'
  BY <1>1 DEF Inv, PhaseInv, ReaderExits
<1> QED
  BY <1>1, <1>2, AsideInv DEF Inv

LEMMA UnconfigureInv ==
  ASSUME Inv, Unconfigure
  PROVE  Inv'
<1>1. Aside /\ spc' = "pool" /\ spc = "run" /\ ~ended'
  BY DEF Unconfigure, Aside, stream, reader, workers, collector, receiver, Inv, TypeInv, PoolDown
<1>2. PhaseInv'
  BY <1>1 DEF PhaseInv
<1> QED
  BY <1>1, <1>2, AsideInv DEF Inv

LEMMA ShutdownInv ==
  ASSUME Inv, Shutdown
  PROVE  Inv'
<1>1. UNCHANGED <<kind, zero, from, sent, lost, buf, pebble, tr, trFree, trDown, dmaFree, last,
                  batch, rworker, rpc, inq, outq, wi, cworker, ci, lastIndex, delivered, cur,
                  lane, held, configs, ended>>
  BY DEF Shutdown, stream, pool, reader, workers, receiver
<1>2. joined \in Nat /\ NumWorkers \in Nat
  BY Sizes DEF Inv, TypeInv
<1>3. Aside /\ spc # "done"
  BY <1>1, <1>2 DEF Aside, Shutdown, Joins
<1>4. PhaseInv'
  <2>1. PhaseInv /\ Joins
    BY DEF Inv, Shutdown
  <2> QED
    BY <1>1, <1>2, <2>1 DEF PhaseInv, Joins
<1> QED
  BY <1>3, <1>4, AsideInv DEF Inv

LEMMA LookForEndInv ==
  ASSUME Inv, LookForEnd
  PROVE  Inv'
<1>1. Aside /\ spc' = spc /\ UNCHANGED <<trDown, pend, joined, configs, rpc, ended>> /\ cur' = None
  BY DEF LookForEnd, Aside, stream, pool, reader, workers, collector, control, Inv, TypeInv
<1>2. PhaseInv'
  BY <1>1 DEF Inv, PhaseInv
<1> QED
  BY <1>1, <1>2, AsideInv DEF Inv

LEMMA StutterInv ==
  ASSUME Inv, UNCHANGED vars
  PROVE  Inv'
<1>1. Aside /\ spc' = spc /\ UNCHANGED <<trDown, pend, cur, joined, configs, rpc, ended>>
  BY DEF vars, Aside, stream, pool, reader, workers, collector, receiver, control, Inv, TypeInv
<1>2. PhaseInv'
  BY <1>1 DEF Inv, PhaseInv
<1> QED
  BY <1>1, <1>2, AsideInv DEF Inv

-----------------------------------------------------------------------------
(***************************************************************************)
(* The receiver                                                            *)
(***************************************************************************)

\* The next buffer is that of the event the receiver has got to.
LEMMA ReleaseFacts ==
  ASSUME TypeInv, RingInv, Release
  PROVE  /\ lane \in Lanes /\ cur \in Slots /\ cur = Slot(Arrived)
         /\ buf[cur][lane] = Arrived /\ Arrived > 0
         /\ Released(lane) = Arrived - 1 /\ Base = Arrived - 1
         /\ lane' = lane + 1 /\ buf' = [buf EXCEPT ![cur][lane] = 0]
         /\ held' = (IF held + 1 = RetSize THEN 0 ELSE held + 1)
         /\ dmaFree' = (IF held + 1 = RetSize THEN dmaFree + held + 1 ELSE dmaFree)
<1>1. cur # None /\ lane < NumLanes /\ ~ended
  BY DEF Release
<1>2. lane \in Lanes /\ cur \in Slots /\ NumLanes \in Nat
  BY <1>1, Sizes DEF TypeInv, Lanes
<1>3. cur = Slot(Arrived) /\ Arrived > 0 /\ Arrived \in Nat
  BY <1>1, Places DEF RingInv
<1>4. Released(lane) = Arrived - 1 /\ Base = Arrived - 1
  BY <1>1, <1>2 DEF Released, Base, Lanes
<1>5. buf[cur][lane] = Arrived
  <2>1. Arrived <= sent[lane] /\ sent[lane] \in Nat
    BY <1>2 DEF RingInv, TypeInv
  <2>2. Arrived \in Released(lane) + 1 .. sent[lane]
    BY <1>3, <1>4, <2>1
  <2> QED
    BY <1>2, <1>3, <2>2 DEF RingInv
<1> QED
  BY <1>2, <1>3, <1>4, <1>5 DEF Release, Returns

LEMMA ReleaseRing ==
  ASSUME TypeInv, RingInv, Release
  PROVE  RingInv'
<1>1. /\ lane \in Lanes /\ cur \in Slots /\ cur = Slot(Arrived) /\ cur # None
      /\ buf[cur][lane] = Arrived /\ Arrived > 0
      /\ Released(lane) = Arrived - 1 /\ Base = Arrived - 1
      /\ lane' = lane + 1 /\ buf' = [buf EXCEPT ![cur][lane] = 0]
  BY ReleaseFacts DEF Release
<1>2. UNCHANGED <<kind, zero, from, sent, tr, delivered, cur>>
  BY DEF Release, stream
<1>3. /\ Arrived' = Arrived /\ (\A m : Slot(m)' = Slot(m)) /\ (\A m : Begins(m)' <=> Begins(m))
      /\ Arrived \in Nat /\ NumBuffers \in Nat \ {0} /\ NumLanes \in Nat
      /\ \A k \in Lanes : k \in Nat
  BY <1>2, Places, Sizes DEF Arrived, Slot, Begins, Lanes
<1>4. /\ \A k \in Lanes : Released(k)' = IF k = lane THEN Arrived ELSE Released(k)
      /\ Base <= Base' /\ Base' \in Nat /\ Base \in Nat
  <2>1. \A k \in Lanes : Released(k)' = IF k = lane THEN Arrived ELSE Released(k)
    BY <1>1, <1>2, <1>3 DEF Released
  <2>2. Base' \in {Arrived - 1, Arrived}
    BY <1>3 DEF Base
  <2> QED
    BY <1>1, <1>3, <2>1, <2>2
<1>5. buf \in [Slots -> [Lanes -> Nat]] /\ sent \in [Lanes -> Nat]
  BY DEF TypeInv
<1>6. \A s \in Slots, k \in Lanes :
        buf'[s][k] = IF s = cur /\ k = lane THEN 0 ELSE buf[s][k]
  BY <1>1, <1>5
<1>7. \A k \in Lanes : Arrived <= sent[k] /\ sent[k] <= Base' + NumBuffers
  <2>1. \A k \in Lanes : Arrived <= sent[k] /\ sent[k] <= Base + NumBuffers /\ sent[k] \in Nat
    BY <1>5 DEF RingInv
  <2> QED
    BY <1>3, <1>4, <2>1
<1>8. ASSUME NEW k \in Lanes, NEW n \in Released(k)' + 1 .. sent[k]
      PROVE  buf'[Slot(n)][k] = n
  <2>0. Released(k) \in Nat /\ Released(k) <= Arrived
    BY Places
  <2>1. n \in Released(k) + 1 .. sent[k] /\ n \in Int
    BY <1>3, <1>4, <1>8, <2>0
  <2>2. Slot(n) \in Slots /\ buf[Slot(n)][k] = n
    BY <2>1, SlotRange DEF RingInv
  <2>3. ASSUME Slot(n) = cur, k = lane
        PROVE  FALSE
    <3>1. n > Arrived /\ n <= sent[k] /\ sent[k] <= Base + NumBuffers /\ sent[k] \in Nat
      BY <1>3, <1>4, <1>5, <1>8, <2>3 DEF RingInv
    <3>2. n < Arrived + NumBuffers /\ Arrived < n + NumBuffers
      BY <1>1, <1>3, <2>1, <3>1
    <3>3. n = Arrived
      BY <1>1, <1>3, <2>1, <2>3, <3>2, SlotApart
    <3> QED
      BY <1>3, <3>1, <3>3
  <2> QED
    BY <1>6, <2>2, <2>3
<1>9. ASSUME NEW s \in Slots, NEW k \in Lanes, buf'[s][k] # 0
      PROVE  buf'[s][k] \in Released(k)' + 1 .. sent[k] /\ Slot(buf'[s][k]) = s
  <2>1. ~(s = cur /\ k = lane) /\ buf'[s][k] = buf[s][k] /\ buf[s][k] \in Nat
    BY <1>5, <1>6, <1>9
  <2>2. buf[s][k] \in Released(k) + 1 .. sent[k] /\ Slot(buf[s][k]) = s
    BY <1>9, <2>1 DEF RingInv
  <2>3. CASE k = lane
    <3>1. buf[s][k] # Arrived
      BY <1>1, <2>1, <2>2, <2>3
    <3>2. buf[s][k] \in Arrived + 1 .. sent[k]
      <4>1. Released(k) + 1 = Arrived
        BY <1>1, <1>3, <2>3
      <4>2. sent[k] \in Nat
        BY <1>5
      <4> QED
        BY <1>3, <2>2, <3>1, <4>1, <4>2
    <3> QED
      BY <1>4, <2>1, <2>2, <2>3, <3>2
  <2>4. CASE k # lane
    BY <1>4, <2>1, <2>2, <2>4
  <2> QED
    BY <2>3, <2>4
<1>10. /\ \A i \in DOMAIN delivered : delivered[i] = from + i - 1
       /\ cur # None => cur = Slot(Arrived) /\ delivered # << >>
       /\ \A k \in Lanes : \A n \in Arrived + 1 .. sent[k] : Begins(n) => zero = n - 1
       /\ \A s \in Slots : tr[s] > Arrived =>
            /\ tr[s] \in Events /\ kind[tr[s]] # "l1accept" /\ Slot(tr[s]) = s
            /\ \A k \in Lanes : tr[s] <= sent[k]
  BY DEF RingInv
<1>11. \A s \in Slots, k \in Lanes : Slot(buf[s][k])' = Slot(buf'[s][k])
  BY <1>2 DEF Slot
<1> QED
  BY <1>2, <1>3, <1>7, <1>8, <1>9, <1>10, <1>11 DEF RingInv, Slot

LEMMA ReleaseInv ==
  ASSUME Inv, Release
  PROVE  Inv'
<1>1. TypeInv /\ PhaseInv /\ RingInv /\ CountInv /\ InputInv
  BY DEF Inv
<1>2. /\ lane \in Lanes /\ cur \in Slots /\ buf[cur][lane] = Arrived /\ Arrived > 0
      /\ lane' = lane + 1 /\ buf' = [buf EXCEPT ![cur][lane] = 0]
      /\ held' = (IF held + 1 = RetSize THEN 0 ELSE held + 1)
      /\ dmaFree' = (IF held + 1 = RetSize THEN dmaFree + held + 1 ELSE dmaFree)
      /\ ~ended /\ cur # None
  BY <1>1, ReleaseFacts DEF Release
<1>3. UNCHANGED <<kind, zero, from, sent, lost, pebble, tr, trFree, trDown, last, batch, rworker,
                  rpc, inq, outq, wi, cworker, ci, pend, lastIndex, delivered, cur, spc, joined,
                  configs, ended>>
  BY DEF Release, stream, reader, workers, collector, control
<1>4. RingInv'
  BY <1>1, ReleaseRing
<1>5. buf \in [Slots -> [Lanes -> Nat]] /\ held \in 0 .. RetSize - 1 /\ dmaFree \in Nat
      /\ RetSize \in Nat \ {0}
  BY <1>1, Sizes DEF TypeInv
<1>6. /\ held' \in 0 .. RetSize - 1 /\ dmaFree' \in Nat /\ lane' \in 0 .. NumLanes
      /\ dmaFree' + held' = dmaFree + held + 1
  <2>1. lane \in 0 .. NumLanes - 1 /\ NumLanes \in Nat
    BY <1>2, Sizes DEF Lanes
  <2> QED
    BY <1>2, <1>5, <2>1
<1>7. buf' \in [Slots -> [Lanes -> Nat]]
  BY <1>2, <1>5
<1>8. TypeInv'
  BY <1>1, <1>3, <1>6, <1>7 DEF TypeInv
<1>9. CountInv'
  <2>1. Ahead' = Ahead
    BY <1>3 DEF Ahead, Arrived
  <2>2. <<cur, lane>> \in Frames
    <3>1. buf[cur][lane] # 0
      BY <1>2
    <3> QED
      BY <1>2, <3>1 DEF Frames
  <2>3. Frames' = Frames \ {<<cur, lane>>}
    BY <1>2, <1>5 DEF Frames
  <2>4. Cardinality(Frames') = Cardinality(Frames) - 1 /\ Cardinality(Frames) \in Nat
    BY <2>2, <2>3, FiniteFrames, FS_RemoveElement
  <2>5. dmaFree + held + Cardinality(Frames) = DmaCount /\ trFree + Cardinality(Ahead) = TrBuffers
    BY <1>1 DEF CountInv
  <2> DEFINE a == Cardinality(Frames)
             b == Cardinality(Frames')
  <2>6. b = a - 1 /\ a \in Nat /\ dmaFree + held + a = DmaCount
    BY <2>4, <2>5
  <2> HIDE DEF a, b
  <2>7. dmaFree' + held' + b = DmaCount
    <3>1. dmaFree \in Int /\ held \in Int
      BY <1>1, Sizes DEF TypeInv
    <3>2. dmaFree' \in Int /\ held' \in Int
      BY <1>8, Sizes DEF TypeInv
    <3> DEFINE p == dmaFree' + held'
    <3>3. p = dmaFree + held + 1
      BY <1>6
    <3> HIDE DEF p
    <3>4. p + b = DmaCount
      BY <2>6, <3>1, <3>3
    <3> QED
      BY <3>4 DEF p
  <2> QED
    BY <1>3, <2>1, <2>5, <2>7 DEF CountInv, b
<1>10. InputInv' /\ PhaseInv'
  BY <1>1, <1>2, <1>3 DEF InputInv, PhaseInv, Arrived, Spare
<1>11. ASSUME spc # "done"
       PROVE  \E first, next, begin : FlowInv(first, next, begin)'
  <2>1. PICK first, next, begin : FlowInv(first, next, begin)
    BY <1>2, <1>11 DEF Inv
  <2>2. FlowInv(first, next, begin)'
    BY <1>3, <2>1, FlowKept
  <2> QED
    BY <2>2
<1> QED
  BY <1>3, <1>4, <1>8, <1>9, <1>10, <1>11 DEF Inv

\* The next input: the event after the one the receiver has got to.
LEMMA ReceiveFacts ==
  ASSUME TypeInv, RingInv, NEW first, NEW next, NEW begin, FlowInv(first, next, begin),
         pend # << >>, cur = None, NEW n, n = Arrived + 1
  PROVE  /\ Head(pend) = Slot(n) /\ pebble[Slot(n)] = n /\ Slot(n) \in Slots /\ n \in Nat
         /\ n <= Collected(first, begin) /\ n < Whence(next, begin) + 1
         /\ n \in Events /\ \A l \in Lanes : n <= sent[l] /\ buf[Slot(n)][l] = n
         /\ Begins(n) => zero = n - 1
         /\ Slot(n) = ((IF kind[n] = "beginrun" THEN 0 ELSE lastIndex) + 1) % NumBuffers
         /\ kind[n] = "l1accept" \/ tr[Slot(n)] = n \/ (trDown /\ tr[Slot(n)] = 0)
<1>0. OrderInv(first, next, begin) /\ WorkInv(first, begin) /\ ReaderInv(next, begin)
  BY DEF FlowInv
<1>1. /\ Collected(first, begin) \in Int /\ Whence(next, begin) \in Int
      /\ begin[next] \in Int /\ Arrived \in Nat
      /\ Collected(first, begin) < begin[next] /\ begin[next] <= Whence(next, begin) + 1
      /\ \A l \in Lanes : Whence(next, begin) <= sent[l] /\ sent[l] \in Nat
  BY <1>0, OrderFacts, Places DEF TypeInv
<1>2. Len(pend) \in Nat \ {0} /\ pend \in Seq(Slots)
  BY EmptySeq DEF TypeInv
<1>3. n <= Collected(first, begin)
  <2>1. Len(pend) = Collected(first, begin) - Arrived
    BY <1>0 DEF OrderInv
  <2> DEFINE k == Len(pend)
  <2>2. k \in Nat \ {0} /\ k = Collected(first, begin) - Arrived
    BY <1>2, <2>1
  <2> HIDE DEF k
  <2> QED
    BY <1>1, <2>2
<1>4. n < Whence(next, begin) + 1 /\ n \in Nat /\ \A l \in Lanes : n <= sent[l]
  BY <1>1, <1>3
<1>5. Head(pend) = Slot(n)
  <2>1. Head(pend) = pend[1] /\ 1 \in DOMAIN pend
    BY <1>2, HeadFirst
  <2> QED
    BY <1>0, <2>1 DEF OrderInv
<1>6. pebble[Slot(n)] = n
  <2>1. n \in Arrived + 1 .. Collected(first, begin)
    BY <1>1, <1>3, <1>4
  <2> QED
    BY <1>0, <2>1 DEF WorkInv
<1>7. Slot(n) \in Slots
  BY <1>4, SlotRange
<1>8. PICK l \in Lanes : TRUE
  <2>1. 0 \in Lanes
    BY Sizes DEF Lanes
  <2> QED
    BY <2>1
<1>9. n \in Events
  <2>1. sent[l] <= MaxEvents /\ MaxEvents \in Nat
    BY <1>8, Sizes DEF TypeInv
  <2> QED
    BY <1>1, <1>4, <1>8, <2>1 DEF Events
<1>10. \A k \in Lanes : buf[Slot(n)][k] = n
  <2> SUFFICES ASSUME NEW k \in Lanes
               PROVE  buf[Slot(n)][k] = n
    OBVIOUS
  <2>1. Released(k) = Arrived
    BY DEF Released
  <2>2. n \in Released(k) + 1 .. sent[k]
    BY <1>1, <1>4, <2>1
  <2> QED
    BY <2>2 DEF RingInv
<1>11. Begins(n) => zero = n - 1
  <2>1. n \in Arrived + 1 .. sent[l]
    BY <1>1, <1>4, <1>8
  <2> QED
    BY <1>8, <2>1 DEF RingInv
<1>12. Slot(n) = ((IF kind[n] = "beginrun" THEN 0 ELSE lastIndex) + 1) % NumBuffers
  <2>1. CASE Begins(n)
    <3>1. kind[n] = "beginrun" /\ n - zero = 0 + 1
      BY <1>4, <1>11, <2>1 DEF Begins
    <3> QED
      BY <3>1 DEF Slot
  <2>2. CASE ~Begins(n)
    <3>1. kind[n] # "beginrun" /\ lastIndex = Slot(Arrived)
      BY <1>0, <1>9, <2>2 DEF Begins, ReaderInv
    <3>2. NumBuffers \in Nat \ {0} /\ Arrived - zero \in Int /\ lastIndex \in Int /\ n - zero \in Int
          /\ lastIndex \in 0 .. NumBuffers - 1
      BY <1>1, Sizes DEF TypeInv, Slots
    <3>3. lastIndex % NumBuffers = lastIndex
      BY <3>2, ModSmall
    <3>4. Same(lastIndex, Arrived - zero, NumBuffers)
      BY <3>1, <3>3 DEF Same, Slot
    <3>5. (lastIndex + 1) - (n - zero) = lastIndex - (Arrived - zero) /\ lastIndex + 1 \in Int
      <4>1. zero \in Int
        BY DEF TypeInv
      <4> QED
        BY <1>1, <3>2, <4>1
    <3>6. Same(lastIndex + 1, n - zero, NumBuffers)
      BY <3>2, <3>4, <3>5, ModShift
    <3> QED
      BY <3>1, <3>6 DEF Same, Slot
  <2> QED
    BY <2>1, <2>2
<1>13. kind[n] = "l1accept" \/ tr[Slot(n)] = n \/ (trDown /\ tr[Slot(n)] = 0)
  <2>1. n \in Arrived + 1 .. Whence(next, begin)
    BY <1>1, <1>4
  <2>2. rpc # <<"alloc", n, Slot(n)>>
    <3> SUFFICES ASSUME rpc = <<"alloc", n, Slot(n)>>
                 PROVE  FALSE
      OBVIOUS
    <3>1. rpc[1] = "alloc" /\ rpc[2] = n
      OBVIOUS
    <3>2. batch.size > 0 /\ n = Whence(next, begin)
      BY <1>0, <3>1 DEF ReaderInv
    <3>3. batch.size \in Nat /\ Whence(next, begin) = begin[next] + batch.size - 1
      BY DEF TypeInv, Whence
    <3> DEFINE x == begin[next]
               y == batch.size
    <3>4. x \in Int /\ y \in Nat /\ y > 0 /\ n = x + y - 1 /\ n \in Nat /\ n < x
      BY <1>1, <1>3, <1>4, <3>2, <3>3
    <3> HIDE DEF x, y
    <3> QED
      BY <3>4
  <2> QED
    BY <1>0, <2>1, <2>2 DEF ReaderInv
<1> QED
  BY <1>3, <1>4, <1>5, <1>6, <1>7, <1>9, <1>10, <1>11, <1>12, <1>13

\* process() takes the input of event n.
Taken(n) ==
  /\ ~ended /\ spc # "done" /\ pend # << >> /\ cur = None /\ n = Arrived + 1
  /\ cur' = Slot(n) /\ lane' = 0 /\ lastIndex' = Slot(n)
  /\ delivered' = Append(delivered, n) /\ pend' = Tail(pend)
  /\ \/ kind[n] = "l1accept" /\ trFree' = trFree
     \/ kind[n] # "l1accept" /\ tr[Slot(n)] # 0 /\ trFree' = trFree + 1
  /\ UNCHANGED <<kind, zero, from, sent, lost, buf, pebble, tr, trDown, dmaFree, last, batch,
                 rworker, rpc, inq, outq, wi, cworker, ci, held, spc, joined, configs, ended>>

LEMMA TakenMoves ==
  ASSUME TypeInv, RingInv, NEW first, NEW next, NEW begin, FlowInv(first, next, begin),
         NEW n, Taken(n)
  PROVE  /\ Arrived' = n /\ Arrived = n - 1 /\ Base' = n - 1
         /\ \A l \in Lanes : Released(l) = n - 1 /\ Released(l)' = n - 1
         /\ delivered' \in Seq(Nat) /\ DOMAIN delivered' = 1 .. Len(delivered) + 1
         /\ \A i \in DOMAIN delivered' : delivered'[i] = from + i - 1
         /\ delivered' # << >> /\ pend' \in Seq(Slots) /\ Slot(n) # None
<1>1. /\ n \in Nat /\ Slot(n) \in Slots /\ cur = None /\ n = Arrived + 1
      /\ delivered' = Append(delivered, n)
      /\ cur' = Slot(n) /\ lane' = 0 /\ from' = from /\ pend' = Tail(pend) /\ pend # << >>
  BY ReceiveFacts DEF Taken
<1>2. delivered \in Seq(Nat) /\ from \in Nat /\ Len(delivered) \in Nat /\ pend \in Seq(Slots)
  BY LenProperties DEF TypeInv
<1>3. /\ delivered' \in Seq(Nat) /\ delivered' # << >> /\ Len(delivered') = Len(delivered) + 1
      /\ \A i \in 1 .. Len(delivered) : delivered'[i] = delivered[i]
      /\ delivered'[Len(delivered) + 1] = n
  BY <1>1, <1>2, AppendProperties
<1>4. DOMAIN delivered' = 1 .. Len(delivered) + 1 /\ DOMAIN delivered = 1 .. Len(delivered)
  BY <1>2, <1>3, LenProperties
<1> DEFINE m == Len(delivered)
<1>5. m \in Nat /\ Len(delivered') = m + 1 /\ n = from + m /\ Arrived = from + m - 1
  BY <1>1, <1>2, <1>3 DEF Arrived
<1> HIDE DEF m
<1>6. Arrived' = n /\ Arrived = n - 1
  BY <1>1, <1>2, <1>5 DEF Arrived
<1>7. \A l \in Lanes : Released(l) = n - 1 /\ Released(l)' = n - 1
  <2>1. \A l \in Lanes : 0 <= l
    BY DEF Lanes
  <2>2. NumBuffers \notin Slots
    BY Sizes
  <2> QED
    BY <1>1, <1>6, <2>1, <2>2 DEF Released, None
<1>8. Base' = n - 1
  <2>1. 0 < NumLanes /\ NumBuffers \notin Slots
    BY Sizes
  <2> QED
    BY <1>1, <1>6, <2>1 DEF Base, None
<1>9. ASSUME NEW i \in 1 .. m + 1
      PROVE  delivered'[i] = from + i - 1
  <2>1. CASE i = m + 1
    BY <1>1, <1>2, <1>3, <1>5, <2>1 DEF m
  <2>2. CASE i # m + 1
    <3>1. i \in 1 .. m
      BY <1>5, <1>9, <2>2
    <3> QED
      BY <1>3, <1>4, <3>1 DEF m, RingInv
  <2> QED
    BY <2>1, <2>2
<1>10. pend' \in Seq(Slots)
  BY <1>1, <1>2, HeadTailProperties
<1>11. Slot(n) # None
  BY <1>1, Sizes DEF None
<1> QED
  BY <1>3, <1>4, <1>6, <1>7, <1>8, <1>9, <1>10, <1>11 DEF m

LEMMA TakenRing ==
  ASSUME TypeInv, RingInv, CountInv, NEW first, NEW next, NEW begin, FlowInv(first, next, begin),
         NEW n, Taken(n)
  PROVE  RingInv' /\ CountInv'
<1>1. /\ Arrived' = n /\ Arrived = n - 1 /\ Base' = n - 1
      /\ \A l \in Lanes : Released(l) = n - 1 /\ Released(l)' = n - 1
      /\ \A i \in DOMAIN delivered' : delivered'[i] = from + i - 1
      /\ delivered' # << >>
  BY TakenMoves
<1>2. /\ n \in Nat /\ Slot(n) \in Slots /\ \A l \in Lanes : n <= sent[l]
      /\ kind[n] = "l1accept" \/ tr[Slot(n)] = n \/ (trDown /\ tr[Slot(n)] = 0)
  BY ReceiveFacts DEF Taken
<1>3. UNCHANGED <<kind, zero, from, sent, buf, tr, dmaFree, held>> /\ cur' = Slot(n) /\ cur = None
  BY DEF Taken
<1>4. /\ \A m : Slot(m)' = Slot(m) /\ \A k : Begins(k)' <=> Begins(k)
      /\ Frames' = Frames
  BY <1>3 DEF Slot, Begins, Frames
<1>5. Base = n - 1
  BY <1>1, <1>3 DEF Base
<1>6. \A l \in Lanes : n <= sent[l] /\ sent[l] <= Base' + NumBuffers
  BY <1>1, <1>2, <1>5 DEF RingInv
<1>7. \A l \in Lanes : \A m \in n + 1 .. sent[l] : Begins(m) => zero = m - 1
  <2>1. \A l \in Lanes : \A m \in (n - 1) + 1 .. sent[l] : Begins(m) => zero = m - 1
    BY <1>1 DEF RingInv
  <2>2. \A l \in Lanes : sent[l] \in Nat
    BY DEF TypeInv
  <2> QED
    BY <1>2, <2>1, <2>2
<1>8. \A s \in Slots : tr[s] > n =>
        /\ tr[s] \in Events /\ kind[tr[s]] # "l1accept" /\ Slot(tr[s]) = s
        /\ \A l \in Lanes : tr[s] <= sent[l]
  <2>1. \A s \in Slots : tr[s] \in Nat
    BY DEF TypeInv
  <2>2. \A s \in Slots : tr[s] > n => tr[s] > Arrived
    BY <1>1, <1>2, <2>1
  <2> QED
    BY <2>2 DEF RingInv
<1>9. RingInv'
  <2>1. /\ \A l \in Lanes : \A m \in Released(l)' + 1 .. sent[l] : buf[Slot(m)][l] = m
        /\ \A s \in Slots, l \in Lanes : buf[s][l] # 0 =>
             buf[s][l] \in Released(l)' + 1 .. sent[l] /\ Slot(buf[s][l]) = s
    BY <1>1 DEF RingInv
  <2> QED
    BY <1>1, <1>3, <1>4, <1>6, <1>7, <1>8, <2>1 DEF RingInv
<1>10. trFree' + Cardinality(Ahead') = TrBuffers
  <2>1. \A s \in Slots : tr[s] \in Nat
    BY DEF TypeInv
  <2>2. IsFiniteSet(Ahead) /\ Cardinality(Ahead) \in Nat /\ trFree \in Nat
        /\ trFree + Cardinality(Ahead) = TrBuffers
    BY FiniteFrames DEF CountInv, TypeInv
  <2>3. \A s \in Slots : tr[s] > n - 1 => kind[tr[s]] # "l1accept" /\ Slot(tr[s]) = s
    BY <1>1 DEF RingInv
  <2>4. CASE kind[n] = "l1accept" /\ trFree' = trFree
    <3>1. Ahead' = Ahead
      <4>1. ASSUME NEW s \in Slots
            PROVE  tr[s] > n <=> tr[s] > n - 1
        <5>1. tr[s] # n \/ ~(tr[s] > n - 1)
          BY <2>3, <2>4
        <5> QED
          BY <1>2, <2>1, <5>1
      <4> QED
        BY <1>1, <1>3, <4>1 DEF Ahead
    <3> QED
      BY <2>2, <2>4, <3>1
  <2>5. CASE kind[n] # "l1accept" /\ tr[Slot(n)] # 0 /\ trFree' = trFree + 1
    <3>1. tr[Slot(n)] = n
      BY <1>2, <2>5
    <3>2. Slot(n) \in Ahead
      BY <1>1, <1>2, <3>1 DEF Ahead
    <3>3. Ahead' = Ahead \ {Slot(n)}
      <4>1. ASSUME NEW s \in Slots
            PROVE  tr[s] > n <=> tr[s] > n - 1 /\ s # Slot(n)
        <5>1. tr[s] = n => s = Slot(n)
          BY <1>2, <2>3
        <5> QED
          BY <1>2, <2>1, <3>1, <5>1
      <4> QED
        BY <1>1, <1>3, <4>1 DEF Ahead
    <3>4. Cardinality(Ahead') = Cardinality(Ahead) - 1
      BY <2>2, <3>2, <3>3, FS_RemoveElement
    <3> DEFINE a == Cardinality(Ahead)
               b == Cardinality(Ahead')
    <3>5. b = a - 1 /\ a \in Nat /\ trFree + a = TrBuffers
      BY <2>2, <3>4
    <3> HIDE DEF a, b
    <3>6. trFree' + b = TrBuffers
      BY <2>2, <2>5, <3>5
    <3> QED
      BY <3>6 DEF b
  <2> QED
    BY <2>4, <2>5 DEF Taken
<1>11. CountInv'
  BY <1>3, <1>4, <1>10 DEF CountInv
<1> QED
  BY <1>9, <1>11

LEMMA TakenFlow ==
  ASSUME TypeInv, RingInv, NEW first, NEW next, NEW begin, FlowInv(first, next, begin),
         NEW n, Taken(n)
  PROVE  FlowInv(first, next, begin)'
<1>0. OrderInv(first, next, begin) /\ QueueInv(first, next, begin) /\ WorkInv(first, begin)
      /\ ReaderInv(next, begin)
  BY DEF FlowInv
<1>1. Arrived' = n /\ Arrived = n - 1 /\ pend' \in Seq(Slots)
  BY TakenMoves
<1>2. n \in Nat /\ n <= Collected(first, begin) /\ n < Whence(next, begin) + 1
  BY ReceiveFacts DEF Taken
<1>3. /\ UNCHANGED <<kind, zero, from, sent, buf, pebble, tr, trDown, last, batch, rworker, rpc,
                     inq, outq, wi, cworker, ci>>
      /\ lastIndex' = Slot(n) /\ pend' = Tail(pend) /\ pend # << >>
  BY DEF Taken
<1>4. /\ Collected(first, begin)' = Collected(first, begin)
      /\ Whence(next, begin)' = Whence(next, begin)
      /\ (\A w : Queue(w)' = Queue(w)) /\ \A m : Begins(m)' <=> Begins(m)
      /\ (\A w, i : Number(first, w, i)' = Number(first, w, i)) /\ \A m : Slot(m)' = Slot(m)
      /\ \A m : (m - zero') % NumBuffers = Slot(m)
  BY <1>3 DEF Collected, Whence, Queue, Begins, Number, Turn, Slot
<1>5. Collected(first, begin) \in Int /\ Whence(next, begin) \in Int
      /\ Collected(first, begin) < begin[next] /\ begin[next] <= Whence(next, begin) + 1
      /\ begin[next] \in Int
  BY <1>0, OrderFacts
<1>6. /\ Len(pend') = Collected(first, begin) - n
      /\ \A i \in DOMAIN pend' : pend'[i] = Slot(n + i)
  <2>1. pend \in Seq(Slots) /\ Len(pend) = Collected(first, begin) - (n - 1)
        /\ \A i \in DOMAIN pend : pend[i] = Slot(n - 1 + i)
    BY <1>0, <1>1 DEF OrderInv, TypeInv
  <2>2. /\ Len(pend') = Len(pend) - 1 /\ Len(pend) \in Nat
        /\ \A i \in 1 .. Len(pend') : pend'[i] = pend[i + 1]
    BY <1>3, <2>1, HeadTailProperties, LenProperties
  <2>3. DOMAIN pend' = 1 .. Len(pend') /\ DOMAIN pend = 1 .. Len(pend)
    BY <1>1, <2>1, LenProperties
  <2> DEFINE k == Len(pend)
             r == Len(pend')
  <2>4. r = k - 1 /\ k \in Nat /\ k = Collected(first, begin) - (n - 1)
        /\ DOMAIN pend' = 1 .. r /\ DOMAIN pend = 1 .. k
        /\ \A i \in 1 .. r : pend'[i] = pend[i + 1]
    BY <2>1, <2>2, <2>3
  <2> HIDE DEF k, r
  <2>5. r = Collected(first, begin) - n
    BY <1>2, <1>5, <2>4
  <2>6. ASSUME NEW i \in DOMAIN pend'
        PROVE  pend'[i] = Slot(n + i)
    <3>0. i \in 1 .. r
      BY <2>4, <2>6
    <3>1. i + 1 \in 1 .. k /\ n - 1 + (i + 1) = n + i
      BY <1>2, <2>4, <3>0
    <3>2. pend[i + 1] = Slot(n - 1 + (i + 1))
      BY <2>1, <2>4, <3>1
    <3> QED
      BY <2>4, <3>0, <3>1, <3>2
  <2> QED
    BY <2>5, <2>6 DEF r
<1>7. OrderInv(first, next, begin)'
  BY <1>0, <1>1, <1>2, <1>3, <1>4, <1>6 DEF OrderInv
<1>8. QueueInv(first, next, begin)'
  <2>1. \A w \in Workers : QueueAt(Queue(w), w, Turn(w, rworker), first, next, begin)
    BY <1>0 DEF QueueInv, QueueAt
  <2>2. rworker' = rworker /\ UNCHANGED <<cworker, zero>>
    BY <1>3
  <2>3. \A w \in Workers : QueueAt(Queue(w)', w, Turn(w, rworker'), first, next, begin)
    BY <1>4, <2>1, <2>2
  <2> QED
    BY <2>2, <2>3, QueueNext
<1>9. WorkInv(first, begin)'
  <2>1. \A e \in n + 1 .. Collected(first, begin) : pebble[Slot(e)] = e
    <3>1. \A e \in (n - 1) + 1 .. Collected(first, begin) : pebble[Slot(e)] = e
      BY <1>0, <1>1 DEF WorkInv
    <3> QED
      BY <1>2, <1>5, <3>1
  <2> QED
    BY <1>0, <1>1, <1>3, <1>4, <2>1, WorkNext DEF WorkInv
<1>10. ReaderInv(next, begin)'
  <2> DEFINE c == Whence(next, begin)
  <2>0. c \in Int /\ n < c + 1
    BY <1>2, <1>5
  <2>1. /\ Begins(c + 1) \/ Same(last', c - zero', CntMod)
        /\ \/ Begins(c + 1) /\ batch'.size = 0
           \/ Same(batch'.start, begin[next] - zero', NumBuffers)
    BY <1>0, <1>3 DEF ReaderInv
  <2>2. rpc'[1] = "alloc" =>
          /\ rpc' = <<"alloc", c, (c - zero') % NumBuffers>> /\ batch'.size > 0
          /\ kind'[c] # "l1accept" /\ tr'[(c - zero') % NumBuffers] # c
    BY <1>0, <1>3, <1>4 DEF ReaderInv
  <2>3. \A l \in Lanes : \A m \in c + 1 .. sent'[l] : Begins(m) => Arrived' = m - 1
    <3> SUFFICES ASSUME NEW l \in Lanes, NEW m \in c + 1 .. sent[l], Begins(m)
                 PROVE  FALSE
      BY <1>3
    <3>1. Arrived = m - 1
      BY <1>0 DEF ReaderInv
    <3>2. m \in Int /\ m > c
      BY <2>0
    <3> HIDE DEF c
    <3> QED
      BY <1>1, <1>2, <2>0, <3>1, <3>2
  <2>4. \A m \in n + 1 .. c :
          \/ kind'[m] = "l1accept" \/ rpc' = <<"alloc", m, (m - zero') % NumBuffers>>
          \/ tr'[(m - zero') % NumBuffers] = m
          \/ (trDown' /\ tr'[(m - zero') % NumBuffers] = 0)
    <3> SUFFICES ASSUME NEW m \in n + 1 .. c
                 PROVE  \/ kind[m] = "l1accept" \/ rpc = <<"alloc", m, Slot(m)>>
                        \/ tr[Slot(m)] = m \/ (trDown /\ tr[Slot(m)] = 0)
      BY <1>3, <1>4
    <3>1. m \in Arrived + 1 .. c
      <4> HIDE DEF c
      <4> QED
        BY <1>1, <1>2, <2>0
    <3> QED
      BY <1>0, <3>1 DEF ReaderInv
  <2>5. lastIndex' = (n - zero') % NumBuffers
    BY <1>3, <1>4
  <2>6. Whence(next, begin)' = c
    BY <1>4
  <2> HIDE DEF c
  <2> QED
    BY <1>1, <1>4, <2>1, <2>2, <2>3, <2>4, <2>5, <2>6, ReaderNext
<1> QED
  BY <1>7, <1>8, <1>9, <1>10 DEF FlowInv

\* What was read for an event is in its slot while the event is with the contributor.
LEMMA PendIntact ==
  ASSUME TypeInv, RingInv, NEW first, NEW next, NEW begin, FlowInv(first, next, begin),
         NEW i \in DOMAIN pend, NEW l \in Lanes
  PROVE  buf[pend[i]][l] = pebble[pend[i]]
<1>0. OrderInv(first, next, begin) /\ WorkInv(first, begin)
  BY DEF FlowInv
<1>1. /\ Collected(first, begin) \in Int /\ Arrived \in Nat
      /\ Collected(first, begin) < begin[next] /\ begin[next] <= Whence(next, begin) + 1
      /\ Whence(next, begin) <= sent[l] /\ begin[next] \in Int /\ Whence(next, begin) \in Int
      /\ Released(l) \in Nat /\ Released(l) <= Arrived /\ sent[l] \in Nat
  BY <1>0, OrderFacts, Places DEF TypeInv
<1>2. pend[i] = Slot(Arrived + i) /\ Len(pend) = Collected(first, begin) - Arrived
  BY <1>0 DEF OrderInv
<1>3. DOMAIN pend = 1 .. Len(pend) /\ Len(pend) \in Nat
  BY LenProperties DEF TypeInv
<1> DEFINE k == Len(pend)
           m == Arrived + i
<1>4. i \in 1 .. k /\ k = Collected(first, begin) - Arrived
  BY <1>2, <1>3
<1> HIDE DEF k
<1>5. m \in Arrived + 1 .. Collected(first, begin) /\ m \in Released(l) + 1 .. sent[l]
  BY <1>1, <1>4
<1> HIDE DEF m
<1>6. pebble[Slot(m)] = m /\ buf[Slot(m)][l] = m
  BY <1>0, <1>5 DEF WorkInv, RingInv
<1> QED
  BY <1>2, <1>6 DEF m

LEMMA ReceiveInv ==
  ASSUME Inv, lost = 0, Receive
  PROVE  Inv'
<1>1. TypeInv /\ PhaseInv /\ RingInv /\ CountInv /\ InputInv
  BY DEF Inv
<1>2. ~ended /\ spc # "done" /\ pend # << >> /\ cur = None
  BY DEF Receive
<1>3. PICK first, next, begin : FlowInv(first, next, begin)
  BY <1>2 DEF Inv
<1>4. PICK n : n = Arrived + 1
  OBVIOUS
<1>5. /\ Head(pend) = Slot(n) /\ pebble[Slot(n)] = n /\ Slot(n) \in Slots /\ n \in Nat
      /\ Slot(n) = ((IF kind[n] = "beginrun" THEN 0 ELSE lastIndex) + 1) % NumBuffers
  BY <1>1, <1>2, <1>3, <1>4, ReceiveFacts
<1>6. UNCHANGED <<kind, zero, from, sent, lost, buf, pebble, tr, trDown, dmaFree, last, batch,
                  rworker, rpc, inq, outq, wi, cworker, ci, held, spc, joined, configs>>
      /\ pend' = Tail(pend)
  BY DEF Receive, stream, reader, workers
<1>7. pend \in Seq(Slots) /\ pend' \in Seq(Slots)
  BY <1>1, <1>2, <1>6, HeadTailProperties DEF TypeInv
<1>8. CASE kind[n] # "l1accept" /\ tr[Slot(n)] = 0
  <2>1. ended' = TRUE /\ UNCHANGED <<lastIndex, delivered, cur, lane, trFree>>
    BY <1>5, <1>8 DEF Receive
  <2>2. TypeInv' /\ PhaseInv'
    <3>1. trDown
      <4>1. n # 0
        BY <1>1, <1>4, Places
      <4>2. kind[n] = "l1accept" \/ tr[Slot(n)] = n \/ (trDown /\ tr[Slot(n)] = 0)
        BY <1>1, <1>2, <1>3, <1>4, ReceiveFacts
      <4> QED
        BY <1>8, <4>1, <4>2
    <3>2. TypeInv'
      BY <1>1, <1>2, <1>6, <1>7, <2>1 DEF TypeInv
    <3>3. PhaseInv'
      BY <1>1, <1>2, <1>6, <2>1, <3>1 DEF PhaseInv
    <3> QED
      BY <3>2, <3>3
  <2>3. /\ Arrived' = Arrived /\ Base' = Base /\ \A l \in Lanes : Released(l)' = Released(l)
        /\ \A m : Slot(m)' = Slot(m) /\ \A k : Begins(k)' <=> Begins(k)
        /\ Frames' = Frames /\ Ahead' = Ahead
    BY <1>6, <2>1 DEF Arrived, Base, Released, Slot, Begins, Frames, Ahead
  <2>4. RingInv' /\ CountInv'
    BY <1>1, <1>6, <2>1, <2>3 DEF RingInv, CountInv
  <2>5. InputInv'
    <3>1. ASSUME NEW i \in DOMAIN pend', NEW l \in Lanes
          PROVE  buf[pend'[i]][l] = pebble[pend'[i]]
      <4>1. /\ Len(pend') = Len(pend) - 1 /\ Len(pend) \in Nat
            /\ \A j \in 1 .. Len(pend') : pend'[j] = pend[j + 1]
        BY <1>2, <1>6, <1>7, HeadTailProperties, LenProperties
      <4>2. DOMAIN pend' = 1 .. Len(pend') /\ DOMAIN pend = 1 .. Len(pend)
        BY <1>7, LenProperties
      <4> DEFINE k == Len(pend)
                 r == Len(pend')
      <4>3. r = k - 1 /\ k \in Nat /\ i \in 1 .. r
        BY <3>1, <4>1, <4>2
      <4> HIDE DEF k, r
      <4>4. i + 1 \in 1 .. k
        BY <4>3
      <4>5. pend'[i] = pend[i + 1] /\ i + 1 \in DOMAIN pend
        BY <4>1, <4>2, <4>3, <4>4 DEF k, r
      <4>6. buf[pend[i + 1]][l] = pebble[pend[i + 1]]
        BY <1>1, <1>3, <4>5, PendIntact
      <4> QED
        BY <4>5, <4>6
    <3> QED
      BY <1>2, <1>6, <2>1, <3>1 DEF InputInv
  <2> QED
    BY <2>1, <2>2, <2>4, <2>5 DEF Inv
<1>9. CASE ~(kind[n] # "l1accept" /\ tr[Slot(n)] = 0)
  <2>1. /\ lastIndex' = Slot(n) /\ delivered' = Append(delivered, n)
        /\ cur' = Slot(n) /\ lane' = 0
        /\ trFree' = (IF kind[n] # "l1accept" THEN trFree + 1 ELSE trFree)
        /\ UNCHANGED ended
    BY <1>5, <1>9 DEF Receive, FreesTr
  <2>2. Taken(n)
    BY <1>2, <1>4, <1>6, <1>9, <2>1 DEF Taken
  <2>3. RingInv' /\ CountInv' /\ FlowInv(first, next, begin)'
    BY <1>1, <1>3, <2>2, TakenRing, TakenFlow
  <2>4. delivered' \in Seq(Nat) /\ Arrived' = n
    BY <1>1, <1>3, <2>2, TakenMoves
  <2>5. TypeInv'
    <3>1. trFree' \in Nat
      BY <1>1, <2>1 DEF TypeInv
    <3>2. lane' \in 0 .. NumLanes /\ cur' \in Slots \cup {None} /\ lastIndex' \in Slots
      BY <1>5, <2>1, Sizes
    <3> QED
      BY <1>1, <1>6, <1>7, <2>4, <3>1, <3>2 DEF TypeInv
  <2>6. PhaseInv'
    BY <1>1, <1>2, <1>6, <2>1 DEF PhaseInv
  <2>7. InputInv'
    BY <1>2, <1>5, <1>6, <2>1, <2>4 DEF InputInv
  <2> QED
    BY <2>3, <2>5, <2>6, <2>7 DEF Inv
<1> QED
  BY <1>8, <1>9

-----------------------------------------------------------------------------
(***************************************************************************)
(* The workers                                                             *)
(***************************************************************************)

LEMMA LeastNat ==
  ASSUME NEW T \in SUBSET Nat, T # {}
  PROVE  \E x \in T : \A y \in T : x <= y
<1> DEFINE R == OpToRel(<, Nat)
<1>1. IsWellFoundedOn(R, Nat)
  BY NatLessThanWellFounded
<1>2. R = {pair \in Nat \X Nat : pair[1] < pair[2]}
  BY DEF OpToRel
<1>3. PICK x \in T : \A y \in T : ~(<<y, x>> \in R)
  <2> HIDE DEF R
  <2> QED
    BY <1>1, WFMin
<1>4. ASSUME NEW y \in T
      PROVE  x <= y
  <2>1. <<y, x>> \in Nat \X Nat /\ <<y, x>>[1] = y /\ <<y, x>>[2] = x
    OBVIOUS
  <2> HIDE DEF R
  <2>2. ~(y < x)
    BY <1>2, <1>3, <2>1
  <2> QED
    BY <2>2
<1> QED
  BY <1>4

\* One of the lanes in the mask.
LEMMA FirstLaneIn ==
  ASSUME NEW s, NEW k \in Lanes, buf[s][k] # 0
  PROVE  FirstLane(s) \in Lanes /\ buf[s][FirstLane(s)] # 0
<1> DEFINE T == {l \in Lanes : buf[s][l] # 0}
<1>1. T \in SUBSET Nat /\ T # {}
  BY DEF Lanes
<1>2. \E x \in T : \A y \in T : x <= y
  <2> HIDE DEF T
  <2> QED
    BY <1>1, LeastNat
<1>3. Min(T) \in T
  <2> HIDE DEF T
  <2> QED
    BY <1>2 DEF Min
<1> QED
  BY <1>3 DEF FirstLane

\* Unless a lane is to spare the ring may be full.
LEMMA RingNotFull ==
  ASSUME TypeInv, RingInv, CountInv, Spare
  PROVE  \E l \in Lanes : sent[l] < Arrived + NumBuffers
<1> SUFFICES ASSUME \A l \in Lanes : ~(sent[l] < Arrived + NumBuffers)
             PROVE  FALSE
  OBVIOUS
<1>1. Arrived \in Nat /\ zero \in Int /\ NumBuffers \in Nat \ {0} /\ NumLanes \in Nat /\ DmaCount \in Nat
      /\ \A l \in Lanes : sent[l] \in Nat /\ Released(l) \in Nat /\ Released(l) <= Arrived
  BY Places, Sizes DEF TypeInv
<1>2. ASSUME NEW s \in Slots, NEW l \in Lanes
      PROVE  buf[s][l] # 0
  <2>1. s \in 0 .. NumBuffers - 1
    BY DEF Slots
  <2>2. PICK n \in Arrived + 1 .. Arrived + NumBuffers : (n - zero) % NumBuffers = s
    <3>1. Arrived \in Int
      BY <1>1
    <3> QED
      BY <1>1, <2>1, <3>1, ModCovers, ZenonT(30)
  <2>3. n \in Released(l) + 1 .. sent[l] /\ n # 0
    <3>1. n \in Int /\ Arrived + 1 <= n /\ n <= Arrived + NumBuffers
      BY <1>1, <2>2
    <3> QED
      BY <1>1, <3>1
  <2>4. buf[Slot(n)][l] = n
    BY <2>3 DEF RingInv
  <2> QED
    BY <2>2, <2>3, <2>4 DEF Slot
<1>3. Frames = Slots \X Lanes
  BY <1>2 DEF Frames
<1>4. Cardinality(Frames) = NumBuffers * NumLanes
  BY <1>3, FiniteFrames
<1>5. dmaFree + held + Cardinality(Frames) = DmaCount /\ dmaFree \in Nat /\ held \in Nat
  BY Sizes DEF CountInv, TypeInv
<1> DEFINE a == Cardinality(Frames)
<1>6. a <= DmaCount
  <2>1. a \in Nat /\ dmaFree + held + a = DmaCount
    BY <1>5, FiniteFrames
  <2> HIDE DEF a
  <2> QED
    BY <1>1, <1>5, <2>1
<1>7. NumLanes * NumBuffers = NumBuffers * NumLanes
  BY <1>1
<1> QED
  BY <1>1, <1>4, <1>6, <1>7 DEF Spare

LEMMA NatTimes ==
  ASSUME NEW a \in Nat, NEW b \in Nat
  PROVE  a * b \in Nat
BY SMT

LEMMA NatTimesZero ==
  ASSUME NEW a \in Nat \ {0}, NEW b \in Nat, a * b = 0
  PROVE  b = 0
BY SMT

\* An event that a worker is at.
LEMMA WorkFacts ==
  ASSUME TypeInv, RingInv, NEW first, NEW next, NEW begin, FlowInv(first, next, begin),
         NEW w \in Workers, inq[w] # << >>, NEW j, j = Number(first, w, Len(outq[w]) + 1),
         NEW e, e = begin[j] + wi[w]
  PROVE  /\ j \in Nat /\ begin[j] \in Int /\ begin[j + 1] \in Int /\ e \in Int /\ e < begin[j + 1]
         /\ Head(inq[w]).size = begin[j + 1] - begin[j]
         /\ SlotOf(Head(inq[w]), wi[w]) = Slot(e) /\ Slot(e) \in Slots
         /\ Collected(first, begin) < e /\ begin[j + 1] <= Whence(next, begin) + 1
         /\ (\A l \in Lanes : e <= sent[l] /\ buf[Slot(e)][l] = e) /\ e > 0
<1>0. OrderInv(first, next, begin) /\ QueueInv(first, next, begin) /\ WorkInv(first, begin)
  BY DEF FlowInv
<1> DEFINE p == Len(outq[w]) + 1
           b == Head(inq[w])
<1>1. p \in DOMAIN Queue(w) /\ Queue(w)[p] = b /\ b \in [start : Int, size : Nat]
  BY QueueFacts
<1> HIDE DEF p
<1>2. j = Number(first, w, p)
  BY DEF p
<1>3. /\ j \in first .. next - 1 /\ j \in Nat /\ j + 1 \in Nat
      /\ begin[j] \in Int /\ begin[j + 1] \in Int /\ p \in Nat
  BY <1>0, <1>1, <1>2, PlaceFacts
<1>4. b.size = begin[j + 1] - begin[j] /\ Same(b.start, begin[j] - zero, NumBuffers)
  BY <1>0, <1>1, <1>2 DEF QueueInv
<1>5. wi[w] \in Nat /\ wi[w] < b.size /\ b.start \in Int /\ b.size \in Nat
  <2>1. wi[w] \in Nat
    BY DEF TypeInv
  <2> QED
    BY <1>0, <1>1, <2>1 DEF WorkInv
<1> HIDE DEF b
<1> DEFINE x == begin[j]
           y == begin[j + 1]
           k == wi[w]
           c == Collected(first, begin)
           d == Whence(next, begin)
<1>6. e \in Int /\ e < y /\ x <= e /\ e = x + k
  <2>1. x \in Int /\ y \in Int /\ k \in Nat /\ k < b.size /\ b.size = y - x /\ e = x + k
    BY <1>3, <1>4, <1>5
  <2> HIDE DEF x, y, k
  <2> QED
    BY <2>1
<1>7. SlotOf(b, wi[w]) = Slot(e) /\ Slot(e) \in Slots
  <2>1. zero \in Int /\ NumBuffers \in Nat \ {0}
    BY Sizes DEF TypeInv
  <2> DEFINE z == b.start
  <2>2. x \in Int /\ z \in Int /\ k \in Nat /\ Same(z, x - zero, NumBuffers)
    BY <1>3, <1>4, <1>5
  <2>3. SlotOf(b, wi[w]) = (z + k) % NumBuffers
    BY DEF SlotOf
  <2> HIDE DEF x, k, z
  <2>4. (z + k) - (e - zero) = z - (x - zero) /\ z + k \in Int /\ e - zero \in Int /\ x - zero \in Int
    BY <1>6, <2>1, <2>2
  <2>5. Same(z + k, e - zero, NumBuffers)
    BY <2>1, <2>2, <2>4, ModShift
  <2> QED
    BY <1>6, <2>3, <2>5, SlotRange DEF Same, Slot
<1>8. /\ first \in Nat /\ next \in Nat /\ first <= next
      /\ \A m, n \in first .. next : m < n => begin[m] < begin[n]
      /\ ci = 0 \/ (first < next /\ begin[first] + ci < begin[first + 1])
      /\ begin \in [Nat -> Int]
  BY <1>0 DEF OrderInv
<1>80. ci \in Nat
  BY DEF TypeInv
<1>9. c < e
  <2>1. CASE j = first
    <3>1. w = cworker /\ p = 1
      <4>1. cworker \in Workers /\ NumWorkers \in Nat \ {0}
        BY Sizes DEF TypeInv
      <4>2. Turn(w, cworker) \in Nat /\ (Turn(w, cworker) = 0 <=> w = cworker)
        BY <4>1, NextTurn
      <4>3. p \in Nat \ {0}
        <5>1. p \in 1 .. Len(Queue(w))
          BY <1>1, QueueFacts
        <5> QED
          BY <1>3, <5>1
      <4> DEFINE t == Turn(w, cworker)
      <4>4. j = first + t + NumWorkers * (p - 1)
        BY <1>2 DEF Number
      <4>5. t \in Nat
        BY <4>2
      <4> HIDE DEF t
      <4>6. NumWorkers * (p - 1) \in Nat
        <5>1. p - 1 \in Nat
          BY <4>3
        <5> QED
          BY <4>1, <5>1, NatTimes
      <4> DEFINE u == NumWorkers * (p - 1)
      <4>7. t = 0 /\ u = 0
        <5>1. u \in Nat /\ j = first + t + u
          BY <4>4, <4>6
        <5> HIDE DEF u
        <5> QED
          BY <1>8, <2>1, <4>5, <5>1
      <4>8. p - 1 = 0
        <5>1. p - 1 \in Nat /\ NumWorkers * (p - 1) = 0
          BY <4>3, <4>7
        <5> QED
          BY <4>1, <5>1, NatTimesZero
      <4>9. p = 1
        BY <1>3, <4>8
      <4> QED
        BY <4>2, <4>7, <4>9 DEF t
    <3>2. outq[w] = << >>
      <4>1. Len(outq[w]) = 0
        <5>1. Len(outq[w]) \in Nat
          BY QueueFacts
        <5> QED
          BY <3>1, <5>1 DEF p
      <4> QED
        BY <4>1, QueueFacts, EmptySeq
    <3>3. ci = 0
      BY <1>0, <3>1, <3>2 DEF WorkInv
    <3>4. c = x + ci - 1 /\ x \in Int
      BY <1>3, <2>1 DEF Collected
    <3> HIDE DEF c, x
    <3> QED
      BY <1>6, <3>3, <3>4
  <2>2. CASE j # first
    <3>1. first < j /\ j <= next
      <4>1. first \in Nat /\ next \in Nat /\ j \in first .. next - 1
        BY <1>3, <1>8
      <4> QED
        BY <2>2, <4>1
    <3>2. first \in first .. next /\ j \in first .. next /\ first + 1 \in first .. next
          /\ first + 1 \in Nat /\ (first + 1 = j \/ first + 1 < j) /\ first < first + 1
      <4>1. first \in Nat /\ next \in Nat /\ j \in Nat
        BY <1>3, <1>8
      <4> QED
        BY <3>1, <4>1
    <3> DEFINE f == begin[first]
               g == begin[first + 1]
    <3>3. f \in Int /\ g \in Int /\ x \in Int /\ f < g
      BY <1>3, <1>8, <3>2
    <3>4. g <= x
      <4>1. CASE first + 1 = j
        BY <3>3, <4>1
      <4>2. CASE first + 1 < j
        <5>1. g < x
          BY <1>8, <3>2, <4>2
        <5> HIDE DEF g, x
        <5> QED
          BY <3>3, <5>1
      <4> QED
        BY <3>2, <4>1, <4>2
    <3>5. c = f + ci - 1 /\ (ci = 0 \/ f + ci < g)
      BY <1>8 DEF Collected
    <3> HIDE DEF f, g, x, c
    <3> QED
      BY <1>6, <1>80, <3>3, <3>4, <3>5
  <2> QED
    BY <2>1, <2>2
<1>10. /\ y <= d + 1 /\ d \in Int /\ c \in Int /\ Arrived <= c
       /\ \A l \in Lanes : d <= sent[l]
  <2>1. j + 1 \in first .. next /\ next \in first .. next /\ (j + 1 = next \/ j + 1 < next)
    <3>1. first \in Nat /\ next \in Nat /\ first <= next /\ j \in first .. next - 1
      BY <1>3, <1>8
    <3> QED
      BY <3>1
  <2> DEFINE v == begin[next]
  <2>2. /\ v \in Int /\ d \in Int /\ c \in Int /\ Arrived <= c /\ v <= d + 1
        /\ \A l \in Lanes : d <= sent[l]
    BY <1>0, OrderFacts
  <2>3. y \in Int /\ (y = v \/ y < v)
    BY <1>3, <1>8, <2>1
  <2> HIDE DEF y, v, c, d
  <2> QED
    BY <2>2, <2>3
<1>11. Arrived \in Nat /\ y \in Int /\ \A l \in Lanes : Released(l) \in Nat /\ Released(l) <= Arrived
       /\ sent[l] \in Nat
  BY <1>3, Places DEF TypeInv
<1> HIDE DEF x, y, k, c, d
<1>12. ASSUME NEW l \in Lanes
       PROVE  e <= sent[l] /\ buf[Slot(e)][l] = e
  <2> DEFINE q == sent[l]
             r == Released(l)
  <2>1. q \in Nat /\ r \in Nat /\ r <= Arrived /\ d <= q
    BY <1>10, <1>11
  <2>2. e <= q /\ e \in r + 1 .. q
    <3> HIDE DEF q, r
    <3> QED
      BY <1>6, <1>9, <1>10, <1>11, <2>1
  <2> QED
    BY <2>2 DEF RingInv
<1>13. e > 0
  BY <1>6, <1>9, <1>10, <1>11
<1> QED
  BY <1>3, <1>4, <1>6, <1>7, <1>9, <1>10, <1>12, <1>13 DEF b, x, y, c, d
\* A batch ends where the reader has got to, or before.
LEMMA BatchEnd ==
  ASSUME TypeInv, RingInv, NEW first, NEW next, NEW begin, OrderInv(first, next, begin),
         QueueInv(first, next, begin), NEW w \in Workers, NEW i \in DOMAIN Queue(w),
         NEW j, j = Number(first, w, i)
  PROVE  begin[j + 1] \in Int /\ begin[j] \in Int /\ begin[j + 1] <= Whence(next, begin) + 1
<1>1. j \in first .. next - 1 /\ begin[j] \in Int /\ begin[j + 1] \in Int
  BY PlaceFacts
<1>2. /\ first \in Nat /\ next \in Nat /\ first <= next
      /\ \A m, n \in first .. next : m < n => begin[m] < begin[n]
  BY DEF OrderInv
<1>3. j + 1 \in first .. next /\ next \in first .. next /\ (j + 1 = next \/ j + 1 < next)
  <2>1. first \in Nat /\ next \in Nat /\ first <= next /\ j \in first .. next - 1
    BY <1>1, <1>2
  <2> QED
    BY <2>1
<1> DEFINE y == begin[j + 1]
           v == begin[next]
           d == Whence(next, begin)
<1>4. v \in Int /\ d \in Int /\ v <= d + 1
  BY OrderFacts
<1>5. y \in Int /\ (y = v \/ y < v)
  BY <1>1, <1>2, <1>3
<1>6. y <= d + 1
  <2> HIDE DEF y, v, d
  <2> QED
    BY <1>4, <1>5
<1> QED
  BY <1>1, <1>6

\* Worker w makes the datagram of event e.
Makes(w, e) ==
  LET b == Head(inq[w])
      done == wi[w] + 1 = b.size
  IN /\ inq[w] # << >> /\ ~ended
     /\ pebble' = [pebble EXCEPT ![Slot(e)] = e]
     /\ wi' = [wi EXCEPT ![w] = IF done THEN 0 ELSE @ + 1]
     /\ inq' = IF done THEN [inq EXCEPT ![w] = Tail(@)] ELSE inq
     /\ outq' = IF done THEN [outq EXCEPT ![w] = Append(@, b)] ELSE outq
     /\ UNCHANGED <<kind, zero, from, sent, lost, buf, tr, trFree, trDown, dmaFree, last, batch,
                    rworker, rpc, cworker, ci, pend, lastIndex, delivered, cur, lane, held,
                    spc, joined, configs, ended>>

LEMMA WorkStep ==
  ASSUME TypeInv, RingInv, NEW first, NEW next, NEW begin, FlowInv(first, next, begin),
         NEW w \in Workers, Work(w),
         NEW e, e = begin[Number(first, w, Len(outq[w]) + 1)] + wi[w]
  PROVE  Makes(w, e)
<1>1. inq[w] # << >>
  BY DEF Work
<1>2. PICK j : j = Number(first, w, Len(outq[w]) + 1)
  OBVIOUS
<1>3. /\ SlotOf(Head(inq[w]), wi[w]) = Slot(e) /\ e > 0 /\ e \in Int
      /\ \A l \in Lanes : buf[Slot(e)][l] = e
  BY <1>1, <1>2, WorkFacts
<1>4. PICK k \in Lanes : TRUE
  BY Sizes DEF Lanes
<1>5. buf[Slot(e)][k] # 0 /\ e # 0
  BY <1>3
<1>6. FirstLane(Slot(e)) \in Lanes
  BY <1>5, FirstLaneIn
<1>7. ~Empty(Slot(e)) /\ buf[Slot(e)][FirstLane(Slot(e))] = e
  BY <1>3, <1>5, <1>6 DEF Empty
<1> QED
  BY <1>1, <1>3, <1>7 DEF Work, Makes, stream, reader, collector, receiver, control

\* Events that are under way have slots of their own.
LEMMA MadeSlots ==
  ASSUME TypeInv, RingInv, NEW first, NEW next, NEW begin, OrderInv(first, next, begin),
         NEW e \in Int, Arrived < e, e <= Whence(next, begin), Slot(e) \in Slots,
         pebble' = [pebble EXCEPT ![Slot(e)] = e], UNCHANGED zero,
         NEW x \in Int, Arrived < x, x <= Whence(next, begin), x = e \/ pebble[Slot(x)] = x
  PROVE  pebble'[Slot(x)'] = x
<1>1. pebble \in [Slots -> Nat] /\ Slot(x)' = Slot(x)
  BY DEF TypeInv, Slot
<1>2. PICK l \in Lanes : TRUE
  BY Sizes DEF Lanes
<1>3. /\ Whence(next, begin) \in Int /\ Whence(next, begin) <= sent[l] /\ sent[l] \in Int
      /\ sent[l] <= Base + NumBuffers /\ Base <= Arrived /\ Arrived \in Int /\ Base \in Int
      /\ NumBuffers \in Nat
  <2>1. Whence(next, begin) \in Int /\ Whence(next, begin) <= sent[l]
    BY OrderFacts
  <2>2. Base <= Arrived /\ Arrived \in Int /\ Base \in Int /\ NumBuffers \in Nat
    BY Places, Sizes
  <2>3. sent[l] \in Int
    BY DEF TypeInv
  <2>4. sent[l] <= Base + NumBuffers
    BY DEF RingInv
  <2> QED
    BY <2>1, <2>2, <2>3, <2>4
<1> DEFINE q == sent[l]
<1>4. e < x + NumBuffers /\ x < e + NumBuffers
  <2>1. Whence(next, begin) <= q /\ q \in Int /\ q <= Base + NumBuffers
    BY <1>3
  <2> HIDE DEF q
  <2> QED
    BY <1>3, <2>1
<1>5. Slot(x) = Slot(e) => x = e
  BY <1>4, SlotApart
<1> QED
  BY <1>1, <1>5
\* The queues after the step.
LEMMA MakesQueues ==
  ASSUME TypeInv, NEW w \in Workers, NEW e, Makes(w, e)
  PROVE  /\ \A v \in Workers : Queue(v)' = Queue(v)
         /\ \A v \in Workers \ {w} :
              inq'[v] = inq[v] /\ outq'[v] = outq[v] /\ wi'[v] = wi[v]
         /\ \/ /\ wi[w] + 1 = Head(inq[w]).size
               /\ wi'[w] = 0 /\ inq'[w] = Tail(inq[w]) /\ outq'[w] = Append(outq[w], Head(inq[w]))
            \/ /\ wi[w] + 1 # Head(inq[w]).size
               /\ wi'[w] = wi[w] + 1 /\ inq'[w] = inq[w] /\ outq'[w] = outq[w]
         /\ inq' \in [Workers -> Seq([start : Int, size : Nat])]
         /\ outq' \in [Workers -> Seq([start : Int, size : Nat])]
         /\ wi' \in [Workers -> Nat]
<1>1. /\ inq \in [Workers -> Seq([start : Int, size : Nat])]
      /\ outq \in [Workers -> Seq([start : Int, size : Nat])]
      /\ wi \in [Workers -> Nat]
  BY DEF TypeInv
<1>2. inq[w] # << >> /\ inq[w] \in Seq([start : Int, size : Nat])
      /\ outq[w] \in Seq([start : Int, size : Nat])
  BY <1>1 DEF Makes
<1>3. /\ Append(outq[w], Head(inq[w])) \o Tail(inq[w]) = outq[w] \o inq[w]
      /\ Append(outq[w], Head(inq[w])) \in Seq([start : Int, size : Nat])
      /\ Tail(inq[w]) \in Seq([start : Int, size : Nat])
  <2> DEFINE T == [start : Int, size : Nat]
             s == outq[w]
             t == inq[w]
  <2>1. s \in Seq(T) /\ t \in Seq(T) /\ t # << >>
    BY <1>2
  <2>2. Append(s, Head(t)) \o Tail(t) = s \o t /\ Append(s, Head(t)) \in Seq(T) /\ Tail(t) \in Seq(T)
    <3> HIDE DEF T, s, t
    <3> QED
      BY <2>1, JoinMove
  <2> QED
    BY <2>2
<1>4. \A v \in Workers \ {w} :
        inq'[v] = inq[v] /\ outq'[v] = outq[v] /\ wi'[v] = wi[v]
  BY <1>1 DEF Makes
<1>5. \/ /\ wi[w] + 1 = Head(inq[w]).size
         /\ wi'[w] = 0 /\ inq'[w] = Tail(inq[w]) /\ outq'[w] = Append(outq[w], Head(inq[w]))
      \/ /\ wi[w] + 1 # Head(inq[w]).size
         /\ wi'[w] = wi[w] + 1 /\ inq'[w] = inq[w] /\ outq'[w] = outq[w]
  BY <1>1 DEF Makes
<1>6. Queue(w)' = Queue(w)
  BY <1>3, <1>5 DEF Queue
<1>7. \A v \in Workers \ {w} : Queue(v)' = Queue(v)
  BY <1>4 DEF Queue
<1>8. /\ inq' \in [Workers -> Seq([start : Int, size : Nat])]
      /\ outq' \in [Workers -> Seq([start : Int, size : Nat])]
  <2>1. CASE wi[w] + 1 = Head(inq[w]).size
    <3>1. inq' = [inq EXCEPT ![w] = Tail(@)] /\ outq' = [outq EXCEPT ![w] = Append(@, Head(inq[w]))]
      BY <2>1 DEF Makes
    <3> QED
      BY <1>1, <1>3, <3>1
  <2>2. CASE wi[w] + 1 # Head(inq[w]).size
    BY <1>1, <2>2 DEF Makes
  <2> QED
    BY <2>1, <2>2
<1>9. wi' \in [Workers -> Nat]
  <2>1. wi[w] \in Nat
    BY <1>1
  <2>2. wi[w] + 1 \in Nat
    BY <2>1
  <2> QED
    BY <1>1, <2>2 DEF Makes
<1> QED
  BY <1>4, <1>5, <1>6, <1>7, <1>8, <1>9

LEMMA AppendNotEmpty ==
  ASSUME NEW T, NEW s \in Seq(T), NEW x \in T
  PROVE  Append(s, x) # << >>
BY AppendProperties

LEMMA MakesFlow ==
  ASSUME TypeInv, RingInv, NEW first, NEW next, NEW begin, FlowInv(first, next, begin),
         NEW w \in Workers, NEW j, j = Number(first, w, Len(outq[w]) + 1),
         NEW e, e = begin[j] + wi[w], Makes(w, e)
  PROVE  FlowInv(first, next, begin)'
<1>0. /\ OrderInv(first, next, begin) /\ QueueInv(first, next, begin)
      /\ WorkInv(first, begin) /\ ReaderInv(next, begin)
  BY DEF FlowInv
<1>1. /\ inq[w] # << >>
      /\ UNCHANGED <<kind, zero, from, sent, buf, tr, last, batch, rworker, rpc, cworker, ci, pend,
                     lastIndex, delivered, trDown>>
      /\ pebble' = [pebble EXCEPT ![Slot(e)] = e]
  BY DEF Makes
<1>2. /\ j \in Nat /\ begin[j] \in Int /\ begin[j + 1] \in Int /\ e \in Int /\ e < begin[j + 1]
      /\ Head(inq[w]).size = begin[j + 1] - begin[j] /\ Slot(e) \in Slots
      /\ Collected(first, begin) < e /\ begin[j + 1] <= Whence(next, begin) + 1
  BY <1>1, WorkFacts
<1>3. /\ Arrived' = Arrived /\ \A m : Slot(m)' = Slot(m) /\ \A k : Begins(k)' <=> Begins(k)
      /\ Collected(first, begin)' = Collected(first, begin)
      /\ Whence(next, begin)' = Whence(next, begin)
  BY <1>1 DEF Arrived, Slot, Begins, Collected, Whence
<1>4. OrderInv(first, next, begin)'
  BY <1>0, <1>1, <1>3 DEF OrderInv
<1>5. ReaderInv(next, begin)'
  BY <1>0, <1>1, <1>3 DEF ReaderInv, Same
<1>6. QueueInv(first, next, begin)'
  <2>1. \A v \in Workers : Queue(v)' = Queue(v)
    BY MakesQueues
  <2>2. \A v \in Workers : QueueAt(Queue(v), v, Turn(v, rworker), first, next, begin)
    BY <1>0 DEF QueueInv, QueueAt
  <2>3. rworker' = rworker
    BY <1>1
  <2>4. \A v \in Workers : QueueAt(Queue(v)', v, Turn(v, rworker'), first, next, begin)
    BY <2>1, <2>2, <2>3
  <2> QED
    BY <1>1, <2>4, QueueNext
<1>7. /\ Arrived \in Int /\ Arrived <= Collected(first, begin) /\ Collected(first, begin) \in Int
      /\ Whence(next, begin) \in Int /\ Collected(first, begin) <= Whence(next, begin)
  <2>1. /\ Collected(first, begin) \in Int /\ Arrived <= Collected(first, begin)
        /\ Collected(first, begin) < begin[next] /\ begin[next] <= Whence(next, begin) + 1
        /\ begin[next] \in Int /\ Whence(next, begin) \in Int
    BY <1>0, OrderFacts
  <2> QED
    BY <2>1, Places
<1> DEFINE c == Collected(first, begin)
           d == Whence(next, begin)
           x == begin[j]
           y == begin[j + 1]
           k == wi[w]
<1>8. Arrived < e /\ e <= d
  <2>1. /\ c < e /\ e < y /\ y <= d + 1 /\ y \in Int /\ c \in Int /\ d \in Int /\ Arrived <= c
        /\ e \in Int /\ Arrived \in Int
    BY <1>2, <1>7
  <2> HIDE DEF c, d, y
  <2> QED
    BY <2>1
<1>9. ASSUME NEW m \in Int, Arrived < m, m <= d, m = e \/ pebble[Slot(m)] = m
      PROVE  pebble'[Slot(m)'] = m
  BY <1>0, <1>1, <1>2, <1>8, <1>9, MadeSlots
<1> DEFINE p == Len(outq[w]) + 1
<1>10. p \in DOMAIN Queue(w) /\ Queue(w)[p] = Head(inq[w])
       /\ Len(outq[w]) \in Nat /\ DOMAIN outq[w] = 1 .. Len(outq[w])
       /\ outq[w] \in Seq([start : Int, size : Nat]) /\ inq[w] \in Seq([start : Int, size : Nat])
  BY <1>1, QueueFacts
<1>11. wi[w] \in Nat /\ wi[w] < Head(inq[w]).size
  <2>1. wi[w] \in Nat
    BY DEF TypeInv
  <2> QED
    BY <1>0, <1>1, <2>1 DEF WorkInv
<1>12. ASSUME NEW v \in Workers
       PROVE  IF inq'[v] = << >> THEN wi'[v] = 0 ELSE wi'[v] < Head(inq'[v]).size
  <2>1. CASE v # w
    <3>1. inq'[v] = inq[v] /\ wi'[v] = wi[v]
      BY <2>1, MakesQueues
    <3> QED
      BY <1>0, <3>1 DEF WorkInv
  <2>2. CASE v = w /\ wi[w] + 1 # Head(inq[w]).size
    <3>1. inq'[w] = inq[w] /\ wi'[w] = wi[w] + 1
      BY <2>2, MakesQueues
    <3> DEFINE z == Head(inq[w]).size
    <3>2. z \in Int /\ k + 1 # z /\ k < z /\ k \in Nat
      <4>1. z = y - x /\ y \in Int /\ x \in Int /\ k \in Nat /\ k < z /\ k + 1 # z
        BY <1>2, <1>11, <2>2
      <4> HIDE DEF x, y, k, z
      <4> QED
        BY <4>1
    <3> HIDE DEF z, k
    <3>3. k + 1 < z
      BY <3>2
    <3> QED
      BY <1>1, <2>2, <3>1, <3>3 DEF z, k
  <2>3. CASE v = w /\ wi[w] + 1 = Head(inq[w]).size
    <3>1. inq'[w] = Tail(inq[w]) /\ wi'[w] = 0 /\ outq'[w] = Append(outq[w], Head(inq[w]))
      BY <2>3, MakesQueues
    <3>2. SUFFICES ASSUME inq'[w] # << >>
                   PROVE  0 < Head(inq'[w]).size
      BY <2>3, <3>1
    <3>3. /\ outq'[w] \in Seq([start : Int, size : Nat]) /\ inq'[w] \in Seq([start : Int, size : Nat])
          /\ Queue(w) = outq'[w] \o inq'[w]
      <4>1. inq' \in [Workers -> Seq([start : Int, size : Nat])]
            /\ outq' \in [Workers -> Seq([start : Int, size : Nat])] /\ Queue(w)' = Queue(w)
        BY MakesQueues
      <4> QED
        BY <4>1 DEF Queue
    <3>4. PICK i : i = Len(outq'[w]) + 1
      OBVIOUS
    <3>5. i \in DOMAIN Queue(w) /\ Queue(w)[i] = Head(inq'[w])
      <4> DEFINE T == [start : Int, size : Nat]
                 s == outq'[w]
                 t == inq'[w]
      <4>1. s \in Seq(T) /\ t \in Seq(T) /\ t # << >> /\ Queue(w) = s \o t /\ i = Len(s) + 1
        BY <3>2, <3>3, <3>4
      <4>2. i \in DOMAIN (s \o t) /\ (s \o t)[i] = Head(t)
        <5> HIDE DEF T, s, t
        <5> QED
          BY <4>1, JoinFacts
      <4> QED
        BY <4>1, <4>2
    <3>6. PICK h : h = Number(first, w, i)
      OBVIOUS
    <3>7. begin[h] \in Int /\ begin[h + 1] \in Int /\ begin[h] < begin[h + 1]
      BY <1>0, <3>5, <3>6, PlaceFacts
    <3>8. Head(inq'[w]).size = begin[h + 1] - begin[h]
      BY <1>0, <3>5, <3>6 DEF QueueInv
    <3> QED
      BY <3>7, <3>8
  <2> QED
    BY <2>1, <2>2, <2>3
<1>13. ASSUME NEW v \in Workers, NEW i \in DOMAIN outq'[v],
              NEW m \in begin[Number(first, v, i)] .. begin[Number(first, v, i) + 1] - 1,
              m > c
       PROVE  pebble'[Slot(m)'] = m
  <2>1. CASE i \in DOMAIN outq[v]
    <3>1. i \in DOMAIN Queue(v)
      BY <2>1, QueueFacts
    <3>2. PICK h : h = Number(first, v, i)
      OBVIOUS
    <3> DEFINE f == begin[h]
               g == begin[h + 1]
    <3>3. f \in Int /\ g \in Int /\ g <= d + 1 /\ m \in f .. g - 1 /\ m > c
      BY <1>0, <1>13, <3>1, <3>2, BatchEnd
    <3>4. Arrived <= c /\ c \in Int /\ d \in Int /\ Arrived \in Int
      BY <1>7
    <3>5. m \in Int /\ Arrived < m /\ m <= d
      <4> HIDE DEF f, g, c, d
      <4> QED
        BY <3>3, <3>4
    <3>6. pebble[Slot(m)] = m
      BY <1>0, <1>13, <2>1 DEF WorkInv
    <3> HIDE DEF c, d
    <3> QED
      BY <1>9, <3>5, <3>6
  <2>2. CASE i \notin DOMAIN outq[v]
    <3>1. v = w /\ wi[w] + 1 = Head(inq[w]).size /\ outq'[w] = Append(outq[w], Head(inq[w]))
      BY <1>13, <2>2, MakesQueues
    <3>2. i = p
      <4> DEFINE n == Len(outq[w])
      <4>1. n \in Nat /\ DOMAIN outq[w] = 1 .. n
        BY <1>10
      <4>2. DOMAIN outq'[w] = 1 .. n + 1
        <5>1. Head(inq[w]) \in [start : Int, size : Nat]
          BY <1>1, <1>10, HeadTailProperties
        <5> QED
          BY <1>10, <3>1, <5>1, AppendProperties
      <4>3. i \in 1 .. n + 1 /\ i \notin 1 .. n
        BY <1>13, <2>2, <3>1, <4>1, <4>2
      <4> HIDE DEF n
      <4>4. i = n + 1
        BY <4>1, <4>3
      <4> QED
        BY <4>4 DEF n
    <3>3. Number(first, v, i) = j
      BY <3>1, <3>2
    <3>4. /\ m \in x .. y - 1 /\ x \in Int /\ y \in Int /\ k \in Nat /\ k + 1 = y - x /\ e = x + k
          /\ c \in Int /\ d \in Int /\ y <= d + 1 /\ m > c /\ Arrived <= c /\ Arrived \in Int
      BY <1>2, <1>7, <1>11, <1>13, <3>1, <3>3
    <3>5. m \in Int /\ Arrived < m /\ m <= d /\ (m = e \/ m \in x .. x + k - 1)
      <4> HIDE DEF x, y, k, c, d
      <4> QED
        BY <3>4
    <3>6. CASE m = e
      <4> HIDE DEF c, d
      <4> QED
        BY <1>9, <3>5, <3>6
    <3>7. CASE m \in x .. x + k - 1
      <4>1. pebble[Slot(m)] = m
        BY <1>0, <1>1, <1>13, <3>7 DEF WorkInv
      <4> HIDE DEF c, d
      <4> QED
        BY <1>9, <3>5, <4>1
    <3> QED
      BY <3>5, <3>6, <3>7
  <2> QED
    BY <2>1, <2>2
<1>14. ASSUME NEW v \in Workers, inq'[v] # << >>,
              NEW b, b = begin[Number(first, v, Len(outq'[v]) + 1)],
              NEW m \in b .. b + wi'[v] - 1, m > c
       PROVE  pebble'[Slot(m)'] = m
  <2>1. CASE v # w
    <3>1. inq'[v] = inq[v] /\ outq'[v] = outq[v] /\ wi'[v] = wi[v]
      BY <2>1, MakesQueues
    <3>2. pebble[Slot(m)] = m
      BY <1>0, <1>14, <3>1 DEF WorkInv
    <3>3. PICK h : h = Number(first, v, Len(outq[v]) + 1)
      OBVIOUS
    <3>4. PICK z : z = begin[h] + wi[v]
      OBVIOUS
    <3>5. /\ begin[h] \in Int /\ begin[h + 1] \in Int /\ z \in Int /\ z < begin[h + 1]
          /\ begin[h + 1] <= d + 1
      BY <1>14, <3>1, <3>3, <3>4, WorkFacts
    <3> DEFINE f == begin[h]
               g == begin[h + 1]
               n == wi[v]
    <3>6. /\ f \in Int /\ g \in Int /\ z \in Int /\ z < g /\ z = f + n /\ m \in f .. f + n - 1
          /\ g <= d + 1 /\ m > c
      BY <1>14, <3>1, <3>3, <3>4, <3>5
    <3>7. Arrived <= c /\ c \in Int /\ d \in Int /\ Arrived \in Int /\ n \in Nat
      BY <1>7 DEF TypeInv
    <3>8. m \in Int /\ Arrived < m /\ m <= d
      <4> HIDE DEF f, g, n, c, d
      <4> QED
        BY <3>6, <3>7
    <3> HIDE DEF c, d
    <3> QED
      BY <1>9, <3>2, <3>8
  <2>2. CASE v = w /\ wi[w] + 1 # Head(inq[w]).size
    <3>1. outq'[w] = outq[w] /\ wi'[w] = wi[w] + 1
      BY <2>2, MakesQueues
    <3>2. /\ m \in x .. x + (k + 1) - 1 /\ x \in Int /\ k \in Nat /\ e = x + k /\ e <= d
          /\ c \in Int /\ d \in Int /\ m > c /\ Arrived <= c /\ Arrived \in Int
      BY <1>2, <1>7, <1>8, <1>11, <1>14, <2>2, <3>1
    <3>3. m \in Int /\ Arrived < m /\ m <= d /\ (m = e \/ m \in x .. x + k - 1)
      <4> HIDE DEF x, k, c, d
      <4> QED
        BY <3>2
    <3>4. CASE m = e
      <4> HIDE DEF c, d
      <4> QED
        BY <1>9, <3>3, <3>4
    <3>5. CASE m \in x .. x + k - 1
      <4>1. pebble[Slot(m)] = m
        BY <1>0, <1>1, <1>14, <3>5 DEF WorkInv
      <4> HIDE DEF c, d
      <4> QED
        BY <1>9, <3>3, <4>1
    <3> QED
      BY <3>3, <3>4, <3>5
  <2>3. CASE v = w /\ wi[w] + 1 = Head(inq[w]).size
    <3>1. wi'[w] = 0 /\ inq'[w] = Tail(inq[w]) /\ outq'[w] = Append(outq[w], Head(inq[w]))
      BY <2>3, MakesQueues
    <3>2. m \in b .. b + 0 - 1
      BY <1>14, <2>3, <3>1
    <3>3. b \in Int
      <4>1. outq'[w] \in Seq([start : Int, size : Nat]) /\ inq'[w] \in Seq([start : Int, size : Nat])
            /\ outq'[w] \o inq'[w] = Queue(w)
        <5>1. inq' \in [Workers -> Seq([start : Int, size : Nat])]
              /\ outq' \in [Workers -> Seq([start : Int, size : Nat])] /\ Queue(w)' = Queue(w)
          BY MakesQueues
        <5> QED
          BY <5>1 DEF Queue
      <4> DEFINE T == [start : Int, size : Nat]
                 s == outq'[w]
                 t == inq'[w]
      <4>2. s \in Seq(T) /\ t \in Seq(T) /\ t # << >> /\ Queue(w) = s \o t
        BY <1>14, <2>3, <4>1
      <4>3. Len(s) + 1 \in DOMAIN (s \o t)
        <5> HIDE DEF T, s, t
        <5> QED
          BY <4>2, JoinFacts
      <4>4. PICK i : i = Len(s) + 1
        OBVIOUS
      <4>5. i \in DOMAIN Queue(w)
        BY <4>2, <4>3, <4>4
      <4> QED
        BY <1>0, <1>14, <2>3, <4>4, <4>5, PlaceFacts
    <3> QED
      BY <3>2, <3>3
  <2> QED
    BY <2>1, <2>2, <2>3
<1>15. ASSUME NEW m \in Arrived' + 1 .. c'
       PROVE  pebble'[Slot(m)'] = m
  <2>1. m \in Arrived + 1 .. c
    BY <1>3
  <2>2. pebble[Slot(m)] = m
    BY <1>0, <2>1 DEF WorkInv
  <2>3. Arrived \in Int /\ c \in Int /\ d \in Int /\ c <= d
    BY <1>7
  <2> HIDE DEF c, d
  <2>4. m \in Int /\ Arrived < m /\ m <= d
    BY <2>1, <2>3
  <2> QED
    BY <1>9, <2>2, <2>4
<1>16. ci' # 0 => outq'[cworker] # << >>
  <2>1. ci' = ci /\ cworker \in Workers
    BY <1>1 DEF TypeInv
  <2>2. outq[cworker] # << >> => outq'[cworker] # << >>
    <3>1. CASE cworker # w
      BY <2>1, <3>1, MakesQueues
    <3>2. CASE cworker = w /\ outq'[w] = outq[w]
      BY <3>2
    <3>3. CASE cworker = w /\ outq'[w] = Append(outq[w], Head(inq[w]))
      <4>1. Head(inq[w]) \in [start : Int, size : Nat]
        BY <1>1, <1>10, HeadTailProperties
      <4> QED
        BY <1>10, <2>1, <3>3, <4>1, AppendNotEmpty
    <3> QED
      BY <3>1, <3>2, <3>3, MakesQueues
  <2> QED
    BY <1>0, <2>1, <2>2 DEF WorkInv
<1>17. WorkInv(first, begin)'
  <2>1. cworker' = cworker /\ c' = c
    BY <1>1, <1>3
  <2>2. \A v \in Workers : inq'[v] # << >> =>
          LET b == begin[Number(first, v, Len(outq'[v]) + 1)]
          IN \A m \in b .. b + wi'[v] - 1 : m > c' => pebble'[Slot(m)'] = m
    BY <1>14, <2>1
  <2>3. \A v \in Workers : \A i \in DOMAIN outq'[v] :
          \A m \in begin[Number(first, v, i)] .. begin[Number(first, v, i) + 1] - 1 :
            m > c' => pebble'[Slot(m)'] = m
    BY <1>13, <2>1
  <2> QED
    BY <1>12, <1>15, <1>16, <2>1, <2>2, <2>3, WorkNext
<1> QED
  BY <1>4, <1>5, <1>6, <1>17 DEF FlowInv

LEMMA WorkStepInv ==
  ASSUME Inv, NEW w \in Workers, Work(w)
  PROVE  Inv'
<1>1. TypeInv /\ PhaseInv /\ RingInv /\ CountInv /\ InputInv
  BY DEF Inv
<1>2. ~ended /\ w >= joined /\ inq[w] # << >>
  BY DEF Work
<1>3. spc # "done"
  <2>1. w < NumWorkers /\ w \in Nat /\ joined \in Nat /\ NumWorkers \in Nat
    BY <1>1, Sizes DEF Workers, TypeInv
  <2>2. joined # NumWorkers
    BY <1>2, <2>1
  <2> QED
    BY <1>1, <2>2 DEF PhaseInv
<1>4. PICK first, next, begin : FlowInv(first, next, begin)
  BY <1>2, <1>3 DEF Inv
<1>5. PICK j : j = Number(first, w, Len(outq[w]) + 1)
  OBVIOUS
<1>6. PICK e : e = begin[j] + wi[w]
  OBVIOUS
<1>7. Makes(w, e)
  BY <1>1, <1>4, <1>5, <1>6, WorkStep
<1>8. FlowInv(first, next, begin)'
  BY <1>1, <1>4, <1>5, <1>6, <1>7, MakesFlow
<1>9. /\ e \in Int /\ Slot(e) \in Slots /\ e > 0 /\ begin[j + 1] \in Int /\ e < begin[j + 1]
      /\ begin[j + 1] <= Whence(next, begin) + 1 /\ Collected(first, begin) < e
      /\ \A l \in Lanes : e <= sent[l]
  BY <1>1, <1>2, <1>4, <1>5, <1>6, WorkFacts
<1>10. /\ UNCHANGED <<kind, zero, from, sent, lost, buf, tr, trFree, trDown, dmaFree, last, batch,
                      rworker, rpc, cworker, ci, pend, lastIndex, delivered, cur, lane, held,
                      spc, joined, configs, ended>>
       /\ pebble' = [pebble EXCEPT ![Slot(e)] = e]
  BY <1>7 DEF Makes
<1>11. TypeInv'
  <2>1. pebble' \in [Slots -> Nat]
    <3>1. e \in Nat
      BY <1>9
    <3> QED
      BY <1>1, <1>9, <1>10, <3>1 DEF TypeInv
  <2>2. /\ inq' \in [Workers -> Seq([start : Int, size : Nat])]
        /\ outq' \in [Workers -> Seq([start : Int, size : Nat])]
        /\ wi' \in [Workers -> Nat]
    BY <1>1, <1>7, MakesQueues
  <2> QED
    BY <1>1, <1>10, <2>1, <2>2 DEF TypeInv
<1>12. PhaseInv'
  BY <1>1, <1>10 DEF PhaseInv
<1>13. /\ Arrived' = Arrived /\ Base' = Base /\ \A l \in Lanes : Released(l)' = Released(l)
       /\ \A m : Slot(m)' = Slot(m) /\ \A k : Begins(k)' <=> Begins(k)
       /\ Frames' = Frames /\ Ahead' = Ahead
  BY <1>10 DEF Arrived, Base, Released, Slot, Begins, Frames, Ahead
<1>14. RingInv' /\ CountInv'
  BY <1>1, <1>10, <1>13 DEF RingInv, CountInv
<1>15. InputInv'
  <2> SUFFICES ASSUME cur # None, Spare
               PROVE  pebble'[cur] = Arrived
    BY <1>2, <1>10, <1>13 DEF InputInv, Spare
  <2>1. cur = Slot(Arrived) /\ pebble[cur] = Arrived
    BY <1>1 DEF RingInv, InputInv
  <2>2. Slot(Arrived) # Slot(e)
    <3>1. PICK l \in Lanes : sent[l] < Arrived + NumBuffers
      BY <1>1, RingNotFull
    <3>2. e <= sent[l] /\ sent[l] \in Nat
      BY <1>1, <1>9 DEF TypeInv
    <3>3. Arrived \in Int /\ NumBuffers \in Nat \ {0}
      BY <1>1, Places, Sizes
    <3>4. Arrived < e
      <4>1. Arrived <= Collected(first, begin) /\ Collected(first, begin) \in Int
        BY <1>1, <1>4, OrderFacts DEF FlowInv
      <4> QED
        BY <1>9, <3>3, <4>1
    <3>5. e < Arrived + NumBuffers /\ Arrived < e + NumBuffers /\ e # Arrived
      BY <1>9, <3>1, <3>2, <3>3, <3>4
    <3> QED
      BY <1>1, <1>9, <3>3, <3>5, SlotApart
  <2>3. cur \in Slots
    BY <1>1, <1>10 DEF TypeInv
  <2> QED
    BY <1>1, <1>10, <2>1, <2>2, <2>3 DEF TypeInv
<1> QED
  BY <1>8, <1>11, <1>12, <1>14, <1>15 DEF Inv
-----------------------------------------------------------------------------
(***************************************************************************)
(* The collector                                                           *)
(***************************************************************************)

\* The batch that the collector is at.
LEMMA CollectBatch ==
  ASSUME TypeInv, RingInv, NEW first, NEW next, NEW begin, OrderInv(first, next, begin),
         QueueInv(first, next, begin), outq[cworker] # << >>
  PROVE  /\ 1 \in DOMAIN Queue(cworker) /\ Queue(cworker)[1] = Head(outq[cworker])
         /\ Number(first, cworker, 1) = first
         /\ first \in first .. next - 1 /\ first + 1 \in Nat /\ first \in Nat
         /\ begin[first] \in Int /\ begin[first + 1] \in Int /\ begin[first] < begin[first + 1]
         /\ begin[first + 1] <= Whence(next, begin) + 1
         /\ Head(outq[cworker]).size = begin[first + 1] - begin[first]
         /\ Same(Head(outq[cworker]).start, begin[first] - zero, NumBuffers)
         /\ Head(outq[cworker]) \in [start : Int, size : Nat]
<1> DEFINE w == cworker
           T == [start : Int, size : Nat]
           s == outq[w]
           t == inq[w]
<1>1. w \in Workers /\ first \in Nat /\ s \in Seq(T) /\ t \in Seq(T) /\ s # << >>
  BY QueueFacts DEF TypeInv, OrderInv
<1>2. (s \o t)[1] = Head(s) /\ Len(s \o t) > 0 /\ Len(s \o t) \in Nat /\ Head(s) \in T
      /\ DOMAIN (s \o t) = 1 .. Len(s \o t)
  <2> HIDE DEF s, t, T
  <2> QED
    BY <1>1, JoinTail, JoinFacts, HeadFirst
<1>3. 1 \in DOMAIN Queue(w) /\ Queue(w)[1] = Head(outq[w])
  <2> DEFINE n == Len(s \o t)
  <2>1. n \in Nat /\ n > 0
    BY <1>2
  <2>2. 1 \in 1 .. n
    <3> HIDE DEF n
    <3> QED
      BY <2>1
  <2> QED
    BY <1>2, <2>2 DEF Queue
<1>4. Number(first, w, 1) = first
  <2>1. Turn(w, cworker) = 0
    BY <1>1, NextTurn
  <2>2. Number(first, w, 1) = first + Turn(w, cworker)
    BY <1>1, NextNumber
  <2> QED
    BY <1>1, <2>1, <2>2
<1>5. PICK j : j = Number(first, w, 1)
  OBVIOUS
<1>6. j = first /\ Queue(w)[1].size = begin[j + 1] - begin[j]
      /\ Same(Queue(w)[1].start, begin[j] - zero, NumBuffers)
  BY <1>1, <1>3, <1>4, <1>5 DEF QueueInv
<1>7. j \in first .. next - 1 /\ begin[j] \in Int /\ begin[j + 1] \in Int /\ begin[j] < begin[j + 1]
  BY <1>1, <1>3, <1>5, PlaceFacts
<1>8. begin[j + 1] <= Whence(next, begin) + 1
  BY <1>1, <1>3, <1>5, BatchEnd
<1>9. first + 1 \in Nat
  BY <1>1
<1> QED
  BY <1>1, <1>2, <1>3, <1>4, <1>5, <1>6, <1>7, <1>8, <1>9

\* The event that the collector is at.
LEMMA CollectFacts ==
  ASSUME TypeInv, RingInv, NEW first, NEW next, NEW begin, FlowInv(first, next, begin),
         outq[cworker] # << >>, NEW e, e = begin[first] + ci
  PROVE  /\ e \in Int /\ e = Collected(first, begin) + 1 /\ e < begin[first + 1]
         /\ Arrived < e /\ e <= Whence(next, begin)
         /\ SlotOf(Head(outq[cworker]), ci) = Slot(e) /\ Slot(e) \in Slots
         /\ pebble[Slot(e)] = e /\ ~Empty(Slot(e))
<1>0. OrderInv(first, next, begin) /\ QueueInv(first, next, begin) /\ WorkInv(first, begin)
  BY DEF FlowInv
<1> DEFINE b == Head(outq[cworker])
           x == begin[first]
           y == begin[first + 1]
           c == Collected(first, begin)
           d == Whence(next, begin)
           z == b.start
<1>1. /\ 1 \in DOMAIN Queue(cworker) /\ Number(first, cworker, 1) = first
      /\ x \in Int /\ y \in Int /\ x < y /\ y <= d + 1
      /\ b \in [start : Int, size : Nat] /\ Same(z, x - zero, NumBuffers)
  BY <1>0, CollectBatch
<1>2. ci \in Nat /\ (ci = 0 \/ x + ci < y)
  BY <1>0 DEF OrderInv, TypeInv
<1>3. c = x + ci - 1 /\ c \in Int /\ d \in Int /\ Arrived <= c /\ Arrived \in Nat
  BY <1>0, OrderFacts, Places DEF Collected
<1>4. e \in Int /\ e = c + 1 /\ e < y /\ x <= e /\ Arrived < e /\ e <= d
  <2>1. e = x + ci
    OBVIOUS
  <2> HIDE DEF x, y, c, d
  <2> QED
    BY <1>1, <1>2, <1>3, <2>1
<1>5. SlotOf(b, ci) = Slot(e) /\ Slot(e) \in Slots
  <2>1. zero \in Int /\ NumBuffers \in Nat \ {0}
    BY Sizes DEF TypeInv
  <2>2. z \in Int /\ e = x + ci
    BY <1>1
  <2>3. SlotOf(b, ci) = (z + ci) % NumBuffers
    BY DEF SlotOf
  <2> HIDE DEF x, z
  <2>4. (z + ci) - (e - zero) = z - (x - zero) /\ z + ci \in Int /\ e - zero \in Int /\ x - zero \in Int
    BY <1>1, <1>2, <2>1, <2>2
  <2>5. Same(z + ci, e - zero, NumBuffers)
    BY <1>1, <2>1, <2>2, <2>4, ModShift
  <2> QED
    BY <1>4, <2>3, <2>5, SlotRange DEF Same, Slot
<1>6. pebble[Slot(e)] = e
  <2>1. 1 \in DOMAIN outq[cworker] /\ cworker \in Workers
    BY QueueFacts, HeadFirst DEF TypeInv
  <2>2. e \in x .. y - 1 /\ e > c
    <3> HIDE DEF x, y, c
    <3> QED
      BY <1>1, <1>3, <1>4
  <2> QED
    BY <1>0, <1>1, <2>1, <2>2 DEF WorkInv
<1>7. ~Empty(Slot(e))
  <2>1. PICK l \in Lanes : TRUE
    BY Sizes DEF Lanes
  <2> DEFINE q == sent[l]
             r == Released(l)
  <2>2. q \in Nat /\ r \in Nat /\ r <= Arrived /\ d <= q
    BY <1>0, OrderFacts, Places DEF TypeInv
  <2>3. e \in r + 1 .. q /\ e # 0
    <3> HIDE DEF q, r, d
    <3> QED
      BY <1>3, <1>4, <2>2
  <2>4. buf[Slot(e)][l] = e
    BY <2>3 DEF RingInv
  <2> QED
    BY <2>3, <2>4 DEF Empty
<1> QED
  BY <1>4, <1>5, <1>6, <1>7

\* Worker w, from which the collector takes event e.
Collects(e) ==
  LET w == cworker
      b == Head(outq[w])
      done == ci + 1 = b.size
  IN /\ outq[w] # << >> /\ ~ended /\ spc \notin {"contributor", "done"}
     /\ pend' = Append(pend, Slot(e))
     /\ ci' = IF done THEN 0 ELSE ci + 1
     /\ cworker' = IF done THEN (w + 1) % NumWorkers ELSE w
     /\ outq' = IF done THEN [outq EXCEPT ![w] = Tail(@)] ELSE outq
     /\ UNCHANGED <<kind, zero, from, sent, lost, buf, pebble, tr, trFree, trDown, dmaFree, last,
                    batch, rworker, rpc, inq, wi, lastIndex, delivered, cur, lane, held,
                    spc, joined, configs, ended>>

LEMMA CollectStep ==
  ASSUME TypeInv, RingInv, NEW first, NEW next, NEW begin, FlowInv(first, next, begin),
         NEW w \in Workers, Collect(w), NEW e, e = begin[first] + ci
  PROVE  Collects(e)
<1>1. w = cworker /\ outq[cworker] # << >>
  BY DEF Collect, CollectsFrom
<1>2. SlotOf(Head(outq[cworker]), ci) = Slot(e) /\ ~Empty(Slot(e))
  BY <1>1, CollectFacts
<1> QED
  BY <1>1, <1>2 DEF Collect, Collects, stream, pool, reader, receiver, control

\* The queue of the worker whose turn was goes to the end.
LEMMA Renumber ==
  ASSUME TypeInv, NEW first \in Nat, cworker' = (cworker + 1) % NumWorkers,
         NEW v \in Workers, NEW i \in Nat
  PROVE  Number(first + 1, v, i)' = (IF v = cworker THEN Number(first, v, i + 1)
                                     ELSE Number(first, v, i))
<1>1. cworker \in Workers /\ NumWorkers \in Nat \ {0}
  BY Sizes DEF TypeInv
<1>2. /\ Turn(v, cworker) \in Nat /\ (Turn(v, cworker) = 0 <=> v = cworker)
      /\ Turn(v, (cworker + 1) % NumWorkers) =
           (IF v = cworker THEN NumWorkers - 1 ELSE Turn(v, cworker) - 1)
  BY <1>1, NextTurn
<1>3. Number(first, v, i + 1) = Number(first, v, i) + NumWorkers
  BY NextNumber
<1>4. Turn(v, cworker)' = Turn(v, cworker')
  BY DEF Turn
<1> DEFINE t == Turn(v, cworker)
           t2 == Turn(v, cworker')
           k == NumWorkers * (i - 1)
<1>5. t \in Nat /\ (t = 0 <=> v = cworker) /\ t2 = (IF v = cworker THEN NumWorkers - 1 ELSE t - 1)
  BY <1>2
<1>6. k \in Int
  BY <1>1, SMT
<1>7. Number(first, v, i) = first + t + k /\ Number(first + 1, v, i)' = first + 1 + t2 + k
  BY DEF Number, Turn
<1> HIDE DEF t, t2, k
<1> QED
  BY <1>1, <1>3, <1>5, <1>6, <1>7
LEMMA CollectsOrder ==
  ASSUME TypeInv, RingInv, NEW first, NEW next, NEW begin, FlowInv(first, next, begin),
         NEW e, e = begin[first] + ci, Collects(e),
         NEW first2, first2 = IF ci + 1 = Head(outq[cworker]).size THEN first + 1 ELSE first
  PROVE  OrderInv(first2, next, begin)' /\ Collected(first2, begin)' = e /\ pend' \in Seq(Slots)
<1>0. OrderInv(first, next, begin) /\ QueueInv(first, next, begin) /\ outq[cworker] # << >>
  BY DEF FlowInv, Collects
<1> DEFINE x == begin[first]
           y == begin[first + 1]
           c == Collected(first, begin)
           d == Whence(next, begin)
           n == Len(pend)
           z == Head(outq[cworker]).size
<1>1. /\ x \in Int /\ y \in Int /\ x < y /\ z = y - x /\ first \in first .. next - 1
      /\ first \in Nat /\ first + 1 \in Nat
  BY <1>0, CollectBatch
<1>2. /\ next \in Nat /\ begin \in [Nat -> Int]
      /\ \A i, j \in first .. next : i < j => begin[i] < begin[j]
      /\ n = c - Arrived /\ \A i \in DOMAIN pend : pend[i] = Slot(Arrived + i)
      /\ \A l \in Lanes : d <= sent[l]
      /\ \E l \in Lanes : d = sent[l]
  BY <1>0 DEF OrderInv
<1>3. /\ e \in Int /\ e = c + 1 /\ e < y /\ Arrived < e /\ e <= d /\ Slot(e) \in Slots
  BY <1>0, CollectFacts
<1>4. /\ ci' = (IF ci + 1 = z THEN 0 ELSE ci + 1) /\ pend' = Append(pend, Slot(e))
      /\ UNCHANGED <<zero, from, sent, delivered, batch>>
  BY DEF Collects
<1>5. /\ Arrived' = Arrived /\ \A m : Slot(m)' = Slot(m) /\ Whence(next, begin)' = d
  BY <1>4 DEF Arrived, Slot, Whence
<1>6. ci \in Nat /\ Arrived \in Nat /\ pend \in Seq(Slots) /\ n \in Nat /\ c \in Int
  BY <1>0, Places, LenProperties, OrderFacts DEF TypeInv
<1>7. /\ first2 \in Nat /\ first2 <= next /\ first2 \in {first, first + 1}
      /\ \A i \in first2 .. next : i \in first .. next
  <2>1. first2 \in {first, first + 1} /\ first \in Nat /\ next \in Nat /\ first \in first .. next - 1
    BY <1>1, <1>2
  <2> QED
    BY <2>1
<1>8. begin[first2] + ci' - 1 = e
  <2>1. e = x + ci /\ (first2 = first \/ first2 = first + 1)
    BY <1>7
  <2>2. CASE ci + 1 = z
    <3>1. ci' = 0 /\ begin[first2] = y
      BY <1>4, <2>2
    <3>2. y + 0 - 1 = e
      <4> HIDE DEF x, y, z
      <4> QED
        BY <1>1, <1>6, <2>1, <2>2
    <3> QED
      BY <3>1, <3>2
  <2>3. CASE ci + 1 # z
    <3>1. ci' = ci + 1 /\ begin[first2] = x
      BY <1>4, <2>3
    <3>2. x + (ci + 1) - 1 = e
      <4> HIDE DEF x, y, z
      <4> QED
        BY <1>1, <1>6, <2>1
    <3> QED
      BY <3>1, <3>2
  <2> QED
    BY <2>2, <2>3
<1>9. ci' = 0 \/ (first2 < next /\ begin[first2] + ci' < begin[first2 + 1])
  <2> SUFFICES ASSUME ci + 1 # z
               PROVE  first2 < next /\ begin[first2] + ci' < begin[first2 + 1]
    BY <1>4
  <2>1. ci' = ci + 1 /\ first2 = first
    BY <1>4
  <2>2. first < next
    BY <1>1, <1>2
  <2>3. x + (ci + 1) < y
    <3>1. e = x + ci
      OBVIOUS
    <3> HIDE DEF x, y, z
    <3> QED
      BY <1>1, <1>3, <1>6, <3>1
  <2> QED
    BY <2>1, <2>2, <2>3
<1>10. /\ pend' \in Seq(Slots) /\ Len(pend') = n + 1
       /\ \A i \in DOMAIN pend' : pend'[i] = Slot(Arrived + i)
  <2>1. /\ pend' \in Seq(Slots) /\ Len(pend') = n + 1 /\ DOMAIN pend' = 1 .. n + 1
        /\ \A i \in 1 .. n : pend'[i] = pend[i]
        /\ pend'[n + 1] = Slot(e) /\ DOMAIN pend = 1 .. n
    BY <1>3, <1>4, <1>6, AppendProperties, LenProperties
  <2>2. Arrived + (n + 1) = e
    <3> HIDE DEF n, c
    <3> QED
      BY <1>2, <1>3, <1>6
  <2>3. ASSUME NEW i \in DOMAIN pend'
        PROVE  pend'[i] = Slot(Arrived + i)
    <3>1. i \in 1 .. n \/ i = n + 1
      <4>1. i \in 1 .. n + 1
        BY <2>1
      <4> HIDE DEF n
      <4> QED
        BY <1>6, <4>1
    <3> QED
      BY <1>2, <2>1, <2>2, <3>1
  <2> QED
    BY <2>1, <2>3
<1>11. n + 1 = e - Arrived /\ Arrived <= e
  <2>1. n = c - Arrived /\ e = c + 1 /\ Arrived < e /\ e \in Int /\ c \in Int /\ Arrived \in Nat
    BY <1>2, <1>3, <1>6
  <2> HIDE DEF n, c
  <2> QED
    BY <2>1
<1>12. Collected(first2, begin)' = e
  BY <1>8 DEF Collected
<1>13. \A i, j \in first2 .. next : i < j => begin[i] < begin[j]
  BY <1>2, <1>7
<1>14. Len(pend)' = Collected(first2, begin)' - Arrived' /\ Arrived' <= Collected(first2, begin)'
  BY <1>5, <1>10, <1>11, <1>12
<1>15. \A i \in DOMAIN pend' : pend'[i] = Slot(Arrived + i)'
  BY <1>5, <1>10
<1>16. OrderInv(first2, next, begin)'
  <2>1. /\ \A l \in Lanes : Whence(next, begin)' <= sent'[l]
        /\ \E l \in Lanes : Whence(next, begin)' = sent'[l]
    BY <1>2, <1>4, <1>5
  <2> HIDE DEF n, c, d, x, y, z
  <2> QED
    BY <1>2, <1>7, <1>9, <1>13, <1>14, <1>15, <2>1, <1>5 DEF OrderInv
<1> QED
  BY <1>10, <1>12, <1>16

\* The queues after a batch has been collected.
LEMMA CollectedQueues ==
  ASSUME TypeInv, NEW e, Collects(e), NEW w, w = cworker, ci + 1 = Head(outq[w]).size
  PROVE  /\ \A v \in Workers \ {w} : Queue(v)' = Queue(v) /\ outq'[v] = outq[v]
         /\ outq' \in [Workers -> Seq([start : Int, size : Nat])]
         /\ Len(Queue(w)') = Len(Queue(w)) - 1
         /\ \A i \in DOMAIN Queue(w)' : i + 1 \in DOMAIN Queue(w) /\ Queue(w)'[i] = Queue(w)[i + 1]
         /\ Len(outq'[w]) = Len(outq[w]) - 1
         /\ \A i \in DOMAIN outq'[w] : i + 1 \in DOMAIN outq[w] /\ outq'[w][i] = outq[w][i + 1]
<1> DEFINE T == [start : Int, size : Nat]
           s == outq[w]
           t == inq[w]
<1>1. /\ outq \in [Workers -> Seq(T)] /\ w \in Workers /\ outq' = [outq EXCEPT ![w] = Tail(@)]
      /\ inq' = inq /\ outq[w] # << >> /\ inq \in [Workers -> Seq(T)]
  BY DEF TypeInv, Collects
<1>2. s \in Seq(T) /\ t \in Seq(T) /\ s # << >>
  BY <1>1
<1>3. /\ Tail(s) \in Seq(T) /\ Len(Tail(s)) = Len(s) - 1
      /\ \A i \in 1 .. Len(s) - 1 : Tail(s)[i] = s[i + 1]
      /\ Len(Tail(s) \o t) = Len(s \o t) - 1
      /\ DOMAIN (Tail(s) \o t) = 1 .. Len(s \o t) - 1
      /\ \A i \in 1 .. Len(s \o t) - 1 : (Tail(s) \o t)[i] = (s \o t)[i + 1]
      /\ Len(s \o t) \in Nat /\ DOMAIN (s \o t) = 1 .. Len(s \o t)
      /\ Len(s) \in Nat /\ DOMAIN s = 1 .. Len(s)
      /\ DOMAIN Tail(s) = 1 .. Len(Tail(s))
  <2> HIDE DEF s, t, T
  <2> QED
    BY <1>2, JoinTail, JoinFacts, LenProperties
<1>4. \A v \in Workers \ {w} : Queue(v)' = Queue(v) /\ outq'[v] = outq[v]
  <2>1. \A v \in Workers \ {w} : outq'[v] = outq[v] /\ inq'[v] = inq[v]
    BY <1>1
  <2> QED
    BY <2>1 DEF Queue
<1>5. outq'[w] = Tail(s) /\ inq'[w] = t
  BY <1>1
<1>6. Queue(w)' = Tail(s) \o t /\ Queue(w) = s \o t
  BY <1>5 DEF Queue
<1>7. outq' \in [Workers -> Seq(T)]
  BY <1>1, <1>3
<1> HIDE DEF s, t, T
<1>8. ASSUME NEW m \in Nat, NEW i \in 1 .. m - 1
      PROVE  i + 1 \in 1 .. m
  OBVIOUS
<1>9. /\ Len(Queue(w)') = Len(Queue(w)) - 1
      /\ \A i \in DOMAIN Queue(w)' : i + 1 \in DOMAIN Queue(w) /\ Queue(w)'[i] = Queue(w)[i + 1]
  <2>1. PICK m \in Nat : m = Len(s \o t)
    BY <1>3
  <2> QED
    BY <1>3, <1>6, <1>8, <2>1
<1>10. /\ Len(outq'[w]) = Len(outq[w]) - 1
       /\ \A i \in DOMAIN outq'[w] : i + 1 \in DOMAIN outq[w] /\ outq'[w][i] = outq[w][i + 1]
  <2>1. PICK m \in Nat : m = Len(s)
    BY <1>3
  <2>2. outq[w] = s
    BY DEF s
  <2> QED
    BY <1>3, <1>5, <1>8, <2>1, <2>2
<1> QED
  BY <1>4, <1>7, <1>9, <1>10 DEF T

LEMMA CollectsQueue ==
  ASSUME TypeInv, RingInv, NEW first, NEW next, NEW begin, FlowInv(first, next, begin),
         NEW e, Collects(e), ci + 1 = Head(outq[cworker]).size
  PROVE  QueueInv(first + 1, next, begin)'
<1>0. OrderInv(first, next, begin) /\ QueueInv(first, next, begin)
  BY DEF FlowInv
<1>1. PICK w : w = cworker
  OBVIOUS
<1>2. /\ outq[w] # << >> /\ cworker' = (cworker + 1) % NumWorkers /\ rworker' = rworker
      /\ zero' = zero /\ w \in Workers
  BY <1>1 DEF Collects, TypeInv
<1>3. first \in Nat /\ next \in Nat
  BY <1>0 DEF OrderInv
<1>4. /\ \A v \in Workers \ {w} : Queue(v)' = Queue(v)
      /\ Len(Queue(w)') = Len(Queue(w)) - 1
      /\ \A i \in DOMAIN Queue(w)' : i + 1 \in DOMAIN Queue(w) /\ Queue(w)'[i] = Queue(w)[i + 1]
  BY <1>1, CollectedQueues
<1>5. \A v \in Workers : Len(Queue(v)) \in Nat /\ DOMAIN Queue(v) = 1 .. Len(Queue(v))
  BY QueueFacts
<1>6. Len(Queue(w)) > 0
  <2>1. 1 \in DOMAIN Queue(w)
    BY <1>0, <1>1, <1>2, CollectBatch
  <2> DEFINE n == Len(Queue(w))
  <2>2. n \in Nat /\ 1 \in 1 .. n
    BY <1>2, <1>5, <2>1
  <2>3. n > 0
    <3> HIDE DEF n
    <3> QED
      BY <2>2
  <2> QED
    BY <2>3
\* The number of batch i of v now is that of batch k before.
<1>7. ASSUME NEW v \in Workers, NEW i \in Nat, NEW k \in Nat, k = IF v = w THEN i + 1 ELSE i
      PROVE  Number(first + 1, v, i)' = Number(first, v, k)
  BY <1>1, <1>2, <1>3, <1>7, Renumber
<1>8. ASSUME NEW v \in Workers
      PROVE  (next + Turn(v, rworker) = Number(first + 1, v, Len(Queue(v)) + 1))'
  <2>1. next + Turn(v, rworker) = Number(first, v, Len(Queue(v)) + 1)
    BY <1>0 DEF QueueInv
  <2>2. Turn(v, rworker)' = Turn(v, rworker)
    BY <1>2 DEF Turn
  <2>3. PICK i : i = Len(Queue(v)') + 1
    OBVIOUS
  <2>4. i \in Nat /\ Len(Queue(v)) + 1 \in Nat
        /\ Len(Queue(v)) + 1 = (IF v = w THEN i + 1 ELSE i)
    <3> DEFINE n == Len(Queue(v))
               m == Len(Queue(v)')
    <3>1. /\ n \in Nat /\ i = m + 1 /\ (v = w => m = n - 1 /\ n > 0) /\ (v # w => m = n)
      BY <1>4, <1>5, <1>6, <2>3
    <3> HIDE DEF n, m
    <3>2. i \in Nat /\ n + 1 \in Nat /\ n + 1 = (IF v = w THEN i + 1 ELSE i)
      BY <3>1
    <3> QED
      BY <3>2 DEF n
  <2>5. Number(first + 1, v, i)' = Number(first, v, Len(Queue(v)) + 1)
    BY <1>7, <2>4
  <2>6. Number(first + 1, v, Len(Queue(v)) + 1)' = Number(first + 1, v, i)'
    BY <2>3 DEF Number, Turn
  <2> QED
    BY <2>1, <2>2, <2>5, <2>6
<1>9. ASSUME NEW v \in Workers, NEW i \in DOMAIN Queue(v)'
      PROVE  (LET j == Number(first + 1, v, i)
              IN /\ j \in first + 1 .. next - 1
                 /\ Queue(v)[i].size = begin[j + 1] - begin[j]
                 /\ Same(Queue(v)[i].start, begin[j] - zero, NumBuffers))'
  <2>1. PICK k : k = IF v = w THEN i + 1 ELSE i
    OBVIOUS
  <2>2. k \in DOMAIN Queue(v) /\ Queue(v)'[i] = Queue(v)[k]
    <3>1. CASE v = w
      BY <1>4, <1>9, <2>1, <3>1
    <3>2. CASE v # w
      <4>1. Queue(v)' = Queue(v)
        BY <1>4, <3>2
      <4> QED
        BY <1>9, <2>1, <3>2, <4>1
    <3> QED
      BY <3>1, <3>2
  <2>3. k \in Nat /\ k > 0
    <3>1. k \in 1 .. Len(Queue(v)) /\ Len(Queue(v)) \in Nat
      BY <1>5, <2>2
    <3> QED
      BY <3>1
  <2>4. i \in Nat /\ i > 0
    <3>1. CASE v = w
      <4>1. Queue(w)' = outq'[w] \o inq'[w]
        BY DEF Queue
      <4>2. outq'[w] \in Seq([start : Int, size : Nat]) /\ inq'[w] \in Seq([start : Int, size : Nat])
        <5>1. outq' \in [Workers -> Seq([start : Int, size : Nat])]
          BY <1>1, CollectedQueues
        <5>2. inq' = inq /\ inq \in [Workers -> Seq([start : Int, size : Nat])]
          BY DEF TypeInv, Collects
        <5> QED
          BY <1>2, <5>1, <5>2
      <4>3. DOMAIN Queue(w)' = 1 .. Len(Queue(w)') /\ Len(Queue(w)') \in Nat
        <5> DEFINE T == [start : Int, size : Nat]
                   p == outq'[w]
                   q == inq'[w]
        <5>1. p \in Seq(T) /\ q \in Seq(T) /\ Queue(w)' = p \o q
          BY <4>1, <4>2
        <5> HIDE DEF T, p, q
        <5> QED
          BY <5>1, JoinFacts
      <4> QED
        BY <1>9, <3>1, <4>3
    <3>2. CASE v # w
      BY <2>1, <2>3, <3>2
    <3> QED
      BY <3>1, <3>2
  <2>5. PICK j : j = Number(first, v, k)
    OBVIOUS
  <2>6. /\ j \in first .. next - 1 /\ Queue(v)[k].size = begin[j + 1] - begin[j]
        /\ Same(Queue(v)[k].start, begin[j] - zero, NumBuffers)
    BY <1>0, <2>2, <2>5 DEF QueueInv
  <2>7. Number(first + 1, v, i)' = j
    BY <1>7, <2>1, <2>3, <2>4, <2>5
  <2>8. j # first
    <3> DEFINE t == Turn(v, cworker)
               u == NumWorkers * (k - 1)
    <3>1. t \in Nat /\ (t = 0 <=> v = w)
      BY <1>1, <1>2, NextTurn
    <3>2. NumWorkers \in Nat \ {0} /\ k - 1 \in Nat /\ (v = w => k - 1 # 0)
      <4>1. v = w => k = i + 1
        BY <2>1
      <4> QED
        BY <2>3, <2>4, <4>1, Sizes
    <3>3. u \in Nat /\ (u = 0 => k - 1 = 0)
      BY <3>2, NatTimes, NatTimesZero
    <3>4. j = first + t + u
      BY <2>5 DEF Number
    <3> HIDE DEF t, u
    <3> QED
      BY <1>3, <3>1, <3>2, <3>3, <3>4
  <2>9. j \in first + 1 .. next - 1
    BY <1>3, <2>6, <2>8
  <2>10. /\ (Queue(v)[i])' = Queue(v)[k] /\ zero' = zero
    BY <1>2, <2>2
  <2> QED
    BY <2>6, <2>7, <2>9, <2>10 DEF Same
<1> QED
  BY <1>8, <1>9 DEF QueueInv

LEMMA CollectsWork ==
  ASSUME TypeInv, RingInv, NEW first, NEW next, NEW begin, FlowInv(first, next, begin),
         NEW e, e = begin[first] + ci, Collects(e),
         NEW first2, first2 = IF ci + 1 = Head(outq[cworker]).size THEN first + 1 ELSE first
  PROVE  WorkInv(first2, begin)'
<1>0. OrderInv(first, next, begin) /\ WorkInv(first, begin)
  BY DEF FlowInv
<1>1. PICK w : w = cworker
  OBVIOUS
<1>2. outq[cworker] # << >> /\ UNCHANGED <<zero, from, delivered, pebble, inq, wi>>
  BY DEF Collects
<1> DEFINE c == Collected(first, begin)
           c2 == Collected(first2, begin)'
<1>3. /\ e \in Int /\ e = c + 1 /\ pebble[Slot(e)] = e /\ c \in Int
  BY <1>0, <1>2, CollectFacts, OrderFacts
<1>4. c2 = e
  BY CollectsOrder
<1>5. first \in Nat /\ w \in Workers
  BY <1>0, <1>1 DEF OrderInv, TypeInv
<1>6. /\ Arrived' = Arrived /\ \A m : Slot(m)' = Slot(m)
  BY <1>2 DEF Arrived, Slot
<1> DEFINE done == ci + 1 = Head(outq[cworker]).size
<1>7. ASSUME NEW v \in Workers, NEW i \in Nat, NEW k \in Nat,
             k = IF done /\ v = w THEN i + 1 ELSE i
      PROVE  Number(first2, v, i)' = Number(first, v, k)
  <2>1. CASE done
    <3>1. first2 = first + 1 /\ cworker' = (cworker + 1) % NumWorkers
      BY <2>1 DEF Collects
    <3>2. Number(first + 1, v, i)' = (IF v = cworker THEN Number(first, v, i + 1)
                                      ELSE Number(first, v, i))
      BY <1>5, <3>1, Renumber
    <3> QED
      BY <1>1, <1>7, <2>1, <3>1, <3>2
  <2>2. CASE ~done
    <3>1. first2 = first /\ cworker' = cworker
      BY <2>2 DEF Collects
    <3> QED
      BY <1>7, <2>2, <3>1 DEF Number, Turn
  <2> QED
    BY <2>1, <2>2
<1>8. ASSUME NEW v \in Workers
      PROVE  /\ Len(outq[v]) \in Nat /\ DOMAIN outq[v] = 1 .. Len(outq[v])
             /\ Len(outq'[v]) \in Nat /\ DOMAIN outq'[v] = 1 .. Len(outq'[v])
             /\ Len(outq[v]) + 1 = (IF done /\ v = w THEN Len(outq'[v]) + 2 ELSE Len(outq'[v]) + 1)
             /\ \A i \in DOMAIN outq'[v] : (IF done /\ v = w THEN i + 1 ELSE i) \in DOMAIN outq[v]
  <2>1. Len(outq[v]) \in Nat /\ DOMAIN outq[v] = 1 .. Len(outq[v])
    BY QueueFacts
  <2>2. CASE done
    <3>1. /\ \A u \in Workers \ {w} : outq'[u] = outq[u]
          /\ outq' \in [Workers -> Seq([start : Int, size : Nat])]
          /\ Len(outq'[w]) = Len(outq[w]) - 1
          /\ \A i \in DOMAIN outq'[w] : i + 1 \in DOMAIN outq[w]
      BY <1>1, <2>2, CollectedQueues
    <3>2. Len(outq'[v]) \in Nat /\ DOMAIN outq'[v] = 1 .. Len(outq'[v])
      BY <3>1, LenProperties
    <3> DEFINE n == Len(outq[v])
               m == Len(outq'[v])
    <3>3. n \in Nat /\ m \in Nat /\ (v = w => m = n - 1) /\ (v # w => m = n)
      BY <2>1, <3>1, <3>2
    <3>4. n + 1 = (IF done /\ v = w THEN m + 2 ELSE m + 1)
      <4> HIDE DEF n, m
      <4>1. v = w => n + 1 = m + 2
        BY <3>3
      <4>2. v # w => n + 1 = m + 1
        BY <3>3
      <4> QED
        BY <2>2, <4>1, <4>2
    <3>5. \A i \in DOMAIN outq'[v] : (IF done /\ v = w THEN i + 1 ELSE i) \in DOMAIN outq[v]
      BY <2>2, <3>1
    <3> QED
      BY <2>1, <3>2, <3>4, <3>5
  <2>3. CASE ~done
    <3>1. outq' = outq
      BY <2>3 DEF Collects
    <3> QED
      BY <2>1, <2>3, <3>1
  <2> QED
    BY <2>2, <2>3
<1>9. ci' # 0 => outq'[cworker'] # << >>
  BY <1>2 DEF Collects
<1>10. \A v \in Workers : IF inq'[v] = << >> THEN wi'[v] = 0 ELSE wi'[v] < Head(inq'[v]).size
  BY <1>0, <1>2 DEF WorkInv
<1>11. ASSUME NEW v \in Workers, NEW i \in DOMAIN outq'[v],
              NEW m \in begin[Number(first2, v, i)'] .. begin[Number(first2, v, i)' + 1] - 1, m > c2
       PROVE  pebble'[Slot(m)'] = m
  <2>1. PICK k : k = IF done /\ v = w THEN i + 1 ELSE i
    OBVIOUS
  <2>2. k \in DOMAIN outq[v] /\ i \in Nat /\ k \in Nat
    BY <1>8, <1>11, <2>1
  <2>3. Number(first2, v, i)' = Number(first, v, k)
    BY <1>7, <2>1, <2>2
  <2>4. m \in begin[Number(first, v, k)] .. begin[Number(first, v, k) + 1] - 1
    BY <1>11, <2>3
  <2>5. m > c
    <3>1. m \in Int
      BY <2>4
    <3>2. m > e
      BY <1>4, <1>11
    <3> HIDE DEF c
    <3> QED
      BY <1>3, <3>1, <3>2
  <2>6. pebble[Slot(m)] = m
    BY <1>0, <2>2, <2>4, <2>5 DEF WorkInv
  <2> QED
    BY <1>2, <1>6, <2>6
<1>12. ASSUME NEW v \in Workers, inq'[v] # << >>,
              NEW b, b = begin[Number(first2, v, Len(outq[v]) + 1)'],
              NEW m \in b .. b + wi'[v] - 1, m > c2
       PROVE  pebble'[Slot(m)'] = m
  <2>1. PICK i : i = Len(outq'[v]) + 1
    OBVIOUS
  <2>2. PICK k : k = Len(outq[v]) + 1
    OBVIOUS
  <2>3. i \in Nat /\ k \in Nat /\ k = (IF done /\ v = w THEN i + 1 ELSE i)
    <3> DEFINE p == Len(outq[v])
               q == Len(outq'[v])
    <3>1. p \in Nat /\ q \in Nat /\ p + 1 = (IF done /\ v = w THEN q + 2 ELSE q + 1)
          /\ i = q + 1 /\ k = p + 1
      BY <1>8, <2>1, <2>2
    <3> HIDE DEF p, q, done
    <3> QED
      BY <3>1
  <2>4. Number(first2, v, i)' = Number(first, v, k)
    BY <1>7, <2>3
  <2>5. Number(first2, v, Len(outq[v]) + 1)' = Number(first2, v, i)'
    BY <2>1 DEF Number, Turn
  <2>6. b = begin[Number(first, v, Len(outq[v]) + 1)]
    BY <1>12, <2>2, <2>4, <2>5
  <2>7. m \in b .. b + wi[v] - 1 /\ inq[v] # << >>
    BY <1>2, <1>12
  <2>8. m > c
    <3>1. m \in Int
      BY <2>7
    <3>2. m > e
      BY <1>4, <1>12
    <3> HIDE DEF c
    <3> QED
      BY <1>3, <3>1, <3>2
  <2>9. pebble[Slot(m)] = m
    BY <1>0, <2>6, <2>7, <2>8 DEF WorkInv
  <2> QED
    BY <1>2, <1>6, <2>9
<1>13. ASSUME NEW m \in Arrived' + 1 .. c2
       PROVE  pebble'[Slot(m)'] = m
  <2>1. m \in Arrived + 1 .. c \/ m = e
    <3>1. m \in Arrived + 1 .. e /\ Arrived \in Int
      BY <1>4, <1>6, Places
    <3> HIDE DEF c, c2
    <3> QED
      BY <1>3, <3>1
  <2>2. pebble[Slot(m)] = m
    BY <1>0, <1>3, <2>1 DEF WorkInv
  <2> QED
    BY <1>2, <1>6, <2>2
<1>14. (\A v \in Workers : \A i \in DOMAIN outq[v] :
         \A m \in begin[Number(first2, v, i)] .. begin[Number(first2, v, i) + 1] - 1 :
           m > Collected(first2, begin) => pebble[Slot(m)] = m)'
  BY <1>11
<1>15. (\A v \in Workers : inq[v] # << >> =>
          LET b == begin[Number(first2, v, Len(outq[v]) + 1)]
          IN \A m \in b .. b + wi[v] - 1 :
               m > Collected(first2, begin) => pebble[Slot(m)] = m)'
  BY <1>12
<1>16. (\A m \in Arrived + 1 .. Collected(first2, begin) : pebble[Slot(m)] = m)'
  BY <1>13
<1> QED
  BY <1>9, <1>10, <1>14, <1>15, <1>16 DEF WorkInv

LEMMA CollectFlow ==
  ASSUME TypeInv, RingInv, NEW first, NEW next, NEW begin, FlowInv(first, next, begin),
         NEW e, e = begin[first] + ci, Collects(e),
         NEW first2, first2 = IF ci + 1 = Head(outq[cworker]).size THEN first + 1 ELSE first
  PROVE  FlowInv(first2, next, begin)'
<1>0. OrderInv(first, next, begin) /\ QueueInv(first, next, begin) /\ ReaderInv(next, begin)
  BY DEF FlowInv
<1>1. OrderInv(first2, next, begin)' /\ WorkInv(first2, begin)'
  BY CollectsOrder, CollectsWork
<1>2. UNCHANGED <<kind, zero, from, sent, tr, trDown, last, batch, rworker, rpc, inq, lastIndex,
                  delivered>>
  BY DEF Collects
<1>3. ReaderInv(next, begin)'
  <2>1. /\ Arrived' = Arrived /\ \A m : Slot(m)' = Slot(m) /\ \A k : Begins(k)' <=> Begins(k)
        /\ Whence(next, begin)' = Whence(next, begin)
    BY <1>2 DEF Arrived, Slot, Begins, Whence
  <2> QED
    BY <1>0, <1>2, <2>1 DEF ReaderInv, Same
<1>4. QueueInv(first2, next, begin)'
  <2>1. CASE ci + 1 = Head(outq[cworker]).size
    <3>1. first2 = first + 1
      BY <2>1
    <3>2. QueueInv(first + 1, next, begin)'
      BY <2>1, CollectsQueue
    <3> QED
      BY <3>1, <3>2
  <2>2. CASE ci + 1 # Head(outq[cworker]).size
    <3>1. first2 = first /\ cworker' = cworker /\ outq' = outq
      BY <2>2 DEF Collects
    <3>2. QueueInv(first, next, begin)'
      BY <1>0, <1>2, <3>1, ZenonT(30) DEF QueueInv, Queue, Number, Turn, Same
    <3> QED
      BY <3>1, <3>2
  <2> QED
    BY <2>1, <2>2
<1> QED
  BY <1>1, <1>3, <1>4 DEF FlowInv

LEMMA CollectInv ==
  ASSUME Inv, NEW w \in Workers, Collect(w)
  PROVE  Inv'
<1>1. TypeInv /\ PhaseInv /\ RingInv /\ CountInv /\ InputInv
  BY DEF Inv
<1>2. ~ended /\ spc # "done"
  BY DEF Collect
<1>3. PICK first, next, begin : FlowInv(first, next, begin)
  BY <1>2 DEF Inv
<1>4. PICK e : e = begin[first] + ci
  OBVIOUS
<1>5. Collects(e)
  BY <1>1, <1>3, <1>4, CollectStep
<1>6. PICK first2 : first2 = IF ci + 1 = Head(outq[cworker]).size THEN first + 1 ELSE first
  OBVIOUS
<1>7. FlowInv(first2, next, begin)' /\ pend' \in Seq(Slots)
  BY <1>1, <1>3, <1>4, <1>5, <1>6, CollectFlow, CollectsOrder
<1>8. UNCHANGED <<kind, zero, from, sent, lost, buf, pebble, tr, trFree, trDown, dmaFree, last,
                  batch, rworker, rpc, inq, wi, lastIndex, delivered, cur, lane, held,
                  spc, joined, configs, ended>>
  BY <1>5 DEF Collects
<1>9. TypeInv'
  <2>1. cworker' \in Workers
    BY <1>1, <1>5, NextWorker DEF TypeInv, Collects
  <2>2. ci' \in Nat
    <3>1. ci \in Nat /\ ci + 1 \in Nat
      BY <1>1 DEF TypeInv
    <3> QED
      BY <1>5, <3>1 DEF Collects
  <2>3. outq' \in [Workers -> Seq([start : Int, size : Nat])]
    <3>1. PICK v : v = cworker
      OBVIOUS
    <3>2. CASE ci + 1 = Head(outq[v]).size
      BY <1>1, <1>5, <3>1, <3>2, CollectedQueues
    <3>3. CASE ci + 1 # Head(outq[v]).size
      <4>1. outq' = outq
        BY <1>5, <3>1, <3>3 DEF Collects
      <4> QED
        BY <1>1, <4>1 DEF TypeInv
    <3> QED
      BY <3>2, <3>3
  <2> QED
    BY <1>1, <1>7, <1>8, <2>1, <2>2, <2>3 DEF TypeInv
<1>10. PhaseInv'
  BY <1>1, <1>2, <1>8 DEF PhaseInv
<1>11. /\ Arrived' = Arrived /\ Base' = Base /\ \A l \in Lanes : Released(l)' = Released(l)
       /\ \A m : Slot(m)' = Slot(m) /\ \A k : Begins(k)' <=> Begins(k)
       /\ Frames' = Frames /\ Ahead' = Ahead
  BY <1>8 DEF Arrived, Base, Released, Slot, Begins, Frames, Ahead
<1>12. RingInv' /\ CountInv'
  BY <1>1, <1>8, <1>11 DEF RingInv, CountInv
<1>13. InputInv'
  BY <1>1, <1>2, <1>8, <1>11 DEF InputInv, Spare
<1> QED
  BY <1>7, <1>9, <1>10, <1>12, <1>13 DEF Inv
-----------------------------------------------------------------------------
(***************************************************************************)
(* The next configuration, and the first                                   *)
(***************************************************************************)

\* Everything is new, event n was the last one.
Fresh(n) ==
  /\ zero \in Int /\ from = n + 1 /\ sent = [l \in Lanes |-> n]
  /\ \A s \in Slots, l \in Lanes : buf[s][l] = 0
  /\ tr \in [Slots -> Nat] /\ \A s \in Slots : tr[s] <= n
  /\ last = n - zero /\ batch = [start |-> last + 1, size |-> 0]
  /\ rworker = 0 /\ cworker = 0 /\ ci = 0 /\ rpc = <<"read">> /\ pend = << >>
  /\ inq = [w \in Workers |-> << >>] /\ outq = [w \in Workers |-> << >>]
  /\ wi = [w \in Workers |-> 0]
  /\ lastIndex = last % NumBuffers /\ delivered = << >> /\ cur = None

LEMMA FreshRing ==
  \A n \in Nat : Fresh(n) => RingInv /\ Arrived = n
<1> SUFFICES ASSUME NEW n \in Nat, Fresh(n)
             PROVE  RingInv /\ Arrived = n
  OBVIOUS
<1>1. Len(delivered) = 0 /\ DOMAIN delivered = {} /\ from = n + 1
  BY DEF Fresh
<1>2. Arrived = n
  BY <1>1 DEF Arrived
<1>3. cur = None /\ NumBuffers \in Nat \ {0}
  BY Sizes DEF Fresh
<1>4. Base = n /\ \A l \in Lanes : Released(l) = n /\ sent[l] = n
  BY <1>2, <1>3 DEF Base, Released, Fresh
<1>5. n + 1 .. n = {} /\ n <= n /\ n <= n + NumBuffers
  BY <1>3
<1>6. \A s \in Slots : tr[s] \in Nat /\ tr[s] <= n
  BY DEF Fresh
<1>7. \A s \in Slots : ~(tr[s] > n)
  BY <1>6
<1>8. \A s \in Slots, l \in Lanes : buf[s][l] = 0
  BY DEF Fresh
<1> QED
  BY <1>1, <1>2, <1>3, <1>4, <1>5, <1>7, <1>8 DEF RingInv

LEMMA FreshFlow ==
  \A n \in Nat : Fresh(n) => FlowInv(0, 0, [i \in Nat |-> n + 1])
<1> SUFFICES ASSUME NEW n \in Nat, Fresh(n)
             PROVE  FlowInv(0, 0, [i \in Nat |-> n + 1])
  OBVIOUS
<1>1. PICK begin \in [Nat -> Int] : begin = [i \in Nat |-> n + 1]
  <2>1. n + 1 \in Int
    OBVIOUS
  <2>2. [i \in Nat |-> n + 1] \in [Nat -> Int]
    BY <2>1
  <2> QED
    BY <2>2
<1>2. begin[0] = n + 1
  BY <1>1
<1>3. Arrived = n
  BY FreshRing
<1>4. ci = 0 /\ batch.size = 0 /\ batch.start = last + 1 /\ last = n - zero /\ zero \in Int
      /\ cworker = 0 /\ rworker = 0
  BY DEF Fresh
<1>5. Collected(0, begin) = n /\ Whence(0, begin) = n
  <2>1. n + 1 + 0 - 1 = n
    OBVIOUS
  <2> QED
    BY <1>2, <1>4, <2>1 DEF Collected, Whence
<1>6. OrderInv(0, 0, begin)
  <2>1. Len(pend) = n - n /\ DOMAIN pend = {}
    BY DEF Fresh
  <2>2. \A l \in Lanes : n <= sent[l] /\ n = sent[l]
    BY DEF Fresh
  <2>3. PICK l \in Lanes : TRUE
    BY Sizes DEF Lanes
  <2>4. \A i, j \in 0 .. 0 : ~(i < j)
    <3>1. 0 .. 0 = {0}
      OBVIOUS
    <3> QED
      BY <3>1
  <2> QED
    BY <1>1, <1>3, <1>4, <1>5, <2>1, <2>2, <2>3, <2>4 DEF OrderInv
<1>7. \A w \in Workers : inq[w] = << >> /\ outq[w] = << >> /\ wi[w] = 0
  BY DEF Fresh
<1>8. QueueInv(0, 0, begin)
  <2> SUFFICES ASSUME NEW w \in Workers
               PROVE  /\ 0 + Turn(w, rworker) = Number(0, w, Len(Queue(w)) + 1)
                      /\ DOMAIN Queue(w) = {}
    BY DEF QueueInv
  <2>1. Queue(w) = << >>
    BY <1>7 DEF Queue
  <2>2. Len(Queue(w)) = 0 /\ DOMAIN Queue(w) = {}
    BY <2>1
  <2>3. Turn(w, 0) \in Int
    BY Sizes DEF Turn, Workers
  <2>4. NumWorkers * 0 = 0
    BY Sizes, SMT
  <2>5. 0 + 1 - 1 = 0
    OBVIOUS
  <2>6. Number(0, w, 0 + 1) = 0 + Turn(w, 0) + 0
    BY <1>4, <2>4, <2>5 DEF Number
  <2> QED
    BY <1>4, <2>2, <2>3, <2>6
<1>9. WorkInv(0, begin)
  <2>1. n + 1 .. n = {}
    OBVIOUS
  <2>2. \A w \in Workers : DOMAIN outq[w] = {}
    BY <1>7
  <2> QED
    BY <1>3, <1>4, <1>5, <1>7, <2>1, <2>2 DEF WorkInv
<1>10. ReaderInv(0, begin)
  <2>1. n + 1 .. n = {} /\ \A l \in Lanes : sent[l] = n
    BY DEF Fresh
  <2>2. last + 1 = n + 1 - zero
    BY <1>4
  <2>3. rpc[1] # "alloc"
    BY DEF Fresh
  <2>4. lastIndex = Slot(n)
    BY <1>4 DEF Fresh, Slot
  <2> QED
    BY <1>2, <1>3, <1>4, <1>5, <2>1, <2>2, <2>3, <2>4 DEF ReaderInv, Same
<1> QED
  BY <1>1, <1>6, <1>8, <1>9, <1>10 DEF FlowInv

\* As a formula of its own, which holds in the next state as well.
Begun == \A n \in Nat : Fresh(n) => /\ RingInv /\ Arrived = n
                                    /\ FlowInv(0, 0, [i \in Nat |-> n + 1])

LEMMA BegunHolds == Begun
  BY FreshRing, FreshFlow DEF Begun

LEMMA InitInv ==
  Init => Inv
<1> SUFFICES ASSUME Init
             PROVE  Inv
  OBVIOUS
<1>1. last \in Int /\ zero \in Int /\ last = 0 - zero
  <2>1. last \in 0 .. CntMod - 1 /\ zero = 0 - last /\ CntMod \in Nat
    BY ReadoutAssumption, Sizes DEF Init
  <2> QED
    BY <2>1
<1>2. Fresh(0)
  <2>1. tr \in [Slots -> Nat] /\ \A s \in Slots : tr[s] <= 0
    BY DEF Init
  <2>2. from = 0 + 1
    BY DEF Init
  <2> QED
    BY <1>1, <2>1, <2>2 DEF Init, Fresh
<1>3. RingInv /\ Arrived = 0 /\ FlowInv(0, 0, [i \in Nat |-> 0 + 1])
  BY <1>2, FreshRing, FreshFlow
<1>4. Frames = {} /\ Ahead = {}
  <2>1. \A s \in Slots : ~(tr[s] > 0)
    BY DEF Init
  <2>2. \A s \in Slots, l \in Lanes : buf[s][l] = 0
    BY DEF Init
  <2>3. \A f \in Slots \X Lanes : f[1] \in Slots /\ f[2] \in Lanes
    OBVIOUS
  <2> QED
    BY <1>3, <2>1, <2>2, <2>3 DEF Frames, Ahead
<1>5. CountInv
  BY <1>4, FS_EmptySet, Sizes DEF CountInv, Init
<1>6. TypeInv
  <2>1. 0 \in Workers /\ 0 \in Lanes /\ 0 \in 0 .. NumLanes /\ 0 \in 0 .. RetSize - 1
        /\ DmaCount \in Nat /\ TrBuffers \in Nat
    BY Sizes DEF Workers, Lanes
  <2>2. last % NumBuffers \in Slots
    BY <1>1, Sizes, ModFacts DEF Slots
  <2>3. /\ inq \in [Workers -> Seq([start : Int, size : Nat])]
        /\ outq \in [Workers -> Seq([start : Int, size : Nat])]
        /\ wi \in [Workers -> Nat] /\ batch \in [start : Int, size : Nat]
        /\ pend \in Seq(Slots) /\ delivered \in Seq(Nat)
    BY <1>1 DEF Init
  <2>4. /\ sent \in [Lanes -> Nat] /\ \A l \in Lanes : sent[l] <= MaxEvents
        /\ buf \in [Slots -> [Lanes -> Nat]] /\ pebble \in [Slots -> Nat] /\ tr \in [Slots -> Nat]
    BY Sizes DEF Init
  <2> QED
    BY <1>1, <2>1, <2>2, <2>3, <2>4 DEF TypeInv, Init
<1>7. PhaseInv /\ InputInv
  BY DEF PhaseInv, InputInv, Init
<1> QED
  BY <1>3, <1>5, <1>6, <1>7 DEF Inv

\* All is quiet: the events are those that have come through.
LEMMA QuietFacts ==
  ASSUME TypeInv, RingInv, Quiet, NEW n, n = Arrived
  PROVE  /\ n \in Nat /\ \A l \in Lanes : sent[l] = n
         /\ \A s \in Slots : tr[s] <= n
         /\ Max(Range([l \in 1 .. NumLanes |-> sent[l - 1]])) = n
<1>1. cur = None /\ \A s \in Slots, l \in Lanes : buf[s][l] = 0
  BY DEF Quiet, Empty
<1>2. n \in Nat /\ \A l \in Lanes : Released(l) = n /\ sent[l] \in Nat /\ n <= sent[l]
  BY <1>1, Places DEF Released, TypeInv, RingInv
<1>3. ASSUME NEW l \in Lanes
      PROVE  sent[l] = n
  <2> SUFFICES ASSUME sent[l] # n
               PROVE  FALSE
    OBVIOUS
  <2>1. n + 1 \in Released(l) + 1 .. sent[l] /\ n + 1 # 0 /\ n + 1 \in Int
    <3> DEFINE q == sent[l]
    <3>1. q \in Nat /\ n <= q /\ q # n /\ Released(l) = n
      BY <1>2
    <3>2. n + 1 \in n + 1 .. q
      <4> HIDE DEF q
      <4> QED
        BY <1>2, <3>1
    <3> QED
      BY <1>2, <3>1, <3>2
  <2>2. buf[Slot(n + 1)][l] = n + 1
    BY <2>1 DEF RingInv
  <2>3. Slot(n + 1) \in Slots
    BY <2>1, SlotRange
  <2> QED
    BY <1>1, <2>1, <2>2, <2>3
<1>4. ASSUME NEW s \in Slots
      PROVE  tr[s] <= n
  <2>1. PICK l \in Lanes : TRUE
    BY Sizes DEF Lanes
  <2>2. tr[s] \in Nat /\ sent[l] = n
    BY <1>3 DEF TypeInv
  <2>3. tr[s] > n => tr[s] <= sent[l]
    BY DEF RingInv
  <2> QED
    BY <1>2, <2>2, <2>3
<1>5. Range([l \in 1 .. NumLanes |-> sent[l - 1]]) = {n}
  <2>1. \A l \in 1 .. NumLanes : l - 1 \in Lanes
    BY Sizes DEF Lanes
  <2>2. 1 \in 1 .. NumLanes
    BY Sizes
  <2> DEFINE f == [l \in 1 .. NumLanes |-> sent[l - 1]]
  <2>3. DOMAIN f = 1 .. NumLanes /\ \A l \in 1 .. NumLanes : f[l] = n
    BY <1>3, <2>1
  <2>4. Range(f) = {f[x] : x \in DOMAIN f}
    BY DEF Range
  <2> HIDE DEF f
  <2>5. Range(f) = {n}
    BY <2>2, <2>3, <2>4
  <2> QED
    BY <2>5 DEF f
<1>6. Max({n}) = n
  <2>1. n \in {n} /\ \A y \in {n} : n >= y
    BY <1>2
  <2> QED
    BY <2>1 DEF Max
<1> QED
  BY <1>2, <1>3, <1>4, <1>5, <1>6

LEMMA ConfigureInv ==
  ASSUME Inv, "again" \notin Faults, Configure
  PROVE  Inv'
<1>1. TypeInv /\ PhaseInv /\ RingInv /\ CountInv /\ InputInv
  BY DEF Inv
<1>2. PICK n : n = Arrived
  OBVIOUS
<1>3. ~ended /\ spc = "done" /\ Quiet
  BY DEF Configure
<1>4. /\ n \in Nat /\ \A l \in Lanes : sent[l] = n
      /\ \A s \in Slots : tr[s] <= n
      /\ Max(Range([l \in 1 .. NumLanes |-> sent[l - 1]])) = n
  BY <1>1, <1>2, <1>3, QuietFacts
<1>5. /\ configs' = configs + 1 /\ spc' = "run" /\ joined' = 0
      /\ sent' = [l \in Lanes |-> n] /\ zero' = n /\ from' = n + 1
      /\ last' = 0 /\ batch' = [start |-> 1, size |-> 0] /\ batchId' = 0
      /\ rworker' = 0 /\ rpc' = <<"read">>
      /\ inq' = [w \in Workers |-> << >>] /\ outq' = [w \in Workers |-> << >>]
      /\ wi' = [w \in Workers |-> 0] /\ cworker' = 0 /\ ci' = 0
      /\ lastIndex' = 0 /\ delivered' = << >> /\ n < MaxEvents
  BY <1>4 DEF Configure
<1>6. UNCHANGED <<kind, lost, buf, pebble, tr, trFree, trDown, dmaFree, pend, cur, lane, held, ended>>
  BY DEF Configure, pool
<1>7. cur = None /\ pend = << >> /\ \A s \in Slots, l \in Lanes : buf[s][l] = 0
  BY <1>1, <1>3 DEF PhaseInv, Quiet, Empty
<1>8. Fresh(n)'
  <2>1. tr' \in [Slots -> Nat] /\ \A s \in Slots : tr'[s] <= n
    BY <1>1, <1>4, <1>6 DEF TypeInv
  <2>2. last' = n - zero' /\ batch' = [start |-> last' + 1, size |-> 0] /\ zero' \in Int
    BY <1>4, <1>5
  <2>3. 0 % NumBuffers = 0
    <3>1. NumBuffers \in Nat \ {0} /\ 0 \in 0 .. NumBuffers - 1
      BY Sizes
    <3> QED
      BY <3>1, ModSmall
  <2>4. \A s \in Slots, l \in Lanes : buf'[s][l] = 0
    BY <1>6, <1>7
  <2> QED
    BY <1>5, <1>6, <1>7, <2>1, <2>2, <2>3, <2>4 DEF Fresh
<1>9. Begun'
  BY BegunHolds, PTL
<1>10. RingInv' /\ Arrived' = n /\ FlowInv(0, 0, [i \in Nat |-> n + 1])'
  BY <1>4, <1>8, <1>9 DEF Begun
<1>11. CountInv'
  <2>1. Frames' = Frames
    BY <1>6 DEF Frames
  <2>2. Ahead' = Ahead
    BY <1>2, <1>6, <1>10 DEF Ahead
  <2> QED
    BY <1>1, <1>6, <2>1, <2>2 DEF CountInv
<1>12. TypeInv'
  <2>1. 0 \in Workers /\ 0 \in Slots
    BY Sizes DEF Workers, Slots
  <2>2. /\ inq' \in [Workers -> Seq([start : Int, size : Nat])]
        /\ outq' \in [Workers -> Seq([start : Int, size : Nat])]
        /\ wi' \in [Workers -> Nat] /\ batch' \in [start : Int, size : Nat]
        /\ delivered' \in Seq(Nat) /\ last' \in Int /\ zero' \in Int
    BY <1>4, <1>5
  <2>3. /\ sent' \in [Lanes -> Nat] /\ (\A l \in Lanes : sent'[l] <= MaxEvents)
        /\ from' \in Nat \ {0}
    <3>1. n <= MaxEvents
      BY <1>4, <1>5, Sizes
    <3> QED
      BY <1>4, <1>5, <3>1
  <2>4. configs' \in Nat \ {0}
    BY <1>1, <1>5 DEF TypeInv
  <2> QED
    BY <1>1, <1>5, <1>6, <2>1, <2>2, <2>3, <2>4 DEF TypeInv
<1>13. PhaseInv'
  <2>1. configs' # 1
    <3>1. configs \in Nat \ {0}
      BY <1>1 DEF TypeInv
    <3> QED
      BY <1>5, <3>1
  <2> QED
    BY <1>3, <1>5, <1>6, <2>1 DEF PhaseInv
<1>14. InputInv'
  BY <1>3, <1>6, <1>7 DEF InputInv
<1> QED
  BY <1>3, <1>10, <1>11, <1>12, <1>13, <1>14 DEF Inv
-----------------------------------------------------------------------------
(***************************************************************************)
(* The theorems                                                            *)
(***************************************************************************)

LEMMA NextInv ==
  ASSUME Inv, lost = 0, "again" \notin Faults, [Next]_vars, lost' = 0
  PROVE  Inv'
<1>1. ASSUME NEW l \in Lanes, Read(l)
      PROVE  Inv'
  BY <1>1, ReadInv
<1>2. ASSUME NEW l \in Lanes, Lose(l)
      PROVE  FALSE
  BY <1>2 DEF Lose
<1>3. CASE AllocateTr
  BY <1>3, AllocInv
<1>4. CASE ReaderExits
  BY <1>4, ReaderExitsInv
<1>5. ASSUME NEW w \in Workers, Work(w)
      PROVE  Inv'
  BY <1>5, WorkStepInv
<1>6. ASSUME NEW w \in Workers, Collect(w)
      PROVE  Inv'
  BY <1>6, CollectInv
<1>7. CASE Receive
  BY <1>7, ReceiveInv
<1>8. CASE Release
  BY <1>8, ReleaseInv
<1>9. CASE LookForEnd
  BY <1>9, LookForEndInv
<1>10. CASE Unconfigure
  BY <1>10, UnconfigureInv
<1>11. CASE Shutdown
  BY <1>11, ShutdownInv
<1>12. CASE Configure
  BY <1>12, ConfigureInv
<1>13. CASE UNCHANGED vars
  BY <1>13, StutterInv
<1> QED
  BY <1>1, <1>2, <1>3, <1>4, <1>5, <1>6, <1>7, <1>8, <1>9, <1>10, <1>11, <1>12, <1>13 DEF Next

\* No frame is lost again once one is, and EbReceiver gives its buffers back in time.
LEMMA LostHeld ==
  ASSUME lost \in Nat, held \in 0 .. RetSize - 1, [Next]_vars
  PROVE  lost' \in Nat /\ held' \in 0 .. RetSize - 1 /\ (lost' = 0 => lost = 0)
<1>1. ASSUME NEW l \in Lanes, Lose(l)
      PROVE  lost' \in Nat /\ held' = held /\ lost' # 0
  BY <1>1 DEF Lose, receiver
<1>2. CASE Release
  <2>1. RetSize \in Nat \ {0}
    BY Sizes
  <2>2. held' \in {held, 0, held + 1} /\ (held' = held + 1 => held + 1 # RetSize \/ held' = held)
        /\ lost' = lost
    BY <1>2, <2>1 DEF Release, Returns, stream
  <2> QED
    BY <2>1, <2>2
<1>3. CASE UNCHANGED <<lost, held>>
  BY <1>3
<1>4. (\E l \in Lanes : Lose(l)) \/ Release \/ UNCHANGED <<lost, held>>
  BY DEF Next, vars, stream, receiver, Read, AllocateTr, ReaderExits, Work, Collect, Receive,
         LookForEnd, Unconfigure, Shutdown, Configure
<1> QED
  BY <1>1, <1>2, <1>3, <1>4

HeldInv == lost \in Nat /\ held \in 0 .. RetSize - 1

Good == lost = 0 => Inv

LEMMA HeldAlways ==
  Spec => []HeldInv
<1>1. Init => HeldInv
  BY Sizes DEF Init, HeldInv
<1>2. HeldInv /\ [Next]_vars => HeldInv'
  BY LostHeld DEF HeldInv
<1> QED
  BY <1>1, <1>2, PTL DEF Spec

LEMMA GoodAlways ==
  ASSUME "again" \notin Faults
  PROVE  Spec => [](HeldInv /\ Good)
<1>1. Init => Good
  BY InitInv DEF Good
<1>2. HeldInv /\ Good /\ [Next]_vars => Good'
  BY LostHeld, NextInv DEF HeldInv, Good
<1> QED
  BY <1>1, <1>2, HeldAlways, PTL DEF Spec

\* The reader, the workers, the collector and the receiver of a DRP
\* (PGPDetector.cc, EbReceiver::process()) keep the events in the order of the event
\* counter: unless a frame is lost, the receiver gets the consecutive events of a
\* configuration, however many workers prepare them, and nothing throws in the first.
THEOREM ReadoutInSequence ==
  ASSUME "again" \notin Faults
  PROVE  Spec => []InSequence
<1>1. HeldInv /\ Good => InSequence
  BY DEF Good, Inv, RingInv, PhaseInv, InSequence
<1> QED
  BY <1>1, GoodAlways, PTL

LEMMA Intact ==
  ASSUME Inv, Spare
  PROVE  SlotsIntact
<1>1. TypeInv /\ PhaseInv /\ RingInv /\ InputInv
  BY DEF Inv
<1>2. ASSUME NEW i \in DOMAIN pend, NEW l \in Lanes
      PROVE  buf[pend[i]][l] = pebble[pend[i]]
  <2>1. CASE ended
    BY <1>1, <2>1 DEF InputInv
  <2>2. CASE spc = "done"
    BY <1>1, <2>2 DEF PhaseInv
  <2>3. CASE ~ended /\ spc # "done"
    BY <1>1, <2>3, PendIntact DEF Inv
  <2> QED
    BY <2>1, <2>2, <2>3
<1>3. cur # None => pebble[cur] = delivered[Len(delivered)]
  <2> SUFFICES ASSUME cur # None
               PROVE  delivered[Len(delivered)] = Arrived
    BY <1>1 DEF InputInv
  <2>1. delivered # << >> /\ delivered \in Seq(Nat) /\ from \in Nat
    BY <1>1 DEF RingInv, TypeInv
  <2>2. Len(delivered) \in DOMAIN delivered /\ Len(delivered) \in Nat
    <3>1. Len(delivered) \in Nat /\ Len(delivered) # 0 /\ DOMAIN delivered = 1 .. Len(delivered)
      BY <2>1, LenProperties, EmptySeq
    <3> DEFINE n == Len(delivered)
    <3>2. n \in 1 .. n
      <4>1. n \in Nat /\ n # 0
        BY <3>1
      <4> HIDE DEF n
      <4> QED
        BY <4>1
    <3> QED
      BY <3>1, <3>2
  <2> QED
    BY <1>1, <2>2 DEF RingInv, Arrived
<1> QED
  BY <1>2, <1>3 DEF SlotsIntact

\* The ring of events of a DRP, which has a slot for each DMA buffer (MemPool): with
\* two lanes, or with more slots than buffers, no slot is used again while the
\* contributor or EbReceiver::process() still reads what belongs to its event, unless
\* a frame is lost.
THEOREM ReadoutSlotsIntact ==
  ASSUME "again" \notin Faults, Spare
  PROVE  Spec => [](lost = 0 => SlotsIntact)
<1>1. HeldInv /\ Good => (lost = 0 => SlotsIntact)
  BY Intact DEF Good
<1> QED
  BY <1>1, GoodAlways, PTL

LEMMA Accounted ==
  ASSUME Inv
  PROVE  /\ dmaFree + held + Cardinality({f \in Slots \X Lanes : buf[f[1]][f[2]] # 0}) = DmaCount
         /\ trFree + Cardinality({s \in Slots : tr[s] >= from /\ tr[s] \notin Range(delivered)})
              = TrBuffers
<1>1. TypeInv /\ RingInv /\ CountInv
  BY DEF Inv
<1>2. delivered \in Seq(Nat) /\ from \in Nat \ {0} /\ Len(delivered) \in Nat
      /\ DOMAIN delivered = 1 .. Len(delivered)
  BY <1>1, LenProperties DEF TypeInv
<1>3. ASSUME NEW s \in Slots
      PROVE  tr[s] > Arrived <=> tr[s] >= from /\ tr[s] \notin Range(delivered)
  <2> DEFINE t == tr[s]
             n == Len(delivered)
  <2>1. t \in Nat /\ n \in Nat /\ Arrived = from + n - 1
    BY <1>1, <1>2 DEF TypeInv, Arrived
  <2>2. ASSUME t > Arrived, NEW i \in DOMAIN delivered, delivered[i] = t
        PROVE  FALSE
    <3>1. i \in 1 .. n /\ t = from + i - 1
      BY <1>1, <1>2, <2>2 DEF RingInv
    <3> HIDE DEF t, n
    <3> QED
      BY <1>2, <2>1, <2>2, <3>1
  <2>3. ASSUME t >= from, ~(t > Arrived)
        PROVE  t \in Range(delivered)
    <3>1. PICK i \in Int : i = t - from + 1
      BY <1>2, <2>1
    <3>2. i \in 1 .. n /\ t = from + i - 1
      <4> HIDE DEF t, n
      <4> QED
        BY <1>2, <2>1, <2>3, <3>1
    <3>3. i \in DOMAIN delivered /\ delivered[i] = t
      BY <1>1, <1>2, <3>2 DEF RingInv
    <3> QED
      BY <3>3 DEF Range
  <2>4. t > Arrived => t >= from
    <3> HIDE DEF t, n
    <3> QED
      BY <1>2, <2>1
  <2> QED
    BY <2>2, <2>3, <2>4 DEF Range
<1>4. Ahead = {s \in Slots : tr[s] >= from /\ tr[s] \notin Range(delivered)}
  BY <1>3 DEF Ahead
<1> QED
  BY <1>1, <1>4 DEF CountInv, Frames

\* The DMA buffers that the reader takes from the driver and the transition buffers
\* that it takes from the pool come back, each once: EbReceiver::process() collects
\* DMA buffers in a list that never overflows, and none leaks or is freed twice.
THEOREM ReadoutBuffersAccounted ==
  Spec => []BuffersAccounted
<1>1. HeldInv => held < RetSize
  BY Sizes DEF HeldInv
<1>2. CASE "again" \in Faults
  <2>1. HeldInv => BuffersAccounted
    BY <1>1, <1>2 DEF BuffersAccounted
  <2> QED
    BY <2>1, HeldAlways, PTL
<1>3. CASE "again" \notin Faults
  <2>1. HeldInv /\ Good => BuffersAccounted
    BY <1>1, Accounted DEF Good, BuffersAccounted
  <2>2. Spec => [](HeldInv /\ Good)
    BY <1>3, GoodAlways
  <2> QED
    BY <2>1, <2>2, PTL
<1> QED
  BY <1>2, <1>3
=============================================================================
