-------------------------- MODULE MonitoringProofs --------------------------
(***************************************************************************)
(* Proofs about Monitoring.  The order in which a MEB builds its events    *)
(* holds however it is configured.  What is said of the buffers holds if   *)
(* every configuration begins with a new connection ("configure" is not in *)
(* Ways): mon_stale shows that it does not hold otherwise.                 *)
(***************************************************************************)
EXTENDS Monitoring, FiniteSetTheorems, TLAPS

-----------------------------------------------------------------------------
(***************************************************************************)
(* Events                                                                  *)
(***************************************************************************)

\* The types that the proofs use.
TypeInv ==
  /\ groups \in [Pids -> SUBSET Drps] /\ want \in [Pids -> SUBSET Mebs]
  /\ trans \subseteq Pids
  /\ mrq \in [Tebs -> [Mebs -> Seq(Bufs)]] /\ lists \in [Tebs -> [Mebs -> Seq(Bufs)]]
  /\ iMeb \in [Tebs -> Mebs]
  /\ result \in [Pids -> {<< >>, <<"no">>} \cup ({"yes"} \X Mebs \X Bufs)]
  /\ at \in [Drps -> 0 .. MaxPid]
  /\ region \in [Mebs -> [Drps -> [Bufs -> 0 .. MaxPid]]]
  /\ arrived \in [Mebs -> SUBSET (Drps \X Pids)] /\ pidPrv \in [Mebs -> 0 .. MaxPid]
  /\ free \in [Mebs -> Seq(Bufs)] /\ shuffle \in [Mebs -> Seq(Bufs \X Pids)]
  /\ iTeb \in [Mebs -> Tebs]
  /\ reqs \in [Mebs -> Nat] /\ out \in [Mebs -> Nat] /\ unasked \in [Mebs -> Nat]
  /\ dropped \in [Mebs -> SUBSET Pids]

\* Event q is, or will be, sent to MEB m.
GoesTo(m, q) == q \in trans \/ \E b \in Bufs : result[q] = <<"yes", m, b>>

\* Everything has the common DRP, transitions have all, and no buffer.
GroupsInv ==
  /\ \A p \in Pids : Common \in groups[p]
  /\ \A p \in trans : want[p] = {} /\ result[p] \in {<< >>, <<"no">>}

\* A DRP has passed only events that have a result.
DoneInv == \A d \in Drps, q \in Pids : q <= at[d] /\ d \in groups[q] => result[q] # << >>

\* Where the MEB has not yet built, it has what the DRPs have passed.
ArrInv ==
  \A m \in Mebs, d \in Drps, q \in Pids :
    <<d, q>> \in arrived[m] <=>
      d \in groups[q] /\ q <= at[d] /\ GoesTo(m, q) /\ pidPrv[m] < q

\* Where it has built, all DRPs have passed.
PrvInv ==
  /\ \A m \in Mebs : pidPrv[m] <= at[Common]
  /\ \A m \in Mebs, q \in Pids : q <= pidPrv[m] /\ GoesTo(m, q) =>
       \A d \in groups[q] : q <= at[d]

EventInv == TypeInv /\ GroupsInv /\ DoneInv /\ ArrInv /\ PrvInv

-----------------------------------------------------------------------------
(***************************************************************************)
(* Buffers                                                                 *)
(***************************************************************************)

Uniq(s) == \A i, j \in DOMAIN s : s[i] = s[j] => i = j

FreeSet(m)   == Range(free[m])
AskSet(t, m) == Range(Requests(t, m))
GivenSet(m)  == {b \in Bufs : \E p \in Pids : Awaits(m, b, p)}
HeldSet(m)   == {b \in Bufs : \E i \in DOMAIN shuffle[m] : shuffle[m][i][1] = b}

\* No place has a buffer twice ...
Once(m) ==
  /\ Uniq(free[m])
  /\ \A t \in Tebs : Uniq(Requests(t, m))
  /\ \A b \in Bufs, p, q \in Pids : Awaits(m, b, p) /\ Awaits(m, b, q) => p = q
  /\ \A i, j \in DOMAIN shuffle[m] : shuffle[m][i][1] = shuffle[m][j][1] => i = j

\* ... no two places have the same ...
Disjoint(m) ==
  /\ FreeSet(m) \cap GivenSet(m) = {} /\ FreeSet(m) \cap HeldSet(m) = {}
  /\ GivenSet(m) \cap HeldSet(m) = {}
  /\ \A t \in Tebs : /\ AskSet(t, m) \cap FreeSet(m) = {}
                     /\ AskSet(t, m) \cap GivenSet(m) = {}
                     /\ AskSet(t, m) \cap HeldSet(m) = {}
  /\ \A t, u \in Tebs : t # u => AskSet(t, m) \cap AskSet(u, m) = {}

\* ... and none is lost.
Covered(m) ==
  \A b \in Bufs : \/ b \in FreeSet(m) \/ b \in GivenSet(m) \/ b \in HeldSet(m)
                  \/ \E t \in Tebs : b \in AskSet(t, m)

\* A shared memory buffer waits for every buffer that was asked for.
Counted(m) == reqs[m] = unasked[m] + Cardinality(AskedFor(m)) /\ dropped[m] = {}

Placed(m) == Once(m) /\ Disjoint(m) /\ Covered(m) /\ Counted(m)
PlaceInv == \A m \in Mebs : Placed(m)

\* What has arrived is in the buffer of its event.
RegionInv ==
  \A m \in Mebs, d \in Drps, p \in Pids, b \in Bufs :
    <<d, p>> \in arrived[m] /\ result[p] = <<"yes", m, b>> => region[m][d][b] = p

\* What the clients are to get is in the buffer that it was given.
HeldInv ==
  \A m \in Mebs : \A i \in DOMAIN shuffle[m] :
    result[shuffle[m][i][2]] = <<"yes", m, shuffle[m][i][1]>>

BufferInv == EventInv /\ PlaceInv /\ RegionInv /\ HeldInv /\ HeldIntact

-----------------------------------------------------------------------------
(***************************************************************************)
(* Sequences without repetitions, indices and choices                      *)
(***************************************************************************)

\* The first element is one of a list, the others are the tail.
LEMMA TailRange ==
  ASSUME NEW S, NEW s \in Seq(S), s # << >>
  PROVE  /\ Tail(s) \in Seq(S) /\ Head(s) \in S
         /\ Range(s) = Range(Tail(s)) \cup {Head(s)}
         /\ Uniq(s) => Uniq(Tail(s)) /\ Head(s) \notin Range(Tail(s))
<1>1. /\ Tail(s) \in Seq(S) /\ Len(s) > 0 /\ Len(Tail(s)) = Len(s) - 1
      /\ Head(s) = s[1] /\ DOMAIN s = 1 .. Len(s) /\ DOMAIN Tail(s) = 1 .. Len(s) - 1
      /\ \A i \in 1 .. Len(s) - 1 : Tail(s)[i] = s[i + 1]
  OBVIOUS
<1>2. Head(s) \in S
  OBVIOUS
<1>3. \A i \in 1 .. Len(s) : i # 1 => i - 1 \in 1 .. Len(s) - 1 /\ Tail(s)[i - 1] = s[i]
  <2> SUFFICES ASSUME NEW i \in 1 .. Len(s), i # 1
               PROVE  i - 1 \in 1 .. Len(s) - 1 /\ Tail(s)[i - 1] = s[i]
    OBVIOUS
  <2>1. i - 1 \in 1 .. Len(s) - 1 /\ (i - 1) + 1 = i
    BY <1>1
  <2>2. Tail(s)[i - 1] = s[(i - 1) + 1]
    BY <1>1, <2>1
  <2> QED
    BY <2>1, <2>2
<1>4. \A i \in 1 .. Len(s) - 1 : i + 1 \in 1 .. Len(s) /\ Tail(s)[i] = s[i + 1]
  BY <1>1
<1>5. Range(s) \subseteq Range(Tail(s)) \cup {Head(s)}
  <2>1. \A i \in 1 .. Len(s) : s[i] = Head(s) \/ \E j \in DOMAIN Tail(s) : Tail(s)[j] = s[i]
    BY <1>1, <1>3
  <2> QED
    BY <1>1, <2>1 DEF Range
<1>6. Range(Tail(s)) \cup {Head(s)} \subseteq Range(s)
  BY <1>1, <1>4 DEF Range
<1>7. ASSUME Uniq(s) PROVE Uniq(Tail(s)) /\ Head(s) \notin Range(Tail(s))
  BY <1>1, <1>4, <1>7 DEF Range, Uniq
<1> QED
  BY <1>1, <1>2, <1>5, <1>6, <1>7

LEMMA AppendRange ==
  ASSUME NEW S, NEW s \in Seq(S), NEW e \in S
  PROVE  /\ Append(s, e) \in Seq(S)
         /\ Range(Append(s, e)) = Range(s) \cup {e}
         /\ Uniq(s) /\ e \notin Range(s) => Uniq(Append(s, e))
<1>1. /\ Append(s, e) \in Seq(S) /\ Len(s) \in Nat
      /\ DOMAIN s = 1 .. Len(s) /\ DOMAIN Append(s, e) = 1 .. Len(s) + 1
      /\ Append(s, e)[Len(s) + 1] = e
      /\ \A i \in 1 .. Len(s) : Append(s, e)[i] = s[i]
  OBVIOUS
<1>2. \A i \in 1 .. Len(s) + 1 : i = Len(s) + 1 \/ i \in 1 .. Len(s)
  BY <1>1
<1>3. Range(Append(s, e)) \subseteq Range(s) \cup {e}
  BY <1>1, <1>2 DEF Range
<1>4. Range(s) \cup {e} \subseteq Range(Append(s, e))
  BY <1>1 DEF Range
<1>5. ASSUME Uniq(s), e \notin Range(s) PROVE Uniq(Append(s, e))
  BY <1>1, <1>2, <1>5 DEF Range, Uniq
<1> QED
  BY <1>1, <1>3, <1>4, <1>5

\* What is appended to the second of two lists is appended to both.
LEMMA ConcatAppend ==
  ASSUME NEW S, NEW a \in Seq(S), NEW s \in Seq(S), NEW e \in S
  PROVE  a \o Append(s, e) = Append(a \o s, e)
<1>1. a \o Append(s, e) \in Seq(S) /\ Append(a \o s, e) \in Seq(S)
  OBVIOUS
<1>2. Len(a \o Append(s, e)) = Len(Append(a \o s, e))
  OBVIOUS
<1>3. \A i \in 1 .. Len(a \o Append(s, e)) : (a \o Append(s, e))[i] = Append(a \o s, e)[i]
  OBVIOUS
<1> QED
  BY <1>1, <1>2, <1>3

LEMMA ConcatEmpty ==
  ASSUME NEW S, NEW s \in Seq(S)
  PROVE  s \o << >> = s
  OBVIOUS

\* A list of different buffers is not longer than there are buffers.
LEMMA UniqLen ==
  ASSUME NEW s \in Seq(Bufs), Uniq(s)
  PROVE  Len(s) <= NumBufs
<1>1. NumBufs \in Nat /\ Len(s) \in Nat
  BY MonitoringAssumption
<1>2. s \in Injection(1 .. Len(s), Bufs)
  <2>1. s \in [1 .. Len(s) -> Bufs]
    OBVIOUS
  <2>2. \A i, j \in 1 .. Len(s) : s[i] = s[j] => i = j
    BY DEF Uniq
  <2> QED
    BY <2>1, <2>2 DEF Injection, IsInjective
<1>3. IsFiniteSet(Bufs) /\ Cardinality(Bufs) = NumBufs
  <2>0. 0 \in Int /\ NumBufs - 1 \in Int
    BY <1>1
  <2>1. /\ IsFiniteSet(0 .. NumBufs - 1)
        /\ Cardinality(0 .. NumBufs - 1) =
             IF 0 > NumBufs - 1 THEN 0 ELSE NumBufs - 1 - 0 + 1
    BY <2>0, FS_Interval
  <2> QED
    BY <2>1, <1>1, MonitoringAssumption DEF Bufs
<1>4. Cardinality(1 .. Len(s)) = Len(s)
  <2>1. 1 \in Int /\ Len(s) \in Int
    BY <1>1
  <2>2. Cardinality(1 .. Len(s)) = IF 1 > Len(s) THEN 0 ELSE Len(s) - 1 + 1
    BY <2>1, FS_Interval
  <2> QED
    BY <2>2, <1>1
<1> QED
  BY <1>2, <1>3, <1>4, FS_Injection

\* Round robin indices are in range.
LEMMA ModRange ==
  ASSUME NEW n \in Nat
  PROVE  n % NumTebs \in Tebs /\ n % NumMebs \in Mebs
  BY MonitoringAssumption DEF Tebs, Mebs

LEMMA Ranges ==
  /\ Mebs \subseteq Nat /\ Tebs \subseteq Nat /\ Bufs \subseteq Nat /\ Pids \subseteq Nat
  /\ 0 \in Mebs /\ 0 \in Tebs /\ 0 .. MaxPid \subseteq Nat /\ Pids \subseteq 0 .. MaxPid
  BY MonitoringAssumption DEF Mebs, Tebs, Bufs, Pids

\* Something has the least number.
LEMMA Least ==
  ASSUME NEW S, S # {}, NEW f \in [S -> Nat]
  PROVE  \E x \in S : \A y \in S : f[x] <= f[y]
<1> DEFINE T == {f[x] : x \in S}
<1>1. T \subseteq Nat /\ T # {}
  OBVIOUS
<1> HIDE DEF T
<1>2. PICK n \in T : \A k \in T : ~(<<k, n>> \in OpToRel(<, Nat))
  BY <1>1, NatLessThanWellFounded, WFMin
<1>3. \A k \in T : ~(k < n)
  BY <1>1, <1>2, Zenon DEF OpToRel
<1>4. \A k \in T : n <= k
  <2> TAKE k \in T
  <2>1. n \in Nat /\ k \in Nat
    BY <1>1, <1>2
  <2>2. ~(k < n)
    BY <1>3
  <2> QED
    BY <2>1, <2>2
<1> QED
  BY <1>2, <1>4 DEF T

-----------------------------------------------------------------------------
(***************************************************************************)
(* What the helpers return                                                 *)
(***************************************************************************)

\* A result is one of three.
LEMMA ResultCases ==
  ASSUME TypeInv, NEW p \in Pids
  PROVE  \/ result[p] = << >>
         \/ result[p] = <<"no">>
         \/ \E m \in Mebs, b \in Bufs : result[p] = <<"yes", m, b>>
<1>1. result[p] \in {<< >>, <<"no">>} \cup ({"yes"} \X Mebs \X Bufs)
  BY DEF TypeInv
<1>2. ASSUME result[p] \in {"yes"} \X Mebs \X Bufs
      PROVE  \E m \in Mebs, b \in Bufs : result[p] = <<"yes", m, b>>
  BY <1>2
<1> QED
  BY <1>1, <1>2

LEMMA ResultsDiffer ==
  ASSUME NEW m, NEW b
  PROVE  /\ <<"yes", m, b>> # << >> /\ <<"yes", m, b>> # <<"no">> /\ <<"no">> # << >>
         /\ <<"no">>[1] # "yes"
         /\ <<"yes", m, b>>[1] = "yes" /\ <<"yes", m, b>>[2] = m /\ <<"yes", m, b>>[3] = b
  OBVIOUS

LEMMA RequestsType ==
  ASSUME TypeInv, NEW t \in Tebs, NEW m \in Mebs
  PROVE  Requests(t, m) \in Seq(Bufs) /\ lists[t][m] \in Seq(Bufs) /\ mrq[t][m] \in Seq(Bufs)
<1>1. lists[t][m] \in Seq(Bufs) /\ mrq[t][m] \in Seq(Bufs)
  BY DEF TypeInv
<1> QED
  BY <1>1 DEF Requests

LEMMA PolledType ==
  ASSUME TypeInv, NEW t \in Tebs
  PROVE  Polled(t) \in [Mebs -> Seq(Bufs)]
<1> SUFFICES ASSUME NEW m \in Mebs
             PROVE  (IF Len(Requests(t, m)) <= NumBufs THEN Requests(t, m)
                     ELSE SubSeq(Requests(t, m), 1, NumBufs)) \in Seq(Bufs)
  BY DEF Polled
<1>1. Requests(t, m) \in Seq(Bufs)
  BY RequestsType
<1>2. NumBufs \in Nat
  BY MonitoringAssumption
<1>3. ASSUME ~(Len(Requests(t, m)) <= NumBufs)
      PROVE  SubSeq(Requests(t, m), 1, NumBufs) \in Seq(Bufs)
  BY <1>1, <1>2, <1>3
<1> QED
  BY <1>1, <1>3

\* Teb::_monitor() takes a buffer of one of the MEBs that the trigger wants, or
\* none.
LEMMA MonitorCases ==
  ASSUME TypeInv, NEW t \in Tebs, NEW p \in Pids, Monitor(t, p)
  PROVE  /\ mrq' = [mrq EXCEPT ![t] = NoRequests]
         /\ iMeb' \in [Tebs -> Mebs]
         /\ \/ /\ lists' = [lists EXCEPT ![t] = Polled(t)]
               /\ result' = [result EXCEPT ![p] = <<"no">>]
            \/ \E m \in want[p] :
                 /\ Polled(t)[m] # << >>
                 /\ lists' = [lists EXCEPT ![t] = [Polled(t) EXCEPT ![m] = Tail(@)]]
                 /\ result' = [result EXCEPT ![p] = <<"yes", m, Head(Polled(t)[m])>>]
<1> DEFINE polled == Polled(t)
           able   == {m \in want[p] : Len(polled[m]) > Reserved}
           first  == CHOOSE m \in able : \A n \in able : Turn(t, p, m) <= Turn(t, p, n)
           tried  == IF able = {} THEN NumMebs ELSE Turn(t, p, first) + 1
<1>1. /\ mrq' = [mrq EXCEPT ![t] = NoRequests]
      /\ lists' = [lists EXCEPT ![t] = IF able = {} THEN polled
                     ELSE [polled EXCEPT ![first] = Tail(@)]]
      /\ result' = [result EXCEPT ![p] = IF able = {} THEN <<"no">>
                      ELSE <<"yes", first, Head(polled[first])>>]
      /\ iMeb' = IF want[p] = Mebs
                 THEN [iMeb EXCEPT ![t] = (@ + tried) % NumMebs] ELSE iMeb
  BY DEF Monitor, Taken
<1>2. polled \in [Mebs -> Seq(Bufs)]
  BY PolledType
<1>3. want[p] \subseteq Mebs /\ iMeb \in [Tebs -> Mebs] /\ Mebs \subseteq Nat
  BY Ranges DEF TypeInv
<1> HIDE DEF polled
<1>4. \A m \in able : Turn(t, p, m) \in Nat
  <2> SUFFICES ASSUME NEW m \in able PROVE Turn(t, p, m) \in Nat
    OBVIOUS
  <2>1. m \in Mebs /\ iMeb[t] \in Mebs
    BY <1>3
  <2>2. m + NumMebs - iMeb[t] \in Nat
    BY <2>1, MonitoringAssumption DEF Mebs
  <2>3. (m + NumMebs - iMeb[t]) % NumMebs \in Mebs
    BY <2>2, ModRange
  <2> QED
    BY <2>1, <2>3 DEF Turn, Mebs
<1>5. able # {} => first \in able
  <2> SUFFICES ASSUME able # {}
               PROVE  \E m \in able : \A n \in able : Turn(t, p, m) <= Turn(t, p, n)
    OBVIOUS
  <2> DEFINE f == [m \in able |-> Turn(t, p, m)]
  <2>1. f \in [able -> Nat]
    BY <1>4
  <2>2. \A m \in able : f[m] = Turn(t, p, m)
    OBVIOUS
  <2> HIDE DEF f, able
  <2>3. \E m \in able : \A n \in able : f[m] <= f[n]
    BY <2>1, Least
  <2> QED
    BY <2>2, <2>3
<1>6. tried \in Nat
  BY <1>4, <1>5, MonitoringAssumption
<1>7. iMeb' \in [Tebs -> Mebs]
  <2>1. (iMeb[t] + tried) % NumMebs \in Mebs
    <3>1. iMeb[t] \in Nat
      BY <1>3
    <3> HIDE DEF able, first, tried
    <3>2. iMeb[t] + tried \in Nat
      BY <3>1, <1>6
    <3> QED
      BY <3>2, ModRange
  <2> QED
    BY <1>1, <1>3, <2>1
<1>8. CASE able = {}
  BY <1>1, <1>7, <1>8 DEF polled
<1>9. CASE able # {}
  <2>1. first \in want[p] /\ Len(polled[first]) > Reserved
    BY <1>5, <1>9
  <2>2. polled[first] # << >>
    BY <2>1, <1>2, <1>3, MonitoringAssumption
  <2>3. /\ lists' = [lists EXCEPT ![t] = [polled EXCEPT ![first] = Tail(@)]]
        /\ result' = [result EXCEPT ![p] = <<"yes", first, Head(polled[first])>>]
    BY <1>1, <1>9
  <2> HIDE DEF first
  <2> QED
    BY <1>1, <1>7, <2>1, <2>2, <2>3 DEF polled
<1> QED
  BY <1>8, <1>9

-----------------------------------------------------------------------------
(***************************************************************************)
(* The types                                                               *)
(***************************************************************************)

\* A result keeps its form when an event is decided.
LEMMA DecideResult ==
  ASSUME TypeInv, NEW t \in Tebs, NEW p \in Pids, Decide(t, p)
  PROVE  /\ \E r : /\ result' = [result EXCEPT ![p] = r]
                   /\ r = <<"no">> \/ \E m \in want[p], b \in Bufs : r = <<"yes", m, b>>
         /\ lists' \in [Tebs -> [Mebs -> Seq(Bufs)]] /\ mrq' \in [Tebs -> [Mebs -> Seq(Bufs)]]
         /\ iMeb' \in [Tebs -> Mebs]
<1>1. CASE want[p] = {}
  BY <1>1 DEF Decide, TypeInv
<1>2. CASE want[p] # {}
  <2>1. Monitor(t, p)
    BY <1>2 DEF Decide
  <2>2. Polled(t) \in [Mebs -> Seq(Bufs)]
    BY PolledType
  <2>3. mrq' \in [Tebs -> [Mebs -> Seq(Bufs)]]
    <3>1. NoRequests \in [Mebs -> Seq(Bufs)]
      BY DEF NoRequests
    <3>2. mrq' = [mrq EXCEPT ![t] = NoRequests] /\ mrq \in [Tebs -> [Mebs -> Seq(Bufs)]]
      BY <2>1, MonitorCases DEF TypeInv
    <3> QED
      BY <3>1, <3>2
  <2>4. lists \in [Tebs -> [Mebs -> Seq(Bufs)]] /\ want[p] \subseteq Mebs
    BY DEF TypeInv
  <2>5. CASE /\ lists' = [lists EXCEPT ![t] = Polled(t)]
             /\ result' = [result EXCEPT ![p] = <<"no">>]
    <3>1. lists' \in [Tebs -> [Mebs -> Seq(Bufs)]]
      BY <2>2, <2>4, <2>5
    <3> QED
      BY <3>1, <2>1, <2>3, <2>5, MonitorCases
  <2>6. ASSUME NEW m \in want[p], Polled(t)[m] # << >>,
               lists' = [lists EXCEPT ![t] = [Polled(t) EXCEPT ![m] = Tail(@)]],
               result' = [result EXCEPT ![p] = <<"yes", m, Head(Polled(t)[m])>>]
        PROVE  /\ \E r : /\ result' = [result EXCEPT ![p] = r]
                         /\ \E n \in want[p], b \in Bufs : r = <<"yes", n, b>>
               /\ lists' \in [Tebs -> [Mebs -> Seq(Bufs)]]
    <3>1. m \in Mebs /\ Polled(t)[m] \in Seq(Bufs)
      BY <2>2, <2>4
    <3>2. Tail(Polled(t)[m]) \in Seq(Bufs) /\ Head(Polled(t)[m]) \in Bufs
      BY <3>1, <2>6, TailRange
    <3>3. [Polled(t) EXCEPT ![m] = Tail(@)] \in [Mebs -> Seq(Bufs)]
      BY <3>1, <3>2, <2>2
    <3>4. lists' \in [Tebs -> [Mebs -> Seq(Bufs)]]
      BY <3>3, <2>4, <2>6
    <3> QED
      BY <3>2, <3>4, <2>6
  <2>7. \/ /\ lists' = [lists EXCEPT ![t] = Polled(t)]
           /\ result' = [result EXCEPT ![p] = <<"no">>]
        \/ \E m \in want[p] :
             /\ Polled(t)[m] # << >>
             /\ lists' = [lists EXCEPT ![t] = [Polled(t) EXCEPT ![m] = Tail(@)]]
             /\ result' = [result EXCEPT ![p] = <<"yes", m, Head(Polled(t)[m])>>]
    BY <2>1, MonitorCases
  <2>8. CASE \E m \in want[p] :
             /\ Polled(t)[m] # << >>
             /\ lists' = [lists EXCEPT ![t] = [Polled(t) EXCEPT ![m] = Tail(@)]]
             /\ result' = [result EXCEPT ![p] = <<"yes", m, Head(Polled(t)[m])>>]
    <3>1. iMeb' \in [Tebs -> Mebs]
      BY <2>1, MonitorCases
    <3> QED
      BY <3>1, <2>3, <2>6, <2>8, Zenon
  <2> QED
    BY <2>5, <2>7, <2>8
<1> QED
  BY <1>1, <1>2

LEMMA EmptyTypes == NoRequests \in [Mebs -> Seq(Bufs)] /\ AllFree \in Seq(Bufs)
<1>1. AllFree \in [1 .. NumBufs -> Bufs]
  BY MonitoringAssumption DEF AllFree, Bufs
<1> QED
  BY <1>1, MonitoringAssumption DEF NoRequests

LEMMA InitType == Init => TypeInv
<1> SUFFICES ASSUME Init PROVE TypeInv
  OBVIOUS
<1>1. NoRequests \in [Mebs -> Seq(Bufs)] /\ AllFree \in Seq(Bufs)
  BY EmptyTypes
<1>2. /\ groups \in [Pids -> SUBSET Drps] /\ want \in [Pids -> SUBSET Mebs]
      /\ trans \subseteq Pids
  BY MonitoringAssumption DEF Init
<1>3. /\ mrq \in [Tebs -> [Mebs -> Seq(Bufs)]] /\ lists \in [Tebs -> [Mebs -> Seq(Bufs)]]
      /\ iMeb \in [Tebs -> Mebs]
  BY <1>1, Ranges DEF Init
<1>4. /\ result \in [Pids -> {<< >>, <<"no">>} \cup ({"yes"} \X Mebs \X Bufs)]
      /\ at \in [Drps -> 0 .. MaxPid]
      /\ region \in [Mebs -> [Drps -> [Bufs -> 0 .. MaxPid]]]
  BY MonitoringAssumption DEF Init
<1>5. /\ arrived \in [Mebs -> SUBSET (Drps \X Pids)] /\ pidPrv \in [Mebs -> 0 .. MaxPid]
      /\ free \in [Mebs -> Seq(Bufs)] /\ shuffle \in [Mebs -> Seq(Bufs \X Pids)]
      /\ iTeb \in [Mebs -> Tebs]
  BY <1>1, Ranges, MonitoringAssumption DEF Init
<1>6. /\ reqs \in [Mebs -> Nat] /\ out \in [Mebs -> Nat] /\ unasked \in [Mebs -> Nat]
      /\ dropped \in [Mebs -> SUBSET Pids]
  BY DEF Init
<1> QED
  BY <1>2, <1>3, <1>4, <1>5, <1>6 DEF TypeInv

LEMMA DeletedType ==
  ASSUME TypeInv, NEW m \in Mebs, NEW b \in Bufs
  PROVE  Deleted(m, b) \in Seq(Bufs)
<1>1. free[m] \in Seq(Bufs)
  BY DEF TypeInv
<1> QED
  BY <1>1, AppendRange DEF Deleted

\* The MEB builds events that a TEB has given a buffer to.
LEMMA BuildsGiven ==
  ASSUME EventInv, NEW m \in Mebs, NEW p \in Pids, Build(m, p)
  PROVE  /\ <<Common, p>> \in arrived[m] /\ pidPrv[m] < p /\ p <= at[Common]
         /\ p \notin trans => \E b \in Bufs : result[p] = <<"yes", m, b>>
<1>1. Common \in Drps /\ Common \in groups[p]
  BY MonitoringAssumption DEF EventInv, GroupsInv
<1>2. <<Common, p>> \in arrived[m]
  BY <1>1 DEF Build
<1> QED
  BY <1>1, <1>2 DEF EventInv, ArrInv, GoesTo

LEMMA TypeStep == EventInv /\ [Next]_vars => TypeInv'
<1> SUFFICES ASSUME EventInv, TypeInv, [Next]_vars PROVE TypeInv'
  BY DEF EventInv
<1>1. ASSUME NEW m \in Mebs, NEW k \in 0 .. NumTebs, Request(m, k) PROVE TypeInv'
  <2>1. free \in [Mebs -> Seq(Bufs)] /\ iTeb \in [Mebs -> Tebs]
        /\ mrq \in [Tebs -> [Mebs -> Seq(Bufs)]]
    BY DEF TypeInv
  <2>2. reqs' \in [Mebs -> Nat] /\ unasked' \in [Mebs -> Nat]
    <3>1. reqs \in [Mebs -> Nat] /\ unasked \in [Mebs -> Nat]
      BY DEF TypeInv
    <3>2. /\ reqs' = [reqs EXCEPT ![m] = @ + 1]
          /\ unasked' = unasked \/ unasked' = [unasked EXCEPT ![m] = @ + 1]
      BY <1>1 DEF Request
    <3> QED
      BY <3>1, <3>2
  <2>3. CASE free[m] = << >>
    BY <1>1, <2>2, <2>3 DEF Request, TypeInv, pulse, drp
  <2>4. CASE free[m] # << >>
    <3>1. Head(free[m]) \in Bufs /\ Tail(free[m]) \in Seq(Bufs)
      BY <2>1, <2>4, TailRange
    <3>2. AfterFailedPost(m) \in Seq(Bufs)
      BY <3>1, AppendRange DEF AfterFailedPost
    <3>3. free' \in [Mebs -> Seq(Bufs)]
      BY <1>1, <2>1, <2>4, <3>1, <3>2 DEF Request
    <3>4. (iTeb[m] + k) % NumTebs \in Tebs /\ (iTeb[m] + k + 1) % NumTebs \in Tebs
      <4>1. iTeb[m] \in Nat /\ k \in Nat
        <5>1. iTeb[m] \in Tebs
          BY <2>1
        <5>2. NumTebs \in Nat
          BY MonitoringAssumption
        <5>3. k \in Nat
          BY <5>2
        <5> QED
          BY <5>1, <5>3, Ranges
      <4>2. iTeb[m] + k \in Nat /\ iTeb[m] + k + 1 \in Nat
        BY <4>1
      <4> QED
        BY <4>2, ModRange
    <3>5. iTeb' \in [Mebs -> Tebs]
      BY <1>1, <2>1, <2>4, <3>4 DEF Request, NextTeb
    <3>6. mrq' \in [Tebs -> [Mebs -> Seq(Bufs)]]
      <4> DEFINE u == (iTeb[m] + k) % NumTebs
      <4>1. u \in Tebs
        BY <3>4
      <4>2. mrq' = mrq \/ mrq' = [mrq EXCEPT ![u][m] = Append(@, Head(free[m]))]
        BY <1>1, <2>4 DEF Request
      <4> HIDE DEF u
      <4>3. Append(mrq[u][m], Head(free[m])) \in Seq(Bufs)
        BY <2>1, <3>1, <4>1, AppendRange
      <4>4. CASE mrq' = [mrq EXCEPT ![u][m] = Append(@, Head(free[m]))]
        <5>1. [mrq[u] EXCEPT ![m] = Append(@, Head(free[m]))] \in [Mebs -> Seq(Bufs)]
          BY <2>1, <4>1, <4>3
        <5>2. mrq' = [mrq EXCEPT ![u] = [mrq[u] EXCEPT ![m] = Append(@, Head(free[m]))]]
          BY <2>1, <4>1, <4>4
        <5> QED
          BY <2>1, <4>1, <5>1, <5>2
      <4> QED
        BY <2>1, <4>2, <4>4
    <3> QED
      BY <1>1, <2>2, <3>3, <3>5, <3>6 DEF Request, TypeInv, pulse, drp
  <2> QED
    BY <2>3, <2>4
<1>2. ASSUME NEW m \in Mebs, Distribute(m) PROVE TypeInv'
  <2>1. shuffle[m] \in Seq(Bufs \X Pids) /\ shuffle[m] # << >>
    BY <1>2 DEF TypeInv, Distribute
  <2>2. Head(shuffle[m]) \in Bufs \X Pids /\ Tail(shuffle[m]) \in Seq(Bufs \X Pids)
    BY <2>1, TailRange
  <2>3. Deleted(m, Head(shuffle[m])[1]) \in Seq(Bufs)
    BY <2>2, DeletedType
  <2>4. free' \in [Mebs -> Seq(Bufs)] /\ shuffle' \in [Mebs -> Seq(Bufs \X Pids)]
    BY <1>2, <2>2, <2>3 DEF Distribute, TypeInv
  <2>5. out' \in [Mebs -> Nat]
    <3>1. out \in [Mebs -> Nat]
      BY DEF TypeInv
    <3>2. out' = out \/ out' = [out EXCEPT ![m] = @ + 1]
      BY <1>2 DEF Distribute
    <3> QED
      BY <3>1, <3>2
  <2> QED
    BY <1>2, <2>4, <2>5 DEF Distribute, TypeInv, pulse, teb, drp
<1>3. ASSUME NEW m \in Mebs, ClientReturns(m) PROVE TypeInv'
  <2>1. out' \in [Mebs -> Nat]
    <3>1. out \in [Mebs -> Nat]
      BY DEF TypeInv
    <3>2. out[m] > 0 /\ out' = [out EXCEPT ![m] = @ - 1]
      BY <1>3 DEF ClientReturns
    <3> QED
      BY <3>1, <3>2
  <2> QED
    BY <1>3, <2>1 DEF ClientReturns, TypeInv, pulse, teb, drp, meb
<1>4. ASSUME NEW t \in Tebs, NEW p \in Pids, Decide(t, p) PROVE TypeInv'
  <2>1. PICK r : /\ result' = [result EXCEPT ![p] = r]
                 /\ r = <<"no">> \/ \E m \in want[p], b \in Bufs : r = <<"yes", m, b>>
    BY <1>4, DecideResult
  <2>2. r \in {<< >>, <<"no">>} \cup ({"yes"} \X Mebs \X Bufs)
    <3>1. want[p] \subseteq Mebs
      BY DEF TypeInv
    <3> QED
      BY <2>1, <3>1
  <2>3. result' \in [Pids -> {<< >>, <<"no">>} \cup ({"yes"} \X Mebs \X Bufs)]
    BY <2>1, <2>2 DEF TypeInv
  <2>4. /\ lists' \in [Tebs -> [Mebs -> Seq(Bufs)]] /\ mrq' \in [Tebs -> [Mebs -> Seq(Bufs)]]
        /\ iMeb' \in [Tebs -> Mebs]
    BY <1>4, DecideResult
  <2> QED
    BY <1>4, <2>3, <2>4 DEF Decide, TypeInv, pulse, drp, meb, shm
<1>5. ASSUME NEW d \in Drps, NEW p \in Pids, Contribute(d, p) PROVE TypeInv'
  <2>1. at' \in [Drps -> 0 .. MaxPid]
    BY <1>5, Ranges DEF Contribute, TypeInv
  <2>2. /\ arrived' \in [Mebs -> SUBSET (Drps \X Pids)]
        /\ region' \in [Mebs -> [Drps -> [Bufs -> 0 .. MaxPid]]]
    <3>1. <<d, p>> \in Drps \X Pids /\ p \in 0 .. MaxPid
      BY Ranges
    <3>2. CASE p \in trans
      <4>1. arrived \in [Mebs -> SUBSET (Drps \X Pids)] /\ region \in [Mebs -> [Drps -> [Bufs -> 0 .. MaxPid]]]
        BY DEF TypeInv
      <4>2. arrived' = [m \in Mebs |-> arrived[m] \cup {<<d, p>>}] /\ region' = region
        BY <1>5, <3>2 DEF Contribute
      <4> QED
        BY <4>1, <4>2, <3>1
    <3>3. CASE p \notin trans /\ result[p][1] = "yes"
      <4>1. PICK m \in Mebs, b \in Bufs : result[p] = <<"yes", m, b>>
        BY <3>3, <1>5, ResultCases, ResultsDiffer DEF Contribute
      <4>2. /\ arrived' = [arrived EXCEPT ![m] = @ \cup {<<d, p>>}]
            /\ region' = [region EXCEPT ![m][d][b] = p]
        BY <1>5, <3>3, <4>1 DEF Contribute
      <4> QED
        BY <4>1, <4>2, <3>1 DEF TypeInv
    <3>4. CASE p \notin trans /\ result[p][1] # "yes"
      BY <1>5, <3>4 DEF Contribute, TypeInv
    <3> QED
      BY <3>2, <3>3, <3>4
  <2> QED
    BY <1>5, <2>1, <2>2 DEF Contribute, TypeInv, pulse, teb, shm
<1>6. ASSUME NEW m \in Mebs, NEW p \in Pids, Build(m, p) PROVE TypeInv'
  <2>1. /\ arrived' \in [Mebs -> SUBSET (Drps \X Pids)]
        /\ pidPrv' \in [Mebs -> 0 .. MaxPid]
    BY <1>6, Ranges DEF Build, TypeInv
  <2>2. /\ free \in [Mebs -> Seq(Bufs)] /\ shuffle \in [Mebs -> Seq(Bufs \X Pids)]
        /\ reqs \in [Mebs -> Nat] /\ out \in [Mebs -> Nat]
        /\ dropped \in [Mebs -> SUBSET Pids]
    BY DEF TypeInv
  <2>3. CASE p \in trans
    <3>1. PICK k \in 0 .. out[m] : out' = [out EXCEPT ![m] = @ - k]
      BY <1>6, <2>3 DEF Build
    <3>2. out' \in [Mebs -> Nat]
      <4>1. out[m] \in Nat /\ out[m] - k \in Nat
        BY <2>2
      <4> QED
        BY <2>2, <3>1, <4>1
    <3> QED
      BY <1>6, <2>1, <2>3, <3>2 DEF Build, TypeInv, pulse, teb
  <2>4. CASE p \notin trans
    <3>1. PICK b \in Bufs : result[p] = <<"yes", m, b>>
      BY <1>6, <2>4, BuildsGiven
    <3>2. <<result[p][3], p>> \in Bufs \X Pids /\ result[p][3] \in Bufs
      BY <3>1
    <3>3. CASE reqs[m] + out[m] > 0
      <4>1. /\ shuffle' = [shuffle EXCEPT ![m] = Append(@, <<result[p][3], p>>)]
            /\ reqs' = [reqs EXCEPT ![m] = IF @ > 0 THEN @ - 1 ELSE @]
            /\ out' = [out EXCEPT ![m] = IF reqs[m] > 0 THEN @ ELSE @ - 1]
            /\ free' = free /\ dropped' = dropped
        BY <1>6, <2>4, <3>3 DEF Build
      <4>2. reqs' \in [Mebs -> Nat] /\ out' \in [Mebs -> Nat]
        <5>1. (IF reqs[m] > 0 THEN reqs[m] - 1 ELSE reqs[m]) \in Nat
          BY <2>2
        <5>2. (IF reqs[m] > 0 THEN out[m] ELSE out[m] - 1) \in Nat
          BY <2>2, <3>3
        <5> QED
          BY <2>2, <4>1, <5>1, <5>2
      <4>3. shuffle' \in [Mebs -> Seq(Bufs \X Pids)]
        <5>1. Append(shuffle[m], <<result[p][3], p>>) \in Seq(Bufs \X Pids)
          BY <2>2, <3>2, AppendRange
        <5> QED
          BY <2>2, <4>1, <5>1
      <4> QED
        BY <1>6, <2>1, <4>1, <4>2, <4>3 DEF Build, TypeInv, pulse, teb
    <3>4. CASE ~(reqs[m] + out[m] > 0)
      <4>1. /\ free' = [free EXCEPT ![m] = Deleted(m, result[p][3])]
            /\ dropped' = [dropped EXCEPT ![m] = @ \cup {p}]
            /\ shuffle' = shuffle /\ reqs' = reqs /\ out' = out
        BY <1>6, <2>4, <3>4 DEF Build
      <4>2. Deleted(m, result[p][3]) \in Seq(Bufs)
        BY <3>2, DeletedType
      <4>3. free' \in [Mebs -> Seq(Bufs)] /\ dropped' \in [Mebs -> SUBSET Pids]
        BY <2>2, <4>1, <4>2
      <4> QED
        BY <1>6, <2>1, <2>2, <4>1, <4>3 DEF Build, TypeInv, pulse, teb
    <3> QED
      BY <3>3, <3>4
  <2> QED
    BY <2>3, <2>4
<1>7. ASSUME NEW way \in Ways, Reconfigure(way) PROVE TypeInv'
  <2>1. NoRequests \in [Mebs -> Seq(Bufs)] /\ AllFree \in Seq(Bufs)
    BY EmptyTypes
  <2>2. lists' \in [Tebs -> [Mebs -> Seq(Bufs)]]
    <3>1. lists \in [Tebs -> [Mebs -> Seq(Bufs)]]
      BY DEF TypeInv
    <3> QED
      BY <1>7, <2>1, <3>1 DEF Reconfigure, Lists
  <2>3. /\ mrq' \in [Tebs -> [Mebs -> Seq(Bufs)]] /\ free' \in [Mebs -> Seq(Bufs)]
        /\ iTeb' \in [Mebs -> Tebs]
    BY <1>7, <2>1, Ranges DEF Reconfigure
  <2>4. reqs' \in [Mebs -> Nat] /\ out' \in [Mebs -> Nat] /\ unasked' \in [Mebs -> Nat]
    BY <1>7 DEF Reconfigure
  <2> QED
    BY <1>7, <2>2, <2>3, <2>4 DEF Reconfigure, TypeInv, pulse
<1>8. CASE UNCHANGED vars
  BY <1>8 DEF TypeInv, vars, pulse, teb, drp, meb, shm
<1> QED
  BY <1>1, <1>2, <1>3, <1>4, <1>5, <1>6, <1>7, <1>8 DEF Next

-----------------------------------------------------------------------------
(***************************************************************************)
(* The order of events                                                     *)
(***************************************************************************)

LEMMA EventInit == Init => EventInv
<1> SUFFICES ASSUME Init PROVE EventInv
  OBVIOUS
<1>1. TypeInv
  BY InitType
<1>2. GroupsInv
  <2>1. \A p \in Pids : Common \in groups[p]
    BY DEF Init
  <2>2. \A p \in trans : p \in Pids /\ want[p] = {} /\ result[p] = << >>
    BY DEF Init
  <2> QED
    BY <2>1, <2>2 DEF GroupsInv
<1>3. \A q \in Pids, d \in Drps : ~(q <= at[d])
  BY MonitoringAssumption DEF Init, Pids
<1>4. DoneInv
  BY <1>3 DEF DoneInv
<1>5. ArrInv
  BY <1>3 DEF ArrInv, Init
<1>6. PrvInv
  <2>1. \A m \in Mebs : pidPrv[m] = 0
    BY DEF Init
  <2>2. at[Common] = 0
    BY MonitoringAssumption DEF Init
  <2>3. \A q \in Pids : ~(q <= 0)
    BY MonitoringAssumption DEF Pids
  <2> QED
    BY <2>1, <2>2, <2>3 DEF PrvInv
<1> QED
  BY <1>1, <1>2, <1>4, <1>5, <1>6 DEF EventInv

\* A step that leaves the events alone.
LEMMA EventKept ==
  ASSUME EventInv, TypeInv', UNCHANGED <<groups, want, trans, result, at, arrived, pidPrv>>
  PROVE  EventInv'
  BY DEF EventInv, GroupsInv, DoneInv, ArrInv, PrvInv, GoesTo

LEMMA EventDecide ==
  ASSUME EventInv, TypeInv', NEW t \in Tebs, NEW p \in Pids, Decide(t, p)
  PROVE  EventInv'
<1>1. PICK r : /\ result' = [result EXCEPT ![p] = r]
               /\ r = <<"no">> \/ \E m \in want[p], b \in Bufs : r = <<"yes", m, b>>
  BY DecideResult DEF EventInv
<1>2. /\ result[p] = << >> /\ r # << >> /\ result'[p] = r
      /\ \A q \in Pids : q # p => result'[q] = result[q]
  <2>1. r # << >>
    BY <1>1, ResultsDiffer
  <2>2. result[p] = << >>
    BY DEF Decide
  <2>3. DOMAIN result = Pids
    BY DEF EventInv, TypeInv
  <2> QED
    BY <1>1, <2>1, <2>2, <2>3
<1>3. UNCHANGED <<groups, want, trans, at, arrived, pidPrv>>
  BY DEF Decide, pulse, drp, meb
<1>4. \A d \in groups[p] : ~(p <= at[d])
  BY <1>2 DEF EventInv, DoneInv, TypeInv
<1>5. GroupsInv'
  <2>1. ASSUME NEW q \in trans PROVE want[q] = {} /\ result'[q] \in {<< >>, <<"no">>}
    BY <1>1, <1>2 DEF EventInv, GroupsInv, TypeInv
  <2> QED
    BY <1>3, <2>1 DEF EventInv, GroupsInv
<1>6. DoneInv'
  BY <1>2, <1>3 DEF EventInv, DoneInv
<1>7. \A m \in Mebs, q \in Pids : q # p => (GoesTo(m, q)' <=> GoesTo(m, q))
  BY <1>2, <1>3 DEF GoesTo
<1>8. ArrInv'
  <2> SUFFICES ASSUME NEW m \in Mebs, NEW d \in Drps, NEW q \in Pids
               PROVE  <<d, q>> \in arrived[m] <=>
                        d \in groups[q] /\ q <= at[d] /\ GoesTo(m, q)' /\ pidPrv[m] < q
    BY <1>3 DEF ArrInv
  <2>1. CASE q = p
    BY <1>4, <2>1 DEF EventInv, ArrInv
  <2>2. CASE q # p
    BY <1>7, <2>2 DEF EventInv, ArrInv
  <2> QED
    BY <2>1, <2>2
<1>9. PrvInv'
  <2> SUFFICES ASSUME NEW m \in Mebs, NEW q \in Pids, q <= pidPrv[m], GoesTo(m, q)',
                      NEW d \in groups[q]
               PROVE  q <= at[d]
    BY <1>3 DEF PrvInv, EventInv
  <2>1. CASE q = p
    <3>1. Common \in Drps /\ Common \in groups[p] /\ pidPrv[m] <= at[Common]
      BY MonitoringAssumption DEF EventInv, GroupsInv, PrvInv
    <3>2. p \in Nat /\ pidPrv[m] \in Nat /\ at[Common] \in Nat
      BY <3>1, Ranges DEF EventInv, TypeInv
    <3> QED
      BY <1>4, <2>1, <3>1, <3>2
  <2>2. CASE q # p
    BY <1>7, <2>2 DEF EventInv, PrvInv
  <2> QED
    BY <2>1, <2>2
<1> QED
  BY <1>5, <1>6, <1>8, <1>9 DEF EventInv

\* A DRP sends an event before the MEB has built it, or a later one.
LEMMA SentInTime ==
  ASSUME EventInv, NEW d \in Drps, NEW p \in Pids, Contribute(d, p),
         NEW m \in Mebs, GoesTo(m, p)
  PROVE  pidPrv[m] < p
<1>1. d \in groups[p] /\ at[d] < p
  BY DEF Contribute
<1>2. pidPrv[m] \in Nat /\ p \in Nat /\ at[d] \in Nat
  BY Ranges DEF EventInv, TypeInv
<1> QED
  BY <1>1, <1>2 DEF EventInv, PrvInv

LEMMA EventContribute ==
  ASSUME EventInv, TypeInv', NEW d \in Drps, NEW p \in Pids, Contribute(d, p)
  PROVE  EventInv'
<1>1. UNCHANGED <<groups, want, trans, result, pidPrv>>
  BY DEF Contribute, pulse, teb
<1>2. /\ at[d] < p /\ d \in groups[p] /\ result[p] # << >> /\ at'[d] = p
      /\ \A e \in Drps : e # d => at'[e] = at[e]
      /\ \A q \in Pids : at[d] < q /\ q < p => d \notin groups[q]
  BY DEF Contribute, EventInv, TypeInv
<1>3. \A e \in Drps : at[e] \in Nat /\ at'[e] \in Nat
  BY Ranges DEF EventInv, TypeInv
<1>4. \A q \in Pids : d \in groups[q] => (q <= p <=> q = p \/ q <= at[d])
  <2> SUFFICES ASSUME NEW q \in Pids, d \in groups[q] PROVE q <= p <=> q = p \/ q <= at[d]
    OBVIOUS
  <2>1. q \in Nat /\ p \in Nat /\ at[d] \in Nat
    BY <1>3, Ranges
  <2> QED
    BY <1>2, <2>1
<1>5. \A e \in Drps, q \in Pids : e \in groups[q] =>
        (q <= at'[e] <=> (e = d /\ q = p) \/ q <= at[e])
  BY <1>2, <1>4
<1>6. \A e \in Drps, q \in Pids : q <= at[e] => q <= at'[e]
  <2> SUFFICES ASSUME NEW e \in Drps, NEW q \in Pids, q <= at[e] PROVE q <= at'[e]
    OBVIOUS
  <2>1. q \in Nat /\ p \in Nat /\ at[e] \in Nat
    BY <1>3, Ranges
  <2> QED
    BY <1>2, <2>1
<1>7. GroupsInv'
  BY <1>1 DEF EventInv, GroupsInv
<1>8. DoneInv'
  BY <1>1, <1>2, <1>5 DEF EventInv, DoneInv
<1>9. \A m \in Mebs, q \in Pids : GoesTo(m, q)' <=> GoesTo(m, q)
  BY <1>1 DEF GoesTo
<1>10. \A m \in Mebs : arrived'[m] = IF GoesTo(m, p) THEN arrived[m] \cup {<<d, p>>} ELSE arrived[m]
  <2> SUFFICES ASSUME NEW m \in Mebs
               PROVE  arrived'[m] = IF GoesTo(m, p) THEN arrived[m] \cup {<<d, p>>}
                                    ELSE arrived[m]
    OBVIOUS
  <2>0. arrived \in [Mebs -> SUBSET (Drps \X Pids)]
    BY DEF EventInv, TypeInv
  <2>1. CASE p \in trans
    BY <2>0, <2>1 DEF Contribute, GoesTo
  <2>2. CASE p \notin trans
    <3>1. CASE result[p] = <<"no">>
      <4>1. ~GoesTo(m, p) /\ result[p][1] # "yes"
        BY <2>2, <3>1, ResultsDiffer DEF GoesTo
      <4> QED
        BY <2>2, <4>1 DEF Contribute
    <3>2. ASSUME NEW n \in Mebs, NEW b \in Bufs, result[p] = <<"yes", n, b>>
          PROVE  arrived'[m] = IF GoesTo(m, p) THEN arrived[m] \cup {<<d, p>>}
                               ELSE arrived[m]
      <4>1. result[p][1] = "yes" /\ result[p][2] = n
        BY <3>2
      <4>2. arrived' = [arrived EXCEPT ![n] = @ \cup {<<d, p>>}]
        BY <2>2, <4>1 DEF Contribute
      <4>3. GoesTo(m, p) <=> m = n
        BY <2>2, <3>2 DEF GoesTo
      <4> QED
        BY <2>0, <4>2, <4>3
    <3> QED
      BY <1>2, <3>1, <3>2, ResultCases DEF EventInv
  <2> QED
    BY <2>1, <2>2
<1>11. ArrInv'
  <2> SUFFICES ASSUME NEW m \in Mebs, NEW e \in Drps, NEW q \in Pids
               PROVE  <<e, q>> \in arrived'[m] <=>
                        e \in groups[q] /\ q <= at'[e] /\ GoesTo(m, q) /\ pidPrv[m] < q
    BY <1>1, <1>9 DEF ArrInv
  <2>1. <<e, q>> \in arrived[m] <=>
          e \in groups[q] /\ q <= at[e] /\ GoesTo(m, q) /\ pidPrv[m] < q
    BY DEF EventInv, ArrInv
  <2>2. CASE e = d /\ q = p
    <3>1. GoesTo(m, p) => pidPrv[m] < p
      BY SentInTime
    <3>2. ~GoesTo(m, p) => <<e, q>> \notin arrived'[m]
      BY <1>10, <2>1, <2>2
    <3> QED
      BY <1>2, <1>5, <1>10, <2>2, <3>1, <3>2
  <2>3. CASE ~(e = d /\ q = p)
    <3>1. <<e, q>> \in arrived'[m] <=> <<e, q>> \in arrived[m]
      <4>1. <<e, q>> # <<d, p>>
        BY <2>3
      <4> QED
        BY <1>10, <4>1
    <3> QED
      BY <1>5, <2>1, <2>3, <3>1
  <2> QED
    BY <2>2, <2>3
<1>12. PrvInv'
  <2>1. \A m \in Mebs : pidPrv[m] <= at'[Common]
    <3> SUFFICES ASSUME NEW m \in Mebs PROVE pidPrv[m] <= at'[Common]
      OBVIOUS
    <3>1. Common \in Drps /\ pidPrv[m] \in Nat /\ pidPrv[m] <= at[Common] /\ p \in Nat
      BY MonitoringAssumption, Ranges DEF EventInv, PrvInv, TypeInv
    <3> QED
      BY <1>2, <1>3, <3>1
  <2>2. \A m \in Mebs, q \in Pids : q <= pidPrv[m] /\ GoesTo(m, q) =>
          \A e \in groups[q] : q <= at'[e]
    <3>1. \A q \in Pids : groups[q] \subseteq Drps
      BY DEF EventInv, TypeInv
    <3> QED
      BY <1>6, <3>1 DEF EventInv, PrvInv
  <2> QED
    BY <1>1, <1>9, <2>1, <2>2 DEF PrvInv
<1> QED
  BY <1>7, <1>8, <1>11, <1>12 DEF EventInv

\* What the MEB builds is the next that was sent to it.
LEMMA BuildsNext ==
  ASSUME EventInv, NEW m \in Mebs, NEW p \in Pids, Build(m, p),
         NEW q \in Pids, GoesTo(m, q), pidPrv[m] < q
  PROVE  p <= q
<1>1. Common \in Drps /\ Common \in groups[q]
  BY MonitoringAssumption DEF EventInv, GroupsInv
<1>2. p <= at[Common] /\ p \in Nat /\ q \in Nat /\ at[Common] \in Nat
  BY <1>1, BuildsGiven, Ranges DEF EventInv, TypeInv
<1>3. q < p => <<Common, q>> \in arrived[m]
  BY <1>1, <1>2 DEF EventInv, ArrInv
<1>4. <<Common, q>> \in arrived[m] => p <= q
  BY DEF Build, Retires
<1> QED
  BY <1>2, <1>3, <1>4

LEMMA EventBuild ==
  ASSUME EventInv, TypeInv', NEW m \in Mebs, NEW p \in Pids, Build(m, p)
  PROVE  EventInv'
<1>1. UNCHANGED <<groups, want, trans, result, at>>
  BY DEF Build, pulse, teb
<1>2. /\ arrived'[m] = arrived[m] \ (Drps \X {p}) /\ pidPrv'[m] = p
      /\ \A n \in Mebs : n # m => arrived'[n] = arrived[n] /\ pidPrv'[n] = pidPrv[n]
  BY DEF Build, EventInv, TypeInv
<1>3. /\ <<Common, p>> \in arrived[m] /\ pidPrv[m] < p /\ p <= at[Common]
      /\ Common \in Drps
  BY BuildsGiven, MonitoringAssumption
<1>4. \A e \in Drps, q \in Pids : <<e, q>> \in arrived[m] => p <= q
  BY DEF Build, Retires
<1>5. pidPrv[m] \in Nat /\ p \in Nat /\ at[Common] \in Nat
  BY <1>3, Ranges DEF EventInv, TypeInv
<1>6. \A n \in Mebs, q \in Pids : GoesTo(n, q)' <=> GoesTo(n, q)
  BY <1>1 DEF GoesTo
<1>7. GroupsInv' /\ DoneInv'
  BY <1>1 DEF EventInv, GroupsInv, DoneInv
<1>8. ArrInv'
  <2> SUFFICES ASSUME NEW n \in Mebs, NEW e \in Drps, NEW q \in Pids
               PROVE  <<e, q>> \in arrived'[n] <=>
                        e \in groups[q] /\ q <= at[e] /\ GoesTo(n, q) /\ pidPrv'[n] < q
    BY <1>1, <1>6 DEF ArrInv
  <2>1. <<e, q>> \in arrived[n] <=>
          e \in groups[q] /\ q <= at[e] /\ GoesTo(n, q) /\ pidPrv[n] < q
    BY DEF EventInv, ArrInv
  <2>2. CASE n # m
    BY <1>2, <2>1, <2>2
  <2>3. CASE n = m
    <3>1. <<e, q>> \in arrived'[m] <=> <<e, q>> \in arrived[m] /\ q # p
      BY <1>2
    <3>2. q \in Nat
      BY Ranges
    <3>3. <<e, q>> \in arrived[m] /\ q # p => p < q
      BY <1>4, <1>5, <3>2
    <3>4. p < q => pidPrv[m] < q /\ q # p
      BY <1>3, <1>5, <3>2
    <3> QED
      BY <1>2, <2>1, <2>3, <3>1, <3>3, <3>4
  <2> QED
    BY <2>2, <2>3
<1>9. PrvInv'
  <2>1. \A n \in Mebs : pidPrv'[n] <= at[Common]
    BY <1>2, <1>3 DEF EventInv, PrvInv
  <2>2. ASSUME NEW n \in Mebs, NEW q \in Pids, q <= pidPrv'[n], GoesTo(n, q),
               NEW e \in groups[q]
        PROVE  q <= at[e]
    <3>1. CASE n # m
      BY <1>2, <2>2, <3>1 DEF EventInv, PrvInv
    <3>2. CASE n = m /\ q <= pidPrv[m]
      BY <2>2, <3>2 DEF EventInv, PrvInv
    <3>3. CASE n = m /\ q = p
      BY <3>3 DEF Build, EventInv, ArrInv, TypeInv
    <3>4. CASE n = m /\ pidPrv[m] < q /\ q < p
      <4>1. p <= q /\ q \in Nat
        BY <2>2, <3>4, BuildsNext, Ranges
      <4> QED
        BY <1>5, <3>4, <4>1
    <3>5. n = m => q <= p /\ q \in Nat
      BY <1>2, <2>2, Ranges
    <3> QED
      BY <1>5, <3>1, <3>2, <3>3, <3>4, <3>5
  <2> QED
    BY <1>1, <1>6, <2>1, <2>2 DEF PrvInv
<1> QED
  BY <1>7, <1>8, <1>9 DEF EventInv

LEMMA EventStep == EventInv /\ [Next]_vars => EventInv'
<1> SUFFICES ASSUME EventInv, [Next]_vars PROVE EventInv'
  OBVIOUS
<1>0. TypeInv'
  BY TypeStep
<1>1. ASSUME NEW m \in Mebs, NEW k \in 0 .. NumTebs, Request(m, k) PROVE EventInv'
  BY <1>0, <1>1, EventKept DEF Request, pulse, drp
<1>2. ASSUME NEW m \in Mebs, Distribute(m) PROVE EventInv'
  BY <1>0, <1>2, EventKept DEF Distribute, pulse, teb, drp
<1>3. ASSUME NEW m \in Mebs, ClientReturns(m) PROVE EventInv'
  BY <1>0, <1>3, EventKept DEF ClientReturns, pulse, teb, drp, meb
<1>4. ASSUME NEW t \in Tebs, NEW p \in Pids, Decide(t, p) PROVE EventInv'
  BY <1>0, <1>4, EventDecide
<1>5. ASSUME NEW d \in Drps, NEW p \in Pids, Contribute(d, p) PROVE EventInv'
  BY <1>0, <1>5, EventContribute
<1>6. ASSUME NEW m \in Mebs, NEW p \in Pids, Build(m, p) PROVE EventInv'
  BY <1>0, <1>6, EventBuild
<1>7. ASSUME NEW way \in Ways, Reconfigure(way) PROVE EventInv'
  BY <1>0, <1>7, EventKept DEF Reconfigure, pulse
<1>8. CASE UNCHANGED vars
  BY <1>0, <1>8, EventKept DEF vars, pulse, teb, drp, meb
<1> QED
  BY <1>1, <1>2, <1>3, <1>4, <1>5, <1>6, <1>7, <1>8 DEF Next

\* However the TEBs and DRPs are skewed and however often the system is
\* configured, Meb::process() never finds a pulse ID that did not advance: an
\* event that the MEB could build has the common DRP, whose contributions come
\* in order.
THEOREM EventsInOrder == Spec => PulseIdAdvances
<1>1. EventInv /\ [Next]_vars =>
        [\A m \in Mebs : pidPrv'[m] = pidPrv[m] \/ pidPrv'[m] > pidPrv[m]]_vars
  <2> SUFFICES ASSUME EventInv, Next, NEW m \in Mebs
               PROVE  pidPrv'[m] = pidPrv[m] \/ pidPrv'[m] > pidPrv[m]
    OBVIOUS
  <2>1. ASSUME NEW n \in Mebs, NEW p \in Pids, Build(n, p)
        PROVE  pidPrv'[m] = pidPrv[m] \/ pidPrv'[m] > pidPrv[m]
    <3>1. pidPrv[n] < p /\ pidPrv \in [Mebs -> 0 .. MaxPid]
      BY <2>1, BuildsGiven DEF EventInv, TypeInv
    <3>2. pidPrv' = [pidPrv EXCEPT ![n] = p]
      BY <2>1 DEF Build
    <3>3. pidPrv[n] \in Nat /\ p \in Nat
      BY <3>1, Ranges
    <3> QED
      BY <3>1, <3>2, <3>3
  <2>2. ASSUME ~\E n \in Mebs, p \in Pids : Build(n, p) PROVE pidPrv' = pidPrv
    BY <2>2 DEF Next, Request, Distribute, ClientReturns, Decide, Contribute, Reconfigure, meb
  <2> QED
    BY <2>1, <2>2
<1> QED
  BY <1>1, EventInit, EventStep, PTL DEF Spec, PulseIdAdvances

-----------------------------------------------------------------------------
(***************************************************************************)
(* The buffers                                                             *)
(***************************************************************************)

LEMMA AskedForIs ==
  ASSUME TypeInv, NEW m \in Mebs
  PROVE  /\ \A b : b \in AskedFor(m) <=> b \in GivenSet(m) \/ \E t \in Tebs : b \in AskSet(t, m)
         /\ IsFiniteSet(AskedFor(m)) /\ Cardinality(AskedFor(m)) \in Nat
<1>1. ASSUME NEW t \in Tebs, NEW b \in AskSet(t, m) PROVE b \in Bufs
  <2>1. Requests(t, m) \in Seq(Bufs)
    BY RequestsType
  <2> QED
    BY <1>1, <2>1 DEF AskSet, Range
<1>2. IsFiniteSet(Bufs)
  <2>1. 0 \in Int /\ NumBufs - 1 \in Int
    BY MonitoringAssumption
  <2> QED
    BY <2>1, FS_Interval DEF Bufs
<1>3. AskedFor(m) \subseteq Bufs
  BY DEF AskedFor
<1>4. IsFiniteSet(AskedFor(m))
  BY <1>2, <1>3, FS_Subset
<1>5. Cardinality(AskedFor(m)) \in Nat
  BY <1>4, FS_CardinalityType
<1>6. ASSUME NEW b
      PROVE  b \in AskedFor(m) <=> b \in GivenSet(m) \/ \E t \in Tebs : b \in AskSet(t, m)
  BY <1>1 DEF AskedFor, GivenSet, AskSet
<1> QED
  BY <1>4, <1>5, <1>6

\* A MEB whose buffers a step leaves where they are.
LEMMA PlacesKept ==
  ASSUME NEW m \in Mebs, Placed(m),
         free'[m] = free[m], shuffle'[m] = shuffle[m],
         \A t \in Tebs : Requests(t, m)' = Requests(t, m),
         \A b \in Bufs, p \in Pids : Awaits(m, b, p)' <=> Awaits(m, b, p)
  PROVE  /\ Once(m)' /\ Disjoint(m)' /\ Covered(m)'
         /\ AskedFor(m)' = AskedFor(m)
<1>1. FreeSet(m)' = FreeSet(m) /\ \A t \in Tebs : AskSet(t, m)' = AskSet(t, m)
  BY DEF FreeSet, AskSet
<1>2. GivenSet(m)' = GivenSet(m)
  BY DEF GivenSet
<1>3. HeldSet(m)' = HeldSet(m)
  BY DEF HeldSet
<1>4. AskedFor(m)' = AskedFor(m)
  BY DEF AskedFor
<1>5. Once(m)'
  BY DEF Placed, Once
<1>6. Disjoint(m)' /\ Covered(m)'
  BY <1>1, <1>2, <1>3 DEF Placed, Disjoint, Covered
<1> QED
  BY <1>4, <1>5, <1>6

\* A MEB that a step does not concern.
LEMMA PlacedKept ==
  ASSUME NEW m \in Mebs, Placed(m),
         free'[m] = free[m], shuffle'[m] = shuffle[m],
         \A t \in Tebs : Requests(t, m)' = Requests(t, m),
         \A b \in Bufs, p \in Pids : Awaits(m, b, p)' <=> Awaits(m, b, p),
         reqs'[m] = reqs[m], unasked'[m] = unasked[m], dropped'[m] = dropped[m]
  PROVE  Placed(m)'
<1>1. Once(m)' /\ Disjoint(m)' /\ Covered(m)' /\ AskedFor(m)' = AskedFor(m)
  BY PlacesKept
<1> QED
  BY <1>1 DEF Placed, Counted

\* All buffers are free at first.
LEMMA AllFreeIs == Uniq(AllFree) /\ \A b \in Bufs : b \in Range(AllFree)
<1>1. DOMAIN AllFree = 1 .. NumBufs /\ \A i \in 1 .. NumBufs : AllFree[i] = i - 1
  BY DEF AllFree
<1>2. Uniq(AllFree)
  BY <1>1, MonitoringAssumption DEF Uniq
<1>3. ASSUME NEW b \in Bufs PROVE \E i \in 1 .. NumBufs : AllFree[i] = b
  <2>1. b + 1 \in 1 .. NumBufs /\ (b + 1) - 1 = b
    BY MonitoringAssumption DEF Bufs
  <2> QED
    BY <1>1, <2>1
<1> QED
  BY <1>1, <1>2, <1>3 DEF Range

\* Requests are never more than a list of a TEB has room for.
LEMMA NothingCut ==
  ASSUME TypeInv, PlaceInv, NEW t \in Tebs
  PROVE  \A m \in Mebs : Polled(t)[m] = Requests(t, m)
<1> SUFFICES ASSUME NEW m \in Mebs PROVE Polled(t)[m] = Requests(t, m)
  OBVIOUS
<1>1. Requests(t, m) \in Seq(Bufs) /\ Uniq(Requests(t, m))
  BY RequestsType DEF PlaceInv, Placed, Once
<1> QED
  BY <1>1, UniqLen DEF Polled

\* No step but those of Decide and Build gives a buffer to an event or has it
\* back.
LEMMA AwaitsKept ==
  ASSUME UNCHANGED <<result, pidPrv>>
  PROVE  \A m \in Mebs, b \in Bufs, p \in Pids : Awaits(m, b, p)' <=> Awaits(m, b, p)
  BY DEF Awaits

LEMMA PlaceInit ==
  ASSUME Init PROVE PlaceInv
<1> SUFFICES ASSUME NEW m \in Mebs PROVE Placed(m)
  BY DEF PlaceInv
<1>1. Uniq(free[m]) /\ \A b \in Bufs : b \in FreeSet(m)
  BY AllFreeIs DEF Init, FreeSet
<1>2. \A t \in Tebs : Requests(t, m) = << >>
  BY DEF Init, Requests, NoRequests
<1>3. \A t \in Tebs : AskSet(t, m) = {} /\ Uniq(Requests(t, m))
  BY <1>2 DEF AskSet, Range, Uniq
<1>4. \A b \in Bufs, p \in Pids : ~Awaits(m, b, p)
  BY ResultsDiffer DEF Init, Awaits
<1>5. GivenSet(m) = {}
  BY <1>4 DEF GivenSet
<1>6. shuffle[m] = << >>
  BY DEF Init
<1>7. HeldSet(m) = {}
  BY <1>6 DEF HeldSet
<1>8. AskedFor(m) = {}
  BY <1>2, <1>4 DEF AskedFor, Range
<1>9. Once(m)
  BY <1>1, <1>3, <1>4, <1>6 DEF Once
<1>10. Disjoint(m) /\ Covered(m)
  BY <1>1, <1>3, <1>5, <1>7 DEF Disjoint, Covered
<1>11. Counted(m)
  BY <1>8, FS_EmptySet DEF Counted, Init
<1> QED
  BY <1>9, <1>10, <1>11 DEF Placed

LEMMA PlaceRequest ==
  ASSUME EventInv, PlaceInv, TypeInv',
         NEW m \in Mebs, NEW k \in 0 .. NumTebs, Request(m, k)
  PROVE  PlaceInv'
<1>0. UNCHANGED <<result, pidPrv, shuffle, lists, dropped>>
  BY DEF Request
<1>1. TypeInv
  BY DEF EventInv
<1>2. \A n \in Mebs, b \in Bufs, p \in Pids : Awaits(n, b, p)' <=> Awaits(n, b, p)
  BY <1>0, AwaitsKept
<1>3. /\ free \in [Mebs -> Seq(Bufs)] /\ reqs \in [Mebs -> Nat] /\ unasked \in [Mebs -> Nat]
      /\ mrq \in [Tebs -> [Mebs -> Seq(Bufs)]] /\ iTeb \in [Mebs -> Tebs]
  BY <1>1 DEF TypeInv
<1>4. reqs' = [reqs EXCEPT ![m] = @ + 1]
  BY DEF Request
<1>5. Placed(m) /\ \A n \in Mebs : Placed(n)
  BY DEF PlaceInv
<1>6. CASE UNCHANGED <<free, mrq>> /\ unasked' = [unasked EXCEPT ![m] = @ + 1]
  <2> SUFFICES ASSUME NEW n \in Mebs PROVE Placed(n)'
    BY DEF PlaceInv
  <2>1. \A t \in Tebs : Requests(t, n)' = Requests(t, n)
    BY <1>0, <1>6 DEF Requests
  <2>2. Once(n)' /\ Disjoint(n)' /\ Covered(n)' /\ AskedFor(n)' = AskedFor(n)
    BY <1>0, <1>2, <1>5, <1>6, <2>1, PlacesKept
  <2>3. Counted(n)
    BY <1>5 DEF Placed
  <2>4. Cardinality(AskedFor(n)) \in Nat
    BY <1>1, AskedForIs
  <2>5. Counted(n)'
    BY <1>0, <1>3, <1>4, <1>6, <2>2, <2>3, <2>4 DEF Counted
  <2> QED
    BY <2>2, <2>5 DEF Placed
<1>7. ASSUME free[m] # << >>, free' = [free EXCEPT ![m] = AfterFailedPost(m)],
             mrq' = mrq, unasked' = [unasked EXCEPT ![m] = @ + 1]
      PROVE  PlaceInv'
  <2> SUFFICES ASSUME NEW n \in Mebs PROVE Placed(n)'
    BY DEF PlaceInv
  <2>1. \A t \in Tebs : Requests(t, n)' = Requests(t, n)
    BY <1>0, <1>7 DEF Requests
  <2>2. CASE n # m
    <3>1. free'[n] = free[n] /\ reqs'[n] = reqs[n] /\ unasked'[n] = unasked[n]
      BY <1>3, <1>4, <1>7, <2>2
    <3> QED
      BY <1>0, <1>2, <1>5, <2>1, <3>1, PlacedKept
  <2>3. CASE n = m
    <3>1. /\ Tail(free[m]) \in Seq(Bufs) /\ Head(free[m]) \in Bufs
          /\ Range(free[m]) = Range(Tail(free[m])) \cup {Head(free[m])}
          /\ Uniq(Tail(free[m])) /\ Head(free[m]) \notin Range(Tail(free[m]))
      BY <1>3, <1>5, <1>7, TailRange DEF Placed, Once
    <3>2. Range(AfterFailedPost(m)) = Range(free[m]) /\ Uniq(AfterFailedPost(m))
      <4> DEFINE s == Tail(free[m])
      <4>1. /\ Range(Append(s, Head(free[m]))) = Range(s) \cup {Head(free[m])}
            /\ Uniq(Append(s, Head(free[m])))
        <5>1. \A a \in Seq(Bufs), e \in Bufs :
                /\ Range(Append(a, e)) = Range(a) \cup {e}
                /\ Uniq(a) /\ e \notin Range(a) => Uniq(Append(a, e))
          BY AppendRange
        <5> QED
          BY <3>1, <5>1, Zenon
      <4> QED
        BY <3>1, <4>1 DEF AfterFailedPost
    <3>3. free'[m] = AfterFailedPost(m)
      BY <1>3, <1>7
    <3>4. FreeSet(m)' = FreeSet(m) /\ \A t \in Tebs : AskSet(t, m)' = AskSet(t, m)
      BY <2>1, <2>3, <3>2, <3>3 DEF FreeSet, AskSet
    <3>5. GivenSet(m)' = GivenSet(m) /\ HeldSet(m)' = HeldSet(m)
      BY <1>0, <1>2 DEF GivenSet, HeldSet
    <3>6. AskedFor(m)' = AskedFor(m)
      BY <1>2, <2>1, <2>3 DEF AskedFor
    <3>7. Once(m)'
      BY <1>0, <1>2, <1>5, <2>1, <2>3, <3>2, <3>3 DEF Placed, Once
    <3>8. Disjoint(m)' /\ Covered(m)'
      BY <1>5, <3>4, <3>5 DEF Placed, Disjoint, Covered
    <3>9. Counted(m)'
      <4>1. Counted(m) /\ Cardinality(AskedFor(m)) \in Nat
        BY <1>1, <1>5, AskedForIs DEF Placed
      <4> QED
        BY <1>0, <1>3, <1>4, <1>7, <3>6, <4>1 DEF Counted
    <3> QED
      BY <2>3, <3>7, <3>8, <3>9 DEF Placed
  <2> QED
    BY <2>2, <2>3
<1>8. ASSUME NEW u \in Tebs, free[m] # << >>, free' = [free EXCEPT ![m] = Tail(@)],
             mrq' = [mrq EXCEPT ![u][m] = Append(@, Head(free[m]))], unasked' = unasked
      PROVE  PlaceInv'
  <2> SUFFICES ASSUME NEW n \in Mebs PROVE Placed(n)'
    BY DEF PlaceInv
  <2>1. \A t \in Tebs : t # u \/ n # m => Requests(t, n)' = Requests(t, n)
    BY <1>0, <1>3, <1>8 DEF Requests
  <2>2. CASE n # m
    <3>1. free'[n] = free[n] /\ reqs'[n] = reqs[n] /\ unasked'[n] = unasked[n]
      BY <1>3, <1>4, <1>8, <2>2
    <3> QED
      BY <1>0, <1>2, <1>5, <2>1, <2>2, <3>1, PlacedKept
  <2>3. CASE n = m
    <3> DEFINE b == Head(free[m])
    <3>1. /\ Tail(free[m]) \in Seq(Bufs) /\ b \in Bufs
          /\ Range(free[m]) = Range(Tail(free[m])) \cup {b}
          /\ Uniq(Tail(free[m])) /\ b \notin Range(Tail(free[m]))
      BY <1>3, <1>5, <1>8, TailRange DEF Placed, Once
    <3>2. free'[m] = Tail(free[m]) /\ mrq'[u][m] = Append(mrq[u][m], b)
      BY <1>3, <1>8
    <3> HIDE DEF b
    <3>3. FreeSet(m)' = FreeSet(m) \ {b} /\ b \in FreeSet(m)
      BY <3>1, <3>2 DEF FreeSet
    <3>4. Requests(u, m)' = Append(Requests(u, m), b)
      <4>1. lists[u][m] \in Seq(Bufs) /\ mrq[u][m] \in Seq(Bufs)
        BY <1>1, RequestsType
      <4>2. lists[u][m] \o Append(mrq[u][m], b) = Append(lists[u][m] \o mrq[u][m], b)
        <5>1. \A a, s \in Seq(Bufs), e \in Bufs : a \o Append(s, e) = Append(a \o s, e)
          BY ConcatAppend
        <5> QED
          BY <3>1, <4>1, <5>1, Zenon
      <4> QED
        BY <1>0, <3>2, <4>2 DEF Requests
    <3>5. b \notin AskSet(u, m) /\ Uniq(Requests(u, m)) /\ Requests(u, m) \in Seq(Bufs)
      BY <1>1, <1>5, <3>3, RequestsType DEF Placed, Disjoint, Once
    <3>6. /\ AskSet(u, m)' = AskSet(u, m) \cup {b} /\ Uniq(Requests(u, m))'
      BY <3>1, <3>4, <3>5, AppendRange DEF AskSet
    <3>7. \A t \in Tebs : t # u => AskSet(t, m)' = AskSet(t, m)
      BY <2>1, <2>3 DEF AskSet
    <3>8. GivenSet(m)' = GivenSet(m) /\ HeldSet(m)' = HeldSet(m)
      BY <1>0, <1>2 DEF GivenSet, HeldSet
    <3>9. Once(m)'
      <4>1. \A t \in Tebs : Uniq(Requests(t, m))'
        BY <1>5, <2>1, <2>3, <3>6 DEF Placed, Once
      <4> QED
        BY <1>0, <1>2, <1>5, <3>1, <3>2, <4>1 DEF Placed, Once
    <3>10. Disjoint(m)' /\ Covered(m)'
      BY <1>5, <3>3, <3>6, <3>7, <3>8 DEF Placed, Disjoint, Covered
    <3>11. Counted(m)'
      <4>2. \A c : c \in AskedFor(m) <=> c \in GivenSet(m) \/ \E t \in Tebs : c \in AskSet(t, m)
        BY <1>1, AskedForIs
      <4>3. AskedFor(m)' = AskedFor(m) \cup {b}
        BY <1>2, <3>1, <3>6, <3>7 DEF AskedFor, AskSet
      <4>4. b \notin AskedFor(m)
        BY <1>5, <3>3, <4>2 DEF Placed, Disjoint
      <4>5. IsFiniteSet(AskedFor(m)) /\ Cardinality(AskedFor(m)) \in Nat
        BY <1>1, AskedForIs
      <4>6. Cardinality(AskedFor(m)') = Cardinality(AskedFor(m)) + 1
        BY <4>3, <4>4, <4>5, FS_AddElement
      <4>7. Counted(m)
        BY <1>5 DEF Placed
      <4> QED
        BY <1>0, <1>3, <1>4, <1>8, <4>5, <4>6, <4>7 DEF Counted
    <3> QED
      BY <2>3, <3>9, <3>10, <3>11 DEF Placed
  <2> QED
    BY <2>2, <2>3
<1>9. (iTeb[m] + k) % NumTebs \in Tebs
  <2>1. iTeb[m] \in Nat /\ k \in Nat
    <3>1. iTeb[m] \in Tebs
      BY <1>3
    <3>2. NumTebs \in Nat
      BY MonitoringAssumption
    <3>3. k \in Nat
      BY <3>2
    <3> QED
      BY <3>1, <3>3, Ranges
  <2>2. iTeb[m] + k \in Nat
    BY <2>1
  <2> QED
    BY <2>2, ModRange
<1>10. CASE free[m] = << >>
  BY <1>6, <1>10 DEF Request
<1>11. CASE free[m] # << >> /\ k = NumTebs
  BY <1>7, <1>11 DEF Request
<1>12. CASE free[m] # << >> /\ k # NumTebs
  <2>1. /\ free' = [free EXCEPT ![m] = Tail(@)] /\ unasked' = unasked
        /\ mrq' = [mrq EXCEPT ![(iTeb[m] + k) % NumTebs][m] = Append(@, Head(free[m]))]
    BY <1>12 DEF Request
  <2> QED
    BY <1>8, <1>9, <1>12, <2>1
<1> QED
  BY <1>10, <1>11, <1>12

\* Where a MEB has given back a buffer that held an event, or waited for one.
LEMMA DeletedRange ==
  ASSUME TypeInv, NEW m \in Mebs, NEW b \in Bufs, b \notin FreeSet(m), Uniq(free[m])
  PROVE  Range(Deleted(m, b)) = FreeSet(m) \cup {b} /\ Uniq(Deleted(m, b))
<1>1. free[m] \in Seq(Bufs)
  BY DEF TypeInv
<1>2. Deleted(m, b) = Append(free[m], b)
  BY DEF Deleted, FreeSet
<1> QED
  BY <1>1, <1>2, AppendRange DEF FreeSet

LEMMA PlaceDistribute ==
  ASSUME EventInv, PlaceInv, NEW m \in Mebs, Distribute(m)
  PROVE  PlaceInv'
<1>0. UNCHANGED <<result, pidPrv, mrq, lists, reqs, unasked, dropped>>
  BY DEF Distribute, teb
<1>1. TypeInv
  BY DEF EventInv
<1>2. \A n \in Mebs, b \in Bufs, p \in Pids : Awaits(n, b, p)' <=> Awaits(n, b, p)
  BY <1>0, AwaitsKept
<1>3. free \in [Mebs -> Seq(Bufs)] /\ shuffle \in [Mebs -> Seq(Bufs \X Pids)]
  BY <1>1 DEF TypeInv
<1>4. \A n \in Mebs, t \in Tebs : Requests(t, n)' = Requests(t, n)
  BY <1>0 DEF Requests
<1>5. \A n \in Mebs : Placed(n)
  BY DEF PlaceInv
<1> SUFFICES ASSUME NEW n \in Mebs PROVE Placed(n)'
  BY DEF PlaceInv
<1>6. CASE n # m
  <2>1. free'[n] = free[n] /\ shuffle'[n] = shuffle[n]
    BY <1>3, <1>6 DEF Distribute
  <2> QED
    BY <1>0, <1>2, <1>4, <1>5, <2>1, PlacedKept
<1>7. CASE n = m
  <2> DEFINE s == shuffle[m]
             b == Head(s)[1]
  <2>1. s \in Seq(Bufs \X Pids) /\ s # << >>
    BY <1>3 DEF Distribute
  <2>2. free'[m] = Deleted(m, b) /\ shuffle'[m] = Tail(s)
    BY <1>3 DEF Distribute
  <2>3. /\ DOMAIN s = 1 .. Len(s) /\ Len(s) \in Nat /\ Len(s) > 0
        /\ DOMAIN Tail(s) = 1 .. Len(s) - 1
        /\ \A i \in 1 .. Len(s) - 1 : Tail(s)[i] = s[i + 1]
    BY <2>1
  <2>4. Head(s) = s[1] /\ s[1] \in Bufs \X Pids
    BY <2>1
  <2>5. b \in Bufs /\ b = s[1][1]
    BY <2>4
  <2>6. \A i, j \in 1 .. Len(s) : s[i][1] = s[j][1] => i = j
    BY <1>5, <2>3 DEF Placed, Once
  <2> HIDE DEF b
  <2>7. \A c \in Bufs : c \in HeldSet(m) <=> \E i \in 1 .. Len(s) : s[i][1] = c
    BY <2>3 DEF HeldSet
  <2>8. \A c \in Bufs : c \in HeldSet(m)' <=> \E i \in 1 .. Len(s) - 1 : s[i + 1][1] = c
    <3>1. \A c \in Bufs : c \in HeldSet(m)' <=>
            \E i \in 1 .. Len(s) - 1 : Tail(s)[i][1] = c
      BY <2>2, <2>3 DEF HeldSet
    <3> QED
      BY <2>3, <3>1
  <2>9. b \in HeldSet(m) /\ b \notin HeldSet(m)'
    BY <2>3, <2>5, <2>6, <2>7, <2>8
  <2>10. \A c \in Bufs : c # b => (c \in HeldSet(m)' <=> c \in HeldSet(m))
    <3> SUFFICES ASSUME NEW c \in Bufs, c # b PROVE c \in HeldSet(m)' <=> c \in HeldSet(m)
      OBVIOUS
    <3>1. ASSUME NEW i \in 1 .. Len(s), s[i][1] = c PROVE c \in HeldSet(m)'
      <4>1. i # 1
        BY <2>5, <3>1
      <4>2. i - 1 \in 1 .. Len(s) - 1 /\ (i - 1) + 1 = i
        BY <2>3, <4>1
      <4> QED
        BY <2>8, <3>1, <4>2
    <3>2. ASSUME NEW i \in 1 .. Len(s) - 1, s[i + 1][1] = c PROVE c \in HeldSet(m)
      <4>1. i + 1 \in 1 .. Len(s)
        BY <2>3
      <4> QED
        BY <2>7, <3>2, <4>1
    <3> QED
      BY <2>7, <2>8, <3>1, <3>2
  <2>11. HeldSet(m) \subseteq Bufs /\ HeldSet(m)' \subseteq Bufs
    BY DEF HeldSet
  <2>12. b \notin FreeSet(m) /\ Uniq(free[m])
    BY <1>5, <2>9 DEF Placed, Disjoint, Once
  <2>13. FreeSet(m)' = FreeSet(m) \cup {b} /\ Uniq(free'[m])
    BY <1>1, <2>2, <2>5, <2>12, DeletedRange DEF FreeSet
  <2>14. GivenSet(m)' = GivenSet(m) /\ \A t \in Tebs : AskSet(t, m)' = AskSet(t, m)
    BY <1>2, <1>4 DEF GivenSet, AskSet
  <2>15. Once(m)'
    <3>1. ASSUME NEW i \in DOMAIN shuffle'[m], NEW j \in DOMAIN shuffle'[m],
                 shuffle'[m][i][1] = shuffle'[m][j][1]
          PROVE  i = j
      <4>1. i \in 1 .. Len(s) - 1 /\ j \in 1 .. Len(s) - 1 /\ s[i + 1][1] = s[j + 1][1]
        BY <2>2, <2>3, <3>1
      <4>2. i + 1 \in 1 .. Len(s) /\ j + 1 \in 1 .. Len(s)
        BY <2>3, <4>1
      <4>3. i + 1 = j + 1
        BY <2>6, <4>1, <4>2
      <4> QED
        BY <4>1, <4>3
    <3> QED
      BY <1>2, <1>4, <1>5, <2>13, <3>1 DEF Placed, Once
  <2>16. Disjoint(m)' /\ Covered(m)'
    <3>1. HeldSet(m)' = HeldSet(m) \ {b}
      BY <2>9, <2>10, <2>11
    <3> QED
      BY <1>5, <2>9, <2>13, <2>14, <3>1 DEF Placed, Disjoint, Covered
  <2>17. Counted(m)'
    <3>1. AskedFor(m)' = AskedFor(m)
      BY <1>2, <1>4 DEF AskedFor
    <3> QED
      BY <1>0, <1>5, <3>1 DEF Placed, Counted
  <2> QED
    BY <1>7, <2>15, <2>16, <2>17 DEF Placed
<1> QED
  BY <1>6, <1>7

\* An event that a TEB decides on is later than all that the MEBs have built.
LEMMA DecidedLater ==
  ASSUME EventInv, NEW t \in Tebs, NEW p \in Pids, Decide(t, p), NEW m \in Mebs
  PROVE  p > pidPrv[m]
<1>1. Common \in Drps /\ Common \in groups[p] /\ pidPrv[m] <= at[Common]
  BY MonitoringAssumption DEF EventInv, GroupsInv, PrvInv
<1>2. ~(p <= at[Common])
  BY <1>1 DEF Decide, EventInv, DoneInv
<1>3. p \in Nat /\ pidPrv[m] \in Nat /\ at[Common] \in Nat
  BY <1>1, Ranges DEF EventInv, TypeInv
<1> QED
  BY <1>1, <1>2, <1>3

LEMMA PlaceDecide ==
  ASSUME EventInv, PlaceInv, NEW t \in Tebs, NEW p \in Pids, Decide(t, p)
  PROVE  PlaceInv'
<1>0. UNCHANGED <<pidPrv, free, shuffle, reqs, unasked, dropped>>
  BY DEF Decide, meb, shm
<1>1. TypeInv
  BY DEF EventInv
<1>2. /\ mrq \in [Tebs -> [Mebs -> Seq(Bufs)]] /\ lists \in [Tebs -> [Mebs -> Seq(Bufs)]]
      /\ DOMAIN result = Pids /\ want[p] \subseteq Mebs
  BY <1>1 DEF TypeInv
<1>3. result[p] = << >>
  BY DEF Decide
<1>4. \A n \in Mebs : Placed(n)
  BY DEF PlaceInv
<1>5. ASSUME result' = [result EXCEPT ![p] = <<"no">>]
      PROVE  \A n \in Mebs, b \in Bufs, q \in Pids : Awaits(n, b, q)' <=> Awaits(n, b, q)
  <2> SUFFICES ASSUME NEW n \in Mebs, NEW b \in Bufs, NEW q \in Pids
               PROVE  result'[q] = <<"yes", n, b>> <=> result[q] = <<"yes", n, b>>
    BY <1>0 DEF Awaits
  <2>1. CASE q = p
    BY <1>2, <1>3, <1>5, <2>1, ResultsDiffer
  <2>2. CASE q # p
    BY <1>2, <1>5, <2>2
  <2> QED
    BY <2>1, <2>2
<1>6. CASE want[p] = {}
  <2>1. UNCHANGED <<mrq, lists>> /\ result' = [result EXCEPT ![p] = <<"no">>]
    BY <1>6 DEF Decide
  <2>2. \A n \in Mebs, u \in Tebs : Requests(u, n)' = Requests(u, n)
    BY <2>1 DEF Requests
  <2>3. ASSUME NEW n \in Mebs PROVE Placed(n)'
    BY <1>0, <1>4, <1>5, <2>1, <2>2, PlacedKept
  <2> QED
    BY <2>3 DEF PlaceInv
<1>7. CASE want[p] # {}
  <2>1. Monitor(t, p)
    BY <1>7 DEF Decide
  <2>2. mrq' = [mrq EXCEPT ![t] = NoRequests]
    BY <1>1, <2>1, MonitorCases
  <2>3. /\ Polled(t) \in [Mebs -> Seq(Bufs)]
        /\ \A n \in Mebs : Polled(t)[n] = Requests(t, n)
    BY <1>1, NothingCut, PolledType
  <2>4. \A n \in Mebs, u \in Tebs : mrq'[u][n] = IF u = t THEN << >> ELSE mrq[u][n]
    BY <1>2, <2>2 DEF NoRequests
  <2>5. CASE /\ lists' = [lists EXCEPT ![t] = Polled(t)]
             /\ result' = [result EXCEPT ![p] = <<"no">>]
    <3>1. ASSUME NEW n \in Mebs, NEW u \in Tebs PROVE Requests(u, n)' = Requests(u, n)
      <4>1. CASE u # t
        BY <1>2, <2>4, <2>5, <4>1 DEF Requests
      <4>2. CASE u = t
        <5>1. Requests(t, n)' = Requests(t, n) \o << >>
          BY <1>2, <2>3, <2>4, <2>5, <4>2 DEF Requests
        <5>2. Requests(t, n) \in Seq(Bufs)
          BY <1>1, RequestsType
        <5> QED
          BY <4>2, <5>1, <5>2, ConcatEmpty
      <4> QED
        BY <4>1, <4>2
    <3>2. ASSUME NEW n \in Mebs PROVE Placed(n)'
      BY <1>0, <1>4, <1>5, <2>5, <3>1, PlacedKept
    <3> QED
      BY <3>2 DEF PlaceInv
  <2>6. ASSUME NEW m \in want[p], Polled(t)[m] # << >>,
               lists' = [lists EXCEPT ![t] = [Polled(t) EXCEPT ![m] = Tail(@)]],
               result' = [result EXCEPT ![p] = <<"yes", m, Head(Polled(t)[m])>>]
        PROVE  PlaceInv'
    <3> DEFINE s == Requests(t, m)
               b == Head(s)
    <3>1. m \in Mebs /\ s \in Seq(Bufs) /\ s # << >> /\ Uniq(s)
      BY <1>1, <1>2, <1>4, <2>3, <2>6, RequestsType DEF Placed, Once
    <3>2. /\ Tail(s) \in Seq(Bufs) /\ b \in Bufs
          /\ Range(s) = Range(Tail(s)) \cup {b}
          /\ Uniq(Tail(s)) /\ b \notin Range(Tail(s))
      BY <3>1, TailRange
    <3>3. result' = [result EXCEPT ![p] = <<"yes", m, b>>]
      BY <2>3, <2>6, <3>1
    <3>4. ASSUME NEW n \in Mebs, NEW u \in Tebs, n # m \/ u # t
          PROVE  Requests(u, n)' = Requests(u, n)
      <4>1. CASE u # t
        BY <1>2, <2>4, <2>6, <4>1 DEF Requests
      <4>2. CASE u = t
        <5>1. lists'[t][n] = Requests(t, n)
          BY <1>2, <2>3, <2>6, <3>4, <4>2
        <5>2. Requests(t, n)' = Requests(t, n) \o << >>
          BY <2>4, <5>1 DEF Requests
        <5>3. Requests(t, n) \in Seq(Bufs)
          BY <1>1, RequestsType
        <5> QED
          BY <4>2, <5>2, <5>3, ConcatEmpty
      <4> QED
        BY <4>1, <4>2
    <3>5. Requests(t, m)' = Tail(s)
      <4>1. lists'[t][m] = Tail(s)
        BY <1>2, <2>3, <2>6, <3>1
      <4>2. Requests(t, m)' = Tail(s) \o << >>
        BY <2>4, <3>1, <4>1 DEF Requests
      <4> QED
        BY <3>2, <4>2, ConcatEmpty
    <3> HIDE DEF b
    <3>6. ASSUME NEW n \in Mebs, NEW c \in Bufs, NEW q \in Pids
          PROVE  Awaits(n, c, q)' <=> Awaits(n, c, q) \/ (n = m /\ c = b /\ q = p)
      <4>1. CASE q # p
        BY <1>0, <1>2, <3>3, <4>1 DEF Awaits
      <4>2. CASE q = p
        <5>1. ~Awaits(n, c, p)
          BY <1>3, ResultsDiffer DEF Awaits
        <5>2. result'[p] = <<"yes", n, c>> <=> n = m /\ c = b
          BY <1>2, <3>3
        <5>3. p > pidPrv[m]
          BY <3>1, DecidedLater
        <5> QED
          BY <1>0, <4>2, <5>1, <5>2, <5>3 DEF Awaits
      <4> QED
        BY <4>1, <4>2
    <3>7. ASSUME NEW n \in Mebs, n # m PROVE Placed(n)'
      BY <1>0, <1>4, <3>4, <3>6, <3>7, PlacedKept
    <3>8. Placed(m)'
      <4>1. AskSet(t, m)' = AskSet(t, m) \ {b} /\ b \in AskSet(t, m)
        BY <3>2, <3>5 DEF AskSet
      <4>2. \A u \in Tebs : u # t => AskSet(u, m)' = AskSet(u, m)
        BY <3>1, <3>4 DEF AskSet
      <4>3. FreeSet(m)' = FreeSet(m) /\ HeldSet(m)' = HeldSet(m)
        BY <1>0 DEF FreeSet, HeldSet
      <4>4. GivenSet(m)' = GivenSet(m) \cup {b}
        <5>1. \A c \in Bufs : (\E q \in Pids : Awaits(m, c, q)') <=>
                              (\E q \in Pids : Awaits(m, c, q)) \/ c = b
          BY <3>1, <3>6
        <5> QED
          BY <3>2, <5>1 DEF GivenSet
      <4>5. b \notin GivenSet(m)
        BY <1>4, <3>1, <4>1 DEF Placed, Disjoint
      <4>6. Once(m)'
        <5>1. \A u \in Tebs : Uniq(Requests(u, m))'
          BY <1>4, <3>1, <3>2, <3>4, <3>5 DEF Placed, Once
        <5>2. \A q \in Pids : ~Awaits(m, b, q)
          BY <3>2, <4>5 DEF GivenSet
        <5>3. \A c \in Bufs, q, x \in Pids : Awaits(m, c, q)' /\ Awaits(m, c, x)' => q = x
          BY <1>4, <3>1, <3>6, <5>2 DEF Placed, Once
        <5> QED
          BY <1>0, <1>4, <3>1, <5>1, <5>3 DEF Placed, Once
      <4>7. Disjoint(m)' /\ Covered(m)'
        BY <1>4, <3>1, <4>1, <4>2, <4>3, <4>4 DEF Placed, Disjoint, Covered
      <4>8. Counted(m)'
        <5>1. AskedFor(m)' = AskedFor(m)
          <6>1. \A c \in Bufs : (\E u \in Tebs : c \in AskSet(u, m)') \/ c \in GivenSet(m)' <=>
                                (\E u \in Tebs : c \in AskSet(u, m)) \/ c \in GivenSet(m)
            BY <4>1, <4>2, <4>4
          <6> QED
            BY <6>1 DEF AskedFor, AskSet, GivenSet
        <5> QED
          BY <1>0, <1>4, <3>1, <5>1 DEF Placed, Counted
      <4> QED
        BY <4>6, <4>7, <4>8 DEF Placed
    <3> QED
      BY <3>7, <3>8 DEF PlaceInv
  <2>7. \/ /\ lists' = [lists EXCEPT ![t] = Polled(t)]
           /\ result' = [result EXCEPT ![p] = <<"no">>]
        \/ \E m \in want[p] :
             /\ Polled(t)[m] # << >>
             /\ lists' = [lists EXCEPT ![t] = [Polled(t) EXCEPT ![m] = Tail(@)]]
             /\ result' = [result EXCEPT ![p] = <<"yes", m, Head(Polled(t)[m])>>]
    BY <1>1, <2>1, MonitorCases
  <2> QED
    BY <2>5, <2>6, <2>7
<1> QED
  BY <1>6, <1>7

\* When event p is built, every other event that has a buffer still waits.
LEMMA AwaitsBuild ==
  ASSUME EventInv, NEW m \in Mebs, NEW p \in Pids, Build(m, p)
  PROVE  \A n \in Mebs, b \in Bufs, q \in Pids :
           Awaits(n, b, q)' <=> Awaits(n, b, q) /\ ~(n = m /\ q = p)
<1> SUFFICES ASSUME NEW n \in Mebs, NEW b \in Bufs, NEW q \in Pids
             PROVE  Awaits(n, b, q)' <=> Awaits(n, b, q) /\ ~(n = m /\ q = p)
  OBVIOUS
<1>1. result' = result /\ pidPrv' = [pidPrv EXCEPT ![m] = p]
  BY DEF Build, teb
<1>2. pidPrv \in [Mebs -> 0 .. MaxPid]
  BY DEF EventInv, TypeInv
<1>3. CASE n # m
  BY <1>1, <1>2, <1>3 DEF Awaits
<1>4. CASE n = m
  <2>1. pidPrv[m] < p /\ pidPrv[m] \in Nat /\ p \in Nat /\ q \in Nat
    BY <1>2, BuildsGiven, Ranges
  <2>2. Awaits(m, b, q) => p <= q
    <3>1. ASSUME Awaits(m, b, q) PROVE GoesTo(m, q) /\ pidPrv[m] < q
      BY <2>1, <3>1 DEF Awaits, GoesTo
    <3> QED
      BY <3>1, BuildsNext
  <2>3. Awaits(m, b, q)' <=> result[q] = <<"yes", m, b>> /\ q > p
    BY <1>1, <1>2 DEF Awaits
  <2>4. q > p <=> p <= q /\ q # p
    BY <2>1
  <2>5. q > p => q > pidPrv[m]
    BY <2>1
  <2> QED
    BY <1>4, <2>2, <2>3, <2>4, <2>5 DEF Awaits
<1> QED
  BY <1>3, <1>4

LEMMA PlaceBuild ==
  ASSUME EventInv, PlaceInv, NEW m \in Mebs, NEW p \in Pids, Build(m, p)
  PROVE  PlaceInv'
<1>0. UNCHANGED <<result, mrq, lists, unasked>>
  BY DEF Build, teb
<1>1. TypeInv
  BY DEF EventInv
<1>2. \A n \in Mebs, b \in Bufs, q \in Pids :
        Awaits(n, b, q)' <=> Awaits(n, b, q) /\ ~(n = m /\ q = p)
  BY AwaitsBuild
<1>3. /\ free \in [Mebs -> Seq(Bufs)] /\ shuffle \in [Mebs -> Seq(Bufs \X Pids)]
      /\ reqs \in [Mebs -> Nat] /\ out \in [Mebs -> Nat] /\ unasked \in [Mebs -> Nat]
      /\ dropped \in [Mebs -> SUBSET Pids]
  BY <1>1 DEF TypeInv
<1>4. \A n \in Mebs, t \in Tebs : Requests(t, n)' = Requests(t, n)
  BY <1>0 DEF Requests
<1>5. \A n \in Mebs : Placed(n)
  BY DEF PlaceInv
<1> SUFFICES ASSUME NEW n \in Mebs PROVE Placed(n)'
  BY DEF PlaceInv
<1>6. CASE p \in trans
  <2>1. UNCHANGED <<free, shuffle, reqs, dropped>>
    BY <1>6 DEF Build
  <2>2. \A b \in Bufs : result[p] # <<"yes", m, b>>
    BY <1>6, ResultsDiffer DEF EventInv, GroupsInv
  <2>3. \A b \in Bufs : ~Awaits(m, b, p)
    BY <2>2 DEF Awaits
  <2>4. \A b \in Bufs, q \in Pids : Awaits(n, b, q)' <=> Awaits(n, b, q)
    BY <1>2, <2>3
  <2> QED
    BY <1>0, <1>4, <1>5, <2>1, <2>4, PlacedKept
<1>7. CASE p \notin trans
  <2>1. PICK b \in Bufs : result[p] = <<"yes", m, b>>
    BY <1>7, BuildsGiven
  <2>2. Awaits(m, b, p)
    BY <2>1, BuildsGiven, Ranges DEF Awaits, EventInv, TypeInv
  <2>3. b \in GivenSet(m) /\ b \in AskedFor(m)
    BY <2>2 DEF GivenSet, AskedFor
  <2>4. /\ IsFiniteSet(AskedFor(m)) /\ Cardinality(AskedFor(m)) \in Nat
        /\ \A c : c \in AskedFor(m) <=> c \in GivenSet(m) \/ \E t \in Tebs : c \in AskSet(t, m)
    BY <1>1, AskedForIs
  <2>5. /\ Cardinality(AskedFor(m) \ {b}) = Cardinality(AskedFor(m)) - 1
        /\ Cardinality(AskedFor(m) \ {b}) \in Nat
    <3>1. IsFiniteSet(AskedFor(m) \ {b})
      BY <2>4, FS_Subset
    <3> QED
      BY <2>3, <2>4, <3>1, FS_RemoveElement, FS_CardinalityType
  <2>6. reqs[m] = unasked[m] + Cardinality(AskedFor(m)) /\ dropped[m] = {}
    BY <1>5 DEF Placed, Counted
  <2>7. reqs[m] > 0 /\ reqs[m] + out[m] > 0
    BY <1>3, <2>4, <2>5, <2>6, SMTT(30)
  <2>8. result[p][3] = b
    BY <2>1
  <2>9. /\ shuffle' = [shuffle EXCEPT ![m] = Append(@, <<b, p>>)]
        /\ reqs' = [reqs EXCEPT ![m] = @ - 1]
        /\ UNCHANGED <<free, dropped>>
    BY <1>7, <2>7, <2>8 DEF Build
  <2>10. CASE n # m
    <3>1. shuffle'[n] = shuffle[n] /\ reqs'[n] = reqs[n]
      BY <1>3, <2>9, <2>10
    <3>2. \A c \in Bufs, q \in Pids : Awaits(n, c, q)' <=> Awaits(n, c, q)
      BY <1>2, <2>10
    <3> QED
      BY <1>0, <1>4, <1>5, <2>9, <3>1, <3>2, PlacedKept
  <2>11. CASE n = m
    <3> DEFINE s == shuffle[m]
    <3>1. s \in Seq(Bufs \X Pids) /\ shuffle'[m] = Append(s, <<b, p>>)
      BY <1>3, <2>9
    <3>2. /\ DOMAIN s = 1 .. Len(s) /\ Len(s) \in Nat
          /\ DOMAIN shuffle'[m] = 1 .. Len(s) + 1
          /\ \A i \in 1 .. Len(s) : shuffle'[m][i] = s[i]
          /\ shuffle'[m][Len(s) + 1] = <<b, p>>
      BY <3>1
    <3>3. \A i \in DOMAIN shuffle'[m] : i = Len(s) + 1 \/ i \in 1 .. Len(s)
      BY <3>2
    <3>4. HeldSet(m)' = HeldSet(m) \cup {b}
      <4>1. \A c \in Bufs : (\E i \in DOMAIN shuffle'[m] : shuffle'[m][i][1] = c) <=>
                            (\E i \in DOMAIN s : s[i][1] = c) \/ c = b
        <5>1. ASSUME NEW c \in Bufs, NEW i \in DOMAIN shuffle'[m], shuffle'[m][i][1] = c
              PROVE  (\E j \in DOMAIN s : s[j][1] = c) \/ c = b
          BY <3>2, <3>3, <5>1
        <5>2. ASSUME NEW c \in Bufs, NEW i \in DOMAIN s, s[i][1] = c
              PROVE  i \in DOMAIN shuffle'[m] /\ shuffle'[m][i][1] = c
          BY <3>2, <5>2
        <5>3. Len(s) + 1 \in DOMAIN shuffle'[m] /\ shuffle'[m][Len(s) + 1][1] = b
          BY <3>2
        <5> QED
          BY <5>1, <5>2, <5>3
      <4> QED
        BY <4>1 DEF HeldSet
    <3>5. FreeSet(m)' = FreeSet(m) /\ \A t \in Tebs : AskSet(t, m)' = AskSet(t, m)
      BY <1>4, <2>9 DEF FreeSet, AskSet
    <3>6. GivenSet(m)' = GivenSet(m) \ {b}
      <4>1. \A c \in Bufs : Awaits(m, c, p) => c = b
        BY <2>1 DEF Awaits
      <4>2. \A q \in Pids : Awaits(m, b, q) => q = p
        BY <1>5, <2>2 DEF Placed, Once
      <4> QED
        BY <1>2, <4>1, <4>2 DEF GivenSet
    <3>7. b \notin HeldSet(m) /\ \A t \in Tebs : b \notin AskSet(t, m)
      BY <1>5, <2>3 DEF Placed, Disjoint
    <3>8. Once(m)'
      <4>1. ASSUME NEW i \in DOMAIN shuffle'[m], NEW j \in DOMAIN shuffle'[m],
                   shuffle'[m][i][1] = shuffle'[m][j][1]
            PROVE  i = j
        <5>1. \A k \in 1 .. Len(s) : shuffle'[m][k] = s[k] /\ s[k][1] # b
          BY <3>2, <3>7 DEF HeldSet
        <5>2. shuffle'[m][Len(s) + 1][1] = b
          BY <3>2
        <5>3. CASE i \in 1 .. Len(s) /\ j \in 1 .. Len(s)
          BY <1>5, <3>2, <4>1, <5>1, <5>3 DEF Placed, Once
        <5> QED
          BY <3>3, <4>1, <5>1, <5>2, <5>3
      <4> QED
        BY <1>2, <1>4, <1>5, <2>9, <4>1 DEF Placed, Once
    <3>9. Disjoint(m)' /\ Covered(m)'
      BY <1>5, <2>3, <3>4, <3>5, <3>6, <3>7 DEF Placed, Disjoint, Covered
    <3>10. Counted(m)'
      <4>1. AskedFor(m)' = AskedFor(m) \ {b}
        <5>1. \A c \in Bufs : (\E t \in Tebs : c \in AskSet(t, m)') \/ c \in GivenSet(m)' <=>
                c # b /\ ((\E t \in Tebs : c \in AskSet(t, m)) \/ c \in GivenSet(m))
          BY <3>5, <3>6, <3>7
        <5> QED
          BY <5>1 DEF AskedFor, AskSet, GivenSet
      <4>2. reqs'[m] = reqs[m] - 1
        BY <1>3, <2>9
      <4> QED
        BY <1>0, <1>3, <2>4, <2>5, <2>6, <2>9, <4>1, <4>2, SMTT(30) DEF Counted
    <3> QED
      BY <2>11, <3>8, <3>9, <3>10 DEF Placed
  <2> QED
    BY <2>10, <2>11
<1> QED
  BY <1>6, <1>7

\* With a new connection everything starts again: nothing is on its way, so no
\* event waits for a buffer.
LEMMA PlaceReconfigure ==
  ASSUME EventInv, PlaceInv, NEW way \in Ways, Reconfigure(way), way = "connect"
  PROVE  PlaceInv'
<1> SUFFICES ASSUME NEW m \in Mebs PROVE Placed(m)'
  BY DEF PlaceInv
<1>1. Uniq(free'[m]) /\ \A b \in Bufs : b \in FreeSet(m)'
  BY AllFreeIs DEF Reconfigure, FreeSet
<1>2. \A t \in Tebs : Requests(t, m)' = << >>
  BY DEF Reconfigure, Lists, Requests, NoRequests
<1>3. \A t \in Tebs : AskSet(t, m)' = {} /\ Uniq(Requests(t, m))'
  BY <1>2 DEF AskSet, Range, Uniq
<1>4. \A b \in Bufs, p \in Pids : ~Awaits(m, b, p)'
  <2> SUFFICES ASSUME NEW b \in Bufs, NEW p \in Pids, result[p] = <<"yes", m, b>>,
                      p > pidPrv[m]
               PROVE  FALSE
    BY DEF Reconfigure, Awaits
  <2>1. Common \in Drps /\ Common \in groups[p]
    BY MonitoringAssumption DEF EventInv, GroupsInv
  <2>2. p <= at[Common]
    BY ResultsDiffer, SMTT(30) DEF Reconfigure
  <2>3. pidPrv[m] < p
    BY Ranges DEF EventInv, TypeInv
  <2>4. <<Common, p>> \in arrived[m]
    BY <2>1, <2>2, <2>3 DEF EventInv, ArrInv, GoesTo
  <2> QED
    BY <2>4 DEF Reconfigure
<1>5. GivenSet(m)' = {}
  BY <1>4 DEF GivenSet
<1>6. shuffle'[m] = << >>
  BY DEF Reconfigure
<1>7. HeldSet(m)' = {}
  BY <1>6 DEF HeldSet
<1>8. AskedFor(m)' = {}
  BY <1>2, <1>4 DEF AskedFor, Range
<1>9. Once(m)'
  BY <1>1, <1>3, <1>4, <1>6 DEF Once
<1>10. Disjoint(m)' /\ Covered(m)'
  BY <1>1, <1>3, <1>5, <1>7 DEF Disjoint, Covered
<1>11. Counted(m)'
  BY <1>8, FS_EmptySet DEF Counted, Reconfigure, PlaceInv, Placed
<1> QED
  BY <1>9, <1>10, <1>11 DEF Placed

-----------------------------------------------------------------------------
(***************************************************************************)
(* What is in the buffers                                                  *)
(***************************************************************************)

Contents == RegionInv /\ HeldInv /\ HeldIntact

LEMMA ContentsKept ==
  ASSUME Contents, UNCHANGED <<groups, result, region, arrived, shuffle>>
  PROVE  Contents'
  BY DEF Contents, RegionInv, HeldInv, HeldIntact

LEMMA ContentsDistribute ==
  ASSUME EventInv, Contents, NEW m \in Mebs, Distribute(m)
  PROVE  Contents'
<1>1. UNCHANGED <<groups, result, region, arrived>>
  BY DEF Distribute, pulse, teb
<1>2. /\ shuffle \in [Mebs -> Seq(Bufs \X Pids)] /\ shuffle[m] # << >>
      /\ shuffle' = [shuffle EXCEPT ![m] = Tail(@)]
  BY DEF Distribute, EventInv, TypeInv
<1>3. \A n \in Mebs : \A i \in DOMAIN shuffle'[n] :
        \E j \in DOMAIN shuffle[n] : shuffle'[n][i] = shuffle[n][j]
  <2> SUFFICES ASSUME NEW n \in Mebs, NEW i \in DOMAIN shuffle'[n]
               PROVE  \E j \in DOMAIN shuffle[n] : shuffle'[n][i] = shuffle[n][j]
    OBVIOUS
  <2>1. CASE n # m
    BY <1>2, <2>1
  <2>2. CASE n = m
    <3>1. shuffle[m] \in Seq(Bufs \X Pids) /\ shuffle'[m] = Tail(shuffle[m])
      BY <1>2
    <3>2. i + 1 \in DOMAIN shuffle[m] /\ Tail(shuffle[m])[i] = shuffle[m][i + 1]
      BY <1>2, <2>2, <3>1
    <3> QED
      BY <2>2, <3>1, <3>2
  <2> QED
    BY <2>1, <2>2
<1>4. RegionInv'
  BY <1>1 DEF Contents, RegionInv
<1>5. HeldInv'
  <2> SUFFICES ASSUME NEW n \in Mebs, NEW i \in DOMAIN shuffle'[n]
               PROVE  result[shuffle'[n][i][2]] = <<"yes", n, shuffle'[n][i][1]>>
    BY <1>1 DEF HeldInv
  <2>1. PICK j \in DOMAIN shuffle[n] : shuffle'[n][i] = shuffle[n][j]
    BY <1>3
  <2> QED
    BY <2>1 DEF Contents, HeldInv
<1>6. HeldIntact'
  BY <1>1, <1>3 DEF Contents, HeldIntact
<1> QED
  BY <1>4, <1>5, <1>6 DEF Contents

LEMMA HeldType ==
  ASSUME TypeInv, NEW m \in Mebs, NEW i \in DOMAIN shuffle[m]
  PROVE  shuffle[m][i][1] \in Bufs /\ shuffle[m][i][2] \in Pids
<1>1. shuffle[m] \in Seq(Bufs \X Pids)
  BY DEF TypeInv
<1>2. shuffle[m][i] \in Bufs \X Pids
  BY <1>1
<1> QED
  BY <1>2

LEMMA ContentsDecide ==
  ASSUME EventInv, Contents, NEW t \in Tebs, NEW p \in Pids, Decide(t, p)
  PROVE  Contents'
<1>1. UNCHANGED <<groups, region, arrived, shuffle>>
  BY DEF Decide, pulse, meb, shm
<1>2. /\ result[p] = << >>
      /\ \A q \in Pids : q # p => result'[q] = result[q]
  <2>1. PICK r : result' = [result EXCEPT ![p] = r]
    BY DecideResult DEF EventInv
  <2>2. DOMAIN result = Pids
    BY DEF EventInv, TypeInv
  <2> QED
    BY <2>1, <2>2 DEF Decide
<1>3. \A m \in Mebs, d \in Drps : <<d, p>> \notin arrived[m]
  BY <1>2 DEF EventInv, ArrInv, DoneInv
<1>4. RegionInv'
  <2> SUFFICES ASSUME NEW m \in Mebs, NEW d \in Drps, NEW q \in Pids, NEW b \in Bufs,
                      <<d, q>> \in arrived[m], result'[q] = <<"yes", m, b>>
               PROVE  region[m][d][b] = q
    BY <1>1 DEF RegionInv
  <2>1. q # p
    BY <1>3
  <2> QED
    BY <1>2, <2>1 DEF Contents, RegionInv
<1>5. HeldInv'
  <2> SUFFICES ASSUME NEW m \in Mebs, NEW i \in DOMAIN shuffle[m]
               PROVE  result'[shuffle[m][i][2]] = <<"yes", m, shuffle[m][i][1]>>
    BY <1>1 DEF HeldInv
  <2>1. result[shuffle[m][i][2]] = <<"yes", m, shuffle[m][i][1]>>
    BY DEF Contents, HeldInv
  <2>2. shuffle[m][i][2] \in Pids
    BY HeldType DEF EventInv
  <2> QED
    <3>1. shuffle[m][i][2] # p
      <4>1. <<"yes", m, shuffle[m][i][1]>> # << >>
        BY ResultsDiffer
      <4> QED
        BY <1>2, <2>1, <4>1
    <3> QED
      BY <1>2, <2>1, <2>2, <3>1
<1>6. HeldIntact'
  BY <1>1 DEF Contents, HeldIntact
<1> QED
  BY <1>4, <1>5, <1>6 DEF Contents

LEMMA ContentsContribute ==
  ASSUME EventInv, PlaceInv, Contents, NEW d \in Drps, NEW p \in Pids, Contribute(d, p)
  PROVE  Contents'
<1>1. UNCHANGED <<groups, result, shuffle>>
  BY DEF Contribute, pulse, teb, shm
<1>2. /\ TypeInv
      /\ arrived \in [Mebs -> SUBSET (Drps \X Pids)]
      /\ region \in [Mebs -> [Drps -> [Bufs -> 0 .. MaxPid]]]
  BY DEF EventInv, TypeInv
<1>3. HeldInv'
  BY <1>1 DEF Contents, HeldInv
<1>4. CASE p \in trans \/ result[p] = <<"no">>
  <2>1. /\ region' = region
        /\ \A m \in Mebs, e \in Drps, q \in Pids :
             q # p => (<<e, q>> \in arrived'[m] <=> <<e, q>> \in arrived[m])
    BY <1>2, <1>4, ResultsDiffer DEF Contribute
  <2>2. \A m \in Mebs, b \in Bufs : result[p] # <<"yes", m, b>>
    BY <1>4, ResultsDiffer, SMTT(30) DEF EventInv, GroupsInv
  <2>3. RegionInv'
    BY <1>1, <2>1, <2>2 DEF Contents, RegionInv
  <2>4. HeldIntact'
    BY <1>1, <2>1 DEF Contents, HeldIntact
  <2> QED
    BY <1>3, <2>3, <2>4 DEF Contents
<1>5. ASSUME p \notin trans, NEW m \in Mebs, NEW b \in Bufs, result[p] = <<"yes", m, b>>
      PROVE  Contents'
  <2>1. result[p][1] = "yes" /\ result[p][2] = m /\ result[p][3] = b
    BY <1>5
  <2>2. /\ arrived' = [arrived EXCEPT ![m] = @ \cup {<<d, p>>}]
        /\ region' = [region EXCEPT ![m][d][b] = p]
    BY <1>5, <2>1 DEF Contribute
  <2>3. Awaits(m, b, p)
    <3>1. pidPrv[m] < p /\ pidPrv[m] \in Nat /\ p \in Nat
      BY <1>5, SentInTime, Ranges DEF GoesTo, EventInv, TypeInv
    <3> QED
      BY <1>5, <3>1 DEF Awaits
  <2>4. /\ region'[m][d][b] = p
        /\ \A n \in Mebs, e \in Drps, c \in Bufs :
             n # m \/ e # d \/ c # b => region'[n][e][c] = region[n][e][c]
    BY <1>2, <2>2
  <2>5. RegionInv'
    <3> SUFFICES ASSUME NEW n \in Mebs, NEW e \in Drps, NEW q \in Pids, NEW c \in Bufs,
                        <<e, q>> \in arrived'[n], result[q] = <<"yes", n, c>>
                 PROVE  region'[n][e][c] = q
      BY <1>1 DEF RegionInv
    <3>1. CASE n = m /\ e = d /\ q = p
      BY <1>5, <2>4, <3>1
    <3>2. CASE ~(n = m /\ e = d /\ q = p)
      <4>1. <<e, q>> \in arrived[n]
        BY <1>2, <2>2, <3>2
      <4>2. pidPrv[n] < q
        BY <4>1 DEF EventInv, ArrInv
      <4>3. Awaits(n, c, q)
        BY <1>2, <4>2, Ranges DEF Awaits, TypeInv
      <4>4. n # m \/ e # d \/ c # b
        BY <2>3, <3>2, <4>3 DEF PlaceInv, Placed, Once
      <4> QED
        BY <2>4, <4>1, <4>4 DEF Contents, RegionInv
    <3> QED
      BY <3>1, <3>2
  <2>6. HeldIntact'
    <3> SUFFICES ASSUME NEW n \in Mebs, NEW i \in DOMAIN shuffle[n],
                        NEW e \in groups[shuffle[n][i][2]]
                 PROVE  region'[n][e][shuffle[n][i][1]] = shuffle[n][i][2]
      BY <1>1 DEF HeldIntact
    <3>1. region[n][e][shuffle[n][i][1]] = shuffle[n][i][2]
      BY DEF Contents, HeldIntact
    <3>2. shuffle[n][i][1] \in Bufs /\ shuffle[n][i][2] \in Pids
      BY <1>2, HeldType
    <3>3. e \in Drps
      BY <3>2 DEF EventInv, TypeInv
    <3>4. n = m => shuffle[n][i][1] # b
      <4>1. b \in GivenSet(m)
        BY <2>3 DEF GivenSet
      <4>2. b \notin HeldSet(m)
        BY <4>1 DEF PlaceInv, Placed, Disjoint
      <4> QED
        BY <4>2 DEF HeldSet
    <3> QED
      BY <2>4, <3>1, <3>2, <3>3, <3>4
  <2> QED
    BY <1>3, <2>5, <2>6 DEF Contents
<1>6. result[p] # << >>
  BY DEF Contribute
<1> QED
  BY <1>2, <1>4, <1>5, <1>6, ResultCases

LEMMA ContentsBuild ==
  ASSUME EventInv, PlaceInv, Contents, NEW m \in Mebs, NEW p \in Pids, Build(m, p)
  PROVE  Contents'
<1>1. UNCHANGED <<groups, result, region>>
  BY DEF Build, pulse, teb
<1>2. \A n \in Mebs : arrived'[n] \subseteq arrived[n]
  BY DEF Build, EventInv, TypeInv
<1>3. RegionInv'
  BY <1>1, <1>2 DEF Contents, RegionInv
<1>4. CASE shuffle' = shuffle
  BY <1>1, <1>3, <1>4 DEF Contents, HeldInv, HeldIntact
<1>5. CASE p \notin trans /\ shuffle' = [shuffle EXCEPT ![m] = Append(@, <<result[p][3], p>>)]
  <2>1. PICK b \in Bufs : result[p] = <<"yes", m, b>>
    BY <1>5, BuildsGiven
  <2>2. shuffle' = [shuffle EXCEPT ![m] = Append(@, <<b, p>>)]
    BY <1>5, <2>1
  <2>3. \A n \in Mebs : \A i \in DOMAIN shuffle'[n] :
          \/ i \in DOMAIN shuffle[n] /\ shuffle'[n][i] = shuffle[n][i]
          \/ n = m /\ shuffle'[n][i] = <<b, p>>
    <3> SUFFICES ASSUME NEW n \in Mebs, NEW i \in DOMAIN shuffle'[n]
                 PROVE  \/ i \in DOMAIN shuffle[n] /\ shuffle'[n][i] = shuffle[n][i]
                        \/ n = m /\ shuffle'[n][i] = <<b, p>>
      OBVIOUS
    <3>1. shuffle \in [Mebs -> Seq(Bufs \X Pids)]
      BY DEF EventInv, TypeInv
    <3>2. CASE n # m
      BY <2>2, <3>1, <3>2
    <3>3. CASE n = m
      <4>1. shuffle[m] \in Seq(Bufs \X Pids) /\ shuffle'[m] = Append(shuffle[m], <<b, p>>)
        BY <2>2, <3>1
      <4> QED
        BY <3>3, <4>1
    <3> QED
      BY <3>2, <3>3
  <2>4. \A e \in groups[p] : region[m][e][b] = p
    <3> SUFFICES ASSUME NEW e \in groups[p] PROVE region[m][e][b] = p
      OBVIOUS
    <3>1. e \in Drps /\ <<e, p>> \in arrived[m]
      BY DEF Build, EventInv, TypeInv
    <3> QED
      BY <2>1, <3>1 DEF Contents, RegionInv
  <2>5. <<b, p>>[1] = b /\ <<b, p>>[2] = p
    OBVIOUS
  <2>6. HeldInv'
    BY <1>1, <2>1, <2>3, <2>5 DEF Contents, HeldInv
  <2>7. HeldIntact'
    BY <1>1, <2>3, <2>4, <2>5 DEF Contents, HeldIntact
  <2> QED
    BY <1>3, <2>6, <2>7 DEF Contents
<1> QED
  BY <1>4, <1>5 DEF Build

LEMMA BufferInit == Init => BufferInv
<1> SUFFICES ASSUME Init PROVE BufferInv
  OBVIOUS
<1>1. EventInv /\ PlaceInv
  BY EventInit, PlaceInit
<1>2. \A m \in Mebs : arrived[m] = {} /\ shuffle[m] = << >>
  BY DEF Init
<1>3. RegionInv /\ HeldInv /\ HeldIntact
  BY <1>2 DEF RegionInv, HeldInv, HeldIntact
<1> QED
  BY <1>1, <1>3 DEF BufferInv

LEMMA BufferStep == "configure" \notin Ways /\ BufferInv /\ [Next]_vars => BufferInv'
<1> SUFFICES ASSUME "configure" \notin Ways, BufferInv, [Next]_vars
             PROVE  EventInv' /\ PlaceInv' /\ Contents'
  BY DEF BufferInv, Contents
<1>0. EventInv /\ EventInv' /\ TypeInv' /\ PlaceInv /\ Contents
  BY EventStep, TypeStep DEF BufferInv, Contents
<1>1. ASSUME NEW m \in Mebs, NEW k \in 0 .. NumTebs, Request(m, k)
      PROVE  PlaceInv' /\ Contents'
  BY <1>0, <1>1, PlaceRequest, ContentsKept DEF Request, pulse
<1>2. ASSUME NEW m \in Mebs, Distribute(m) PROVE PlaceInv' /\ Contents'
  BY <1>0, <1>2, PlaceDistribute, ContentsDistribute
<1>3. ASSUME UNCHANGED <<groups, result, region, arrived, shuffle, pidPrv, free, mrq, lists,
                         reqs, unasked, dropped>>
      PROVE  PlaceInv' /\ Contents'
  <2>1. \A m \in Mebs, b \in Bufs, p \in Pids : Awaits(m, b, p)' <=> Awaits(m, b, p)
    BY <1>3, AwaitsKept
  <2>2. \A m \in Mebs, t \in Tebs : Requests(t, m)' = Requests(t, m)
    BY <1>3 DEF Requests
  <2>3. ASSUME NEW m \in Mebs PROVE Placed(m)'
    BY <1>0, <1>3, <2>1, <2>2, PlacedKept DEF PlaceInv
  <2> QED
    BY <1>0, <1>3, <2>3, ContentsKept DEF PlaceInv
<1>4. ASSUME NEW m \in Mebs, ClientReturns(m) PROVE PlaceInv' /\ Contents'
  BY <1>3, <1>4 DEF ClientReturns, pulse, teb, meb
<1>5. ASSUME NEW t \in Tebs, NEW p \in Pids, Decide(t, p) PROVE PlaceInv' /\ Contents'
  BY <1>0, <1>5, PlaceDecide, ContentsDecide
<1>6. ASSUME NEW d \in Drps, NEW p \in Pids, Contribute(d, p) PROVE PlaceInv' /\ Contents'
  <2>1. UNCHANGED <<shuffle, pidPrv, free, mrq, lists, result, reqs, unasked, dropped>>
    BY <1>6 DEF Contribute, teb, shm
  <2>2. \A m \in Mebs, b \in Bufs, q \in Pids : Awaits(m, b, q)' <=> Awaits(m, b, q)
    BY <2>1, AwaitsKept
  <2>3. \A m \in Mebs, t \in Tebs : Requests(t, m)' = Requests(t, m)
    BY <2>1 DEF Requests
  <2>4. ASSUME NEW m \in Mebs PROVE Placed(m)'
    BY <1>0, <2>1, <2>2, <2>3, PlacedKept DEF PlaceInv
  <2> QED
    BY <1>0, <1>6, <2>4, ContentsContribute DEF PlaceInv
<1>7. ASSUME NEW m \in Mebs, NEW p \in Pids, Build(m, p) PROVE PlaceInv' /\ Contents'
  BY <1>0, <1>7, PlaceBuild, ContentsBuild
<1>8. ASSUME NEW way \in Ways, Reconfigure(way) PROVE PlaceInv' /\ Contents'
  <2>1. way = "connect"
    BY <1>8, MonitoringAssumption
  <2> QED
    BY <1>0, <1>8, <2>1, PlaceReconfigure, ContentsKept DEF Reconfigure, pulse
<1>9. CASE UNCHANGED vars
  <2>1. UNCHANGED <<groups, result, region, arrived, shuffle, pidPrv, free, mrq, lists,
                    reqs, unasked, dropped>>
    BY <1>9 DEF vars, pulse, teb, meb, shm
  <2> QED
    BY <1>0, <1>3, <2>1
<1> QED
  BY <1>0, <1>1, <1>2, <1>4, <1>5, <1>6, <1>7, <1>8, <1>9 DEF Next

-----------------------------------------------------------------------------
(***************************************************************************)
(* Theorems about the buffers                                              *)
(***************************************************************************)

LEMMA BufferAlways == "configure" \notin Ways => (Spec => []BufferInv)
<1> SUFFICES ASSUME "configure" \notin Ways PROVE Spec => []BufferInv
  OBVIOUS
<1>1. BufferInv /\ [Next]_vars => BufferInv'
  BY BufferStep
<1> QED
  BY <1>1, BufferInit, PTL DEF Spec

\* A place of a buffer is one of those the invariant speaks of.
LEMMA SpotIn ==
  ASSUME NEW m, NEW b, NEW s
  PROVE  s \in Spots(m, b) <=>
           \/ \E i \in DOMAIN free[m] : free[m][i] = b /\ s = <<"free", 0, i>>
           \/ \E t \in Tebs : \E i \in DOMAIN Requests(t, m) :
                Requests(t, m)[i] = b /\ s = <<"asked", t, i>>
           \/ \E p \in Pids : Awaits(m, b, p) /\ s = <<"given", 0, p>>
           \/ \E i \in DOMAIN shuffle[m] : shuffle[m][i][1] = b /\ s = <<"held", 0, i>>
<1> DEFINE Free   == {"free"} \X {0} \X {i \in DOMAIN free[m] : free[m][i] = b}
           At(t)  == {"asked"} \X {t} \X {i \in DOMAIN Requests(t, m) : Requests(t, m)[i] = b}
           Asked  == UNION {At(t) : t \in Tebs}
           Given  == {"given"} \X {0} \X {p \in Pids : Awaits(m, b, p)}
           Held   == {"held"} \X {0} \X {i \in DOMAIN shuffle[m] : shuffle[m][i][1] = b}
<1>1. s \in Free <=> \E i \in DOMAIN free[m] : free[m][i] = b /\ s = <<"free", 0, i>>
  OBVIOUS
<1>2. \A t \in Tebs : s \in At(t) <=>
        \E i \in DOMAIN Requests(t, m) : Requests(t, m)[i] = b /\ s = <<"asked", t, i>>
  OBVIOUS
<1>3. s \in Asked <=> \E t \in Tebs : s \in At(t)
  OBVIOUS
<1>4. s \in Given <=> \E p \in Pids : Awaits(m, b, p) /\ s = <<"given", 0, p>>
  OBVIOUS
<1>5. s \in Held <=>
        \E i \in DOMAIN shuffle[m] : shuffle[m][i][1] = b /\ s = <<"held", 0, i>>
  OBVIOUS
<1>6. Spots(m, b) = Free \cup Asked \cup Given \cup Held
  BY Zenon DEF Spots
<1> HIDE DEF Free, At, Asked, Given, Held
<1>7. s \in Spots(m, b) <=> s \in Free \/ s \in Asked \/ s \in Given \/ s \in Held
  BY <1>6
<1> QED
  BY <1>1, <1>2, <1>3, <1>4, <1>5, <1>7

LEMMA PlacedApart ==
  ASSUME BufferInv, NEW m \in Mebs, NEW b \in Bufs
  PROVE  \E s \in Spots(m, b) : Spots(m, b) = {s}
<1>1. Once(m) /\ Disjoint(m) /\ Covered(m)
  BY DEF BufferInv, PlaceInv, Placed
<1>2. /\ b \in FreeSet(m) <=> \E i \in DOMAIN free[m] : free[m][i] = b
      /\ \A t \in Tebs : b \in AskSet(t, m) <=>
           \E i \in DOMAIN Requests(t, m) : Requests(t, m)[i] = b
      /\ b \in GivenSet(m) <=> \E p \in Pids : Awaits(m, b, p)
      /\ b \in HeldSet(m) <=> \E i \in DOMAIN shuffle[m] : shuffle[m][i][1] = b
  BY DEF FreeSet, AskSet, GivenSet, HeldSet, Range
<1>3. \E s : s \in Spots(m, b)
  <2>1. CASE b \in FreeSet(m)
    <3>1. PICK i \in DOMAIN free[m] : free[m][i] = b
      BY <1>2, <2>1
    <3>2. <<"free", 0, i>> \in Spots(m, b)
      BY <3>1, SpotIn
    <3> QED
      BY <3>2
  <2>2. CASE b \in GivenSet(m)
    <3>1. PICK p \in Pids : Awaits(m, b, p)
      BY <1>2, <2>2
    <3>2. <<"given", 0, p>> \in Spots(m, b)
      BY <3>1, SpotIn
    <3> QED
      BY <3>2
  <2>3. CASE b \in HeldSet(m)
    <3>1. PICK i \in DOMAIN shuffle[m] : shuffle[m][i][1] = b
      BY <1>2, <2>3
    <3>2. <<"held", 0, i>> \in Spots(m, b)
      BY <3>1, SpotIn
    <3> QED
      BY <3>2
  <2>4. CASE \E t \in Tebs : b \in AskSet(t, m)
    <3>1. PICK t \in Tebs : b \in AskSet(t, m)
      BY <2>4
    <3>2. PICK i \in DOMAIN Requests(t, m) : Requests(t, m)[i] = b
      BY <1>2, <3>1
    <3>3. <<"asked", t, i>> \in Spots(m, b)
      BY <3>2, SpotIn
    <3> QED
      BY <3>3
  <2> QED
    BY <1>1, <2>1, <2>2, <2>3, <2>4 DEF Covered
<1>4. ASSUME NEW s \in Spots(m, b), NEW r \in Spots(m, b) PROVE s = r
  <2>1. CASE b \in FreeSet(m)
    <3>1. b \notin GivenSet(m) /\ b \notin HeldSet(m) /\ \A t \in Tebs : b \notin AskSet(t, m)
      BY <1>1, <2>1 DEF Disjoint
    <3>2. PICK i \in DOMAIN free[m] : free[m][i] = b /\ s = <<"free", 0, i>>
      BY <1>2, <1>4, <3>1, SpotIn
    <3>3. PICK j \in DOMAIN free[m] : free[m][j] = b /\ r = <<"free", 0, j>>
      BY <1>2, <1>4, <3>1, SpotIn
    <3> QED
      BY <1>1, <3>2, <3>3 DEF Once, Uniq
  <2>2. CASE b \in GivenSet(m)
    <3>1. b \notin FreeSet(m) /\ b \notin HeldSet(m) /\ \A t \in Tebs : b \notin AskSet(t, m)
      BY <1>1, <2>2 DEF Disjoint
    <3>2. PICK p \in Pids : Awaits(m, b, p) /\ s = <<"given", 0, p>>
      BY <1>2, <1>4, <3>1, SpotIn
    <3>3. PICK q \in Pids : Awaits(m, b, q) /\ r = <<"given", 0, q>>
      BY <1>2, <1>4, <3>1, SpotIn
    <3> QED
      BY <1>1, <3>2, <3>3 DEF Once
  <2>3. CASE b \in HeldSet(m)
    <3>1. b \notin FreeSet(m) /\ b \notin GivenSet(m) /\ \A t \in Tebs : b \notin AskSet(t, m)
      BY <1>1, <2>3 DEF Disjoint
    <3>2. PICK i \in DOMAIN shuffle[m] : shuffle[m][i][1] = b /\ s = <<"held", 0, i>>
      BY <1>2, <1>4, <3>1, SpotIn
    <3>3. PICK j \in DOMAIN shuffle[m] : shuffle[m][j][1] = b /\ r = <<"held", 0, j>>
      BY <1>2, <1>4, <3>1, SpotIn
    <3> QED
      BY <1>1, <3>2, <3>3 DEF Once
  <2>4. ASSUME NEW t \in Tebs, b \in AskSet(t, m) PROVE s = r
    <3>1. /\ b \notin FreeSet(m) /\ b \notin GivenSet(m) /\ b \notin HeldSet(m)
          /\ \A u \in Tebs : u # t => b \notin AskSet(u, m)
      BY <1>1, <2>4 DEF Disjoint
    <3>2. PICK i \in DOMAIN Requests(t, m) : Requests(t, m)[i] = b /\ s = <<"asked", t, i>>
      BY <1>2, <1>4, <3>1, SpotIn
    <3>3. PICK j \in DOMAIN Requests(t, m) : Requests(t, m)[j] = b /\ r = <<"asked", t, j>>
      BY <1>2, <1>4, <3>1, SpotIn
    <3> QED
      BY <1>1, <3>2, <3>3 DEF Once, Uniq
  <2> QED
    BY <1>1, <2>1, <2>2, <2>3, <2>4 DEF Covered
<1> QED
  BY <1>3, <1>4

\* Whatever requests fail and however events are skewed, a MEB's buffer is
\* always in one place, if Teb::disconnect() comes before every configuration.
THEOREM BuffersInOnePlace == "configure" \notin Ways => (Spec => []BuffersApart)
<1> SUFFICES ASSUME "configure" \notin Ways PROVE Spec => []BuffersApart
  OBVIOUS
<1>1. BufferInv => BuffersApart
  BY PlacedApart DEF BuffersApart
<1>2. Spec => []BufferInv
  BY BufferAlways
<1> QED
  BY <1>1, <1>2, PTL

\* MebContributor's writes never reach a buffer whose event the shared memory
\* server has yet to copy: the index in a result is of a buffer that waits.
THEOREM HeldNotOverwritten == "configure" \notin Ways => (Spec => []HeldIntact)
<1> SUFFICES ASSUME "configure" \notin Ways PROVE Spec => []HeldIntact
  OBVIOUS
<1>1. BufferInv => HeldIntact
  BY DEF BufferInv
<1>2. Spec => []BufferInv
  BY BufferAlways
<1> QED
  BY <1>1, <1>2, PTL

\* Meb::process() always finds a shared memory buffer on the request queue for
\* an event, so that none is dropped.
THEOREM NoEventDropped == "configure" \notin Ways => (Spec => []RequestsMatched)
<1> SUFFICES ASSUME "configure" \notin Ways PROVE Spec => []RequestsMatched
  OBVIOUS
<1>1. BufferInv => RequestsMatched
  BY DEF BufferInv, PlaceInv, Placed, Counted, RequestsMatched
<1>2. Spec => []BufferInv
  BY BufferAlways
<1> QED
  BY <1>1, <1>2, PTL

\* _deleteDatagram() never finds that an "Index is already on list" when every
\* configuration begins with a new connection; mon_stale shows that it does
\* otherwise.
THEOREM NeverFreedTwice == "configure" \notin Ways => (Spec => []FreedOnce)
<1> SUFFICES ASSUME "configure" \notin Ways PROVE Spec => []FreedOnce
  OBVIOUS
<1>1. BufferInv => FreedOnce
  <2> SUFFICES ASSUME BufferInv, NEW m \in Mebs,
                      NEW p \in ({c[2] : c \in arrived[m]} \ trans)
                                  \cup {shuffle[m][i][2] : i \in DOMAIN shuffle[m]},
                      NEW q \in ({c[2] : c \in arrived[m]} \ trans)
                                  \cup {shuffle[m][i][2] : i \in DOMAIN shuffle[m]},
                      p # q
               PROVE  result[p][3] # result[q][3]
    BY DEF FreedOnce
  <2>1. Once(m) /\ Disjoint(m) /\ EventInv /\ TypeInv /\ HeldInv
    BY DEF BufferInv, PlaceInv, Placed, EventInv
  <2>2. ASSUME NEW x \in {c[2] : c \in arrived[m]} \ trans
        PROVE  x \in Pids /\ \E b \in Bufs : result[x] = <<"yes", m, b>> /\ Awaits(m, b, x)
    <3>1. PICK c \in arrived[m] : x = c[2]
      BY <2>2
    <3>2. c \in Drps \X Pids
      BY <2>1 DEF TypeInv
    <3>3. c = <<c[1], x>> /\ c[1] \in Drps /\ x \in Pids
      BY <3>1, <3>2
    <3>4. GoesTo(m, x) /\ pidPrv[m] < x
      BY <2>1, <3>1, <3>3 DEF EventInv, ArrInv
    <3>5. PICK b \in Bufs : result[x] = <<"yes", m, b>>
      BY <2>2, <3>4 DEF GoesTo
    <3>6. x > pidPrv[m]
      BY <2>1, <3>3, <3>4, Ranges DEF TypeInv
    <3> QED
      BY <3>3, <3>5, <3>6 DEF Awaits
  <2>3. ASSUME NEW x \in {shuffle[m][i][2] : i \in DOMAIN shuffle[m]}
        PROVE  \E i \in DOMAIN shuffle[m], b \in Bufs :
                 x = shuffle[m][i][2] /\ b = shuffle[m][i][1] /\ result[x] = <<"yes", m, b>>
    <3>1. PICK i \in DOMAIN shuffle[m] : x = shuffle[m][i][2]
      BY <2>3
    <3>2. shuffle[m][i][1] \in Bufs
      BY <2>1, HeldType
    <3> QED
      BY <2>1, <3>1, <3>2 DEF HeldInv
  <2>4. \A b : <<"yes", m, b>>[3] = b
    OBVIOUS
  <2>5. CASE /\ p \in {c[2] : c \in arrived[m]} \ trans
             /\ q \in {c[2] : c \in arrived[m]} \ trans
    BY <2>1, <2>2, <2>4, <2>5 DEF Once
  <2>6. CASE /\ p \in {shuffle[m][i][2] : i \in DOMAIN shuffle[m]}
             /\ q \in {shuffle[m][i][2] : i \in DOMAIN shuffle[m]}
    BY <2>1, <2>3, <2>4, <2>6 DEF Once
  <2>7. ASSUME NEW x \in {c[2] : c \in arrived[m]} \ trans,
               NEW y \in {shuffle[m][i][2] : i \in DOMAIN shuffle[m]}
        PROVE  result[x][3] # result[y][3]
    <3>1. PICK b \in Bufs : result[x] = <<"yes", m, b>> /\ Awaits(m, b, x)
      BY <2>2, <2>7
    <3>2. PICK i \in DOMAIN shuffle[m], c \in Bufs :
            c = shuffle[m][i][1] /\ result[y] = <<"yes", m, c>>
      BY <2>3, <2>7
    <3>3. b \in GivenSet(m) /\ c \in HeldSet(m)
      BY <2>2, <2>7, <3>1, <3>2 DEF GivenSet, HeldSet
    <3>4. b # c
      BY <2>1, <3>3 DEF Disjoint
    <3> QED
      BY <2>4, <3>1, <3>2, <3>4
  <2> QED
    BY <2>5, <2>6, <2>7
<1>2. Spec => []BufferInv
  BY BufferAlways
<1> QED
  BY <1>1, <1>2, PTL
=============================================================================
