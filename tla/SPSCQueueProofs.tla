-------------------------- MODULE SPSCQueueProofs ---------------------------
(***************************************************************************)
(* Proofs about SPSCQueue, for every capacity and any number of pushes.    *)
(*                                                                         *)
(* The inductive invariant says in which phases of push() and popW() a     *)
(* thread's own index has reached memory (the fence, the lock), and that a *)
(* consumer that sleeps unnotified sleeps over an empty queue, or over the *)
(* single value of a push() that has not yet notified.                     *)
(***************************************************************************)
EXTENDS SPSCQueue, SequenceTheorems, TLAPS

\* A store is pending only before the producer's fence, or before the
\* consumer has the lock.
StoreInv ==
  /\ wOwn <= w + 1
  /\ producer # "fence" => w = wOwn
  /\ consumer \in {"test", "waiting", "decide", "stopped"} => r = rOwn

\* What popW() has found out still holds when it acts on it: only the
\* consumer makes the queue shorter.
PopInv ==
  /\ consumer = "decide" => r # w \/ terminate
  /\ consumer = "take" => rOwn < w

\* What the consumer can sleep over without having been notified.
SleepInv ==
  consumer = "waiting" /\ ~notified =>
    /\ \/ w = r
       \/ w = r + 1 /\ w = wOwn /\ producer \in {"fence", "notify"}
    /\ terminate => closer = "notify"

IInv == TypeOK /\ StoreInv /\ PopInv /\ SleepInv

\* Division with remainder.
LEMMA Division ==
  \A a \in Nat, b \in Nat \ {0} :
    a \div b \in Nat /\ a = b * (a \div b) + (a % b)
  BY SMT

USE QueueAssumption DEF QueueAssumption

\* A slot number is one.
LEMMA SlotType == \A i \in Nat : slot(i) \in 0 .. Capacity - 1
  BY DEF slot

\* As many indices in a row as there are slots have different slots.
LEMMA SlotsDiffer ==
  \A i, j \in Nat : i < j /\ j < i + Capacity => slot(i) # slot(j)
<1> SUFFICES ASSUME NEW i \in Nat, NEW j \in Nat, i < j, j < i + Capacity,
                    i % Capacity = j % Capacity
             PROVE FALSE
  BY DEF slot
<1> DEFINE p == i \div Capacity
           q == j \div Capacity
<1>1. p \in Nat /\ q \in Nat BY Division
<1>2. i = Capacity * p + (i % Capacity) BY Division
<1>3. j = Capacity * q + (j % Capacity) BY Division
<1> HIDE DEF p, q
<1>4. CASE q <= p
  <2>1. Capacity * q <= Capacity * p BY <1>1, <1>4
  <2> QED BY <1>1, <1>2, <1>3, <2>1
<1>5. CASE q >= p + 1
  <2>1. Capacity * q >= Capacity * (p + 1) BY <1>1, <1>5
  <2>2. Capacity * (p + 1) = Capacity * p + Capacity BY <1>1
  <2> QED BY <1>1, <1>2, <1>3, <2>1, <2>2
<1> QED BY <1>1, <1>4, <1>5

LEMMA InitInv == Init => IInv
<1> SUFFICES ASSUME Init PROVE IInv OBVIOUS
<1> USE DEF Init
<1>1. mutex \in BOOLEAN /\ notified \in BOOLEAN /\ terminate \in BOOLEAN
  BY Zenon
<1>2. TypeOK BY <1>1 DEF TypeOK
<1>3. StoreInv /\ PopInv /\ SleepInv BY DEF StoreInv, PopInv, SleepInv
<1> QED BY <1>2, <1>3 DEF IInv

LEMMA StepInv == IInv /\ [Next]_vars => IInv'
<1> SUFFICES ASSUME IInv, [Next]_vars PROVE IInv' OBVIOUS
<1> USE DEF IInv, TypeOK, StoreInv, PopInv, SleepInv
<1>1. CASE Push BY <1>1, SlotType DEF Push, HasBuffer
<1>2. CASE Look BY <1>2 DEF Look, Fenced, WasEmpty, indices
<1>3. CASE Notify
  <2>1. notified' \in BOOLEAN BY <1>3, Zenon DEF Notify
  <2>2. consumer' = "waiting" => notified' BY <1>3, Zenon DEF Notify
  <2> QED BY <1>3, <2>1, <2>2 DEF Notify, indices
<1>4. CASE PopW BY <1>4 DEF PopW, indices
<1>5. CASE Lock BY <1>5 DEF Lock, indices
<1>6. CASE Test BY <1>6 DEF Test, MustWait, indices
<1>7. CASE Wake BY <1>7 DEF Wake, indices
<1>8. CASE WakeSpuriously BY <1>8 DEF WakeSpuriously, indices
<1>9. CASE Decide
  <2>1. mutex' \in BOOLEAN BY <1>9, Zenon DEF Decide
  <2> QED BY <1>9, <2>1 DEF Decide, Stops, indices
<1>10. CASE Take BY <1>10, SlotType DEF Take
<1>11. CASE DrainW BY <1>11 DEF DrainW
<1>12. CASE DrainR BY <1>12 DEF DrainR
<1>13. CASE Shutdown BY <1>13 DEF Shutdown, indices
<1>14. CASE ShutdownNotify
  <2>1. notified' \in BOOLEAN BY <1>14, Zenon DEF ShutdownNotify
  <2>2. consumer' = "waiting" => notified' BY <1>14, Zenon DEF ShutdownNotify
  <2> QED BY <1>14, <2>1, <2>2 DEF ShutdownNotify, indices
<1>15. CASE Startup
  <2>1. terminate' \in BOOLEAN BY <1>15, Zenon DEF Startup
  <2> QED BY <1>15, <2>1 DEF Startup
<1>16. CASE UNCHANGED vars BY <1>16 DEF vars, indices
<1> QED BY <1>1, <1>2, <1>3, <1>4, <1>5, <1>6, <1>7, <1>8, <1>9, <1>10, <1>11,
           <1>12, <1>13, <1>14, <1>15, <1>16 DEF Next

\* A published value stays in its slot until it is taken: push() writes the
\* slot of none of the values between the indices.
LEMMA StepSlots == IInv /\ SlotsKept /\ [Next]_vars => SlotsKept'
<1> SUFFICES ASSUME IInv, SlotsKept, [Next]_vars PROVE SlotsKept' OBVIOUS
<1>0. IInv' BY StepInv
<1>1. consumer' = "take" => rOwn' < w' BY <1>0 DEF IInv, PopInv
<1>2. CASE Push
  <2> USE <1>2 DEF Push, HasBuffer, IInv, TypeOK
  <2>1. wOwn' <= rOwn' + Capacity BY DEF SlotsKept
  <2>2. ASSUME NEW i \in rOwn' .. wOwn' - 1 PROVE ring'[slot(i)] = i
    <3>1. CASE i = wOwn BY <3>1, SlotType
    <3>2. CASE i # wOwn
      <4>1. i \in rOwn .. wOwn - 1 BY <3>2
      <4>2. ring[slot(i)] = i BY <4>1 DEF SlotsKept
      <4>3. slot(i) # slot(wOwn)
        <5>1. i \in Nat /\ i < wOwn /\ wOwn < i + Capacity BY <4>1
        <5> QED BY <5>1, SlotsDiffer
      <4>4. slot(i) \in 0 .. Capacity - 1 BY <4>1, SlotType
      <4> QED BY <4>2, <4>3, <4>4
    <3> QED BY <3>1, <3>2
  <2> QED BY <1>1, <2>1, <2>2 DEF SlotsKept
<1>3. CASE Take
  BY <1>1, <1>3 DEF Take, SlotsKept, IInv, TypeOK
<1>4. CASE Startup
  BY <1>1, <1>4 DEF Startup, SlotsKept, IInv, TypeOK
<1>5. ASSUME UNCHANGED <<ring, rOwn, wOwn>> PROVE SlotsKept'
  BY <1>1, <1>5 DEF SlotsKept
<1>6. ASSUME ~Push, ~Take, ~Startup PROVE UNCHANGED <<ring, rOwn, wOwn>>
  BY <1>6 DEF Next, vars, indices, Look, Notify, PopW, Lock, Test, Wake,
     WakeSpuriously, Decide, DrainW, DrainR, Shutdown, ShutdownNotify
<1> QED BY <1>2, <1>3, <1>4, <1>5, <1>6

LEMMA InitSlots == Init => SlotsKept
  BY DEF Init, SlotsKept

\* Everything the invariant says holds always.
LEMMA Invariance == Spec => [](IInv /\ SlotsKept)
<1>1. Init => IInv /\ SlotsKept BY InitInv, InitSlots
<1>2. IInv /\ SlotsKept /\ [Next]_vars => (IInv /\ SlotsKept)'
  BY StepInv, StepSlots
<1> QED BY <1>1, <1>2, PTL DEF Spec

\* The indices keep their order: neither thread, nor memory, runs ahead.
THEOREM IndicesOrdered == Spec => []TypeOK
<1>1. IInv /\ SlotsKept => TypeOK BY DEF IInv
<1> QED BY <1>1, Invariance, PTL

\* push() and popW() lose no wakeup, whatever the store buffers delay.
THEOREM NoWakeupLost == Spec => []NoLostWakeup
<1>1. IInv => NoLostWakeup
  BY DEF IInv, TypeOK, SleepInv, NoLostWakeup, MustWait
<1> QED BY <1>1, Invariance, PTL

\* Nothing is overwritten before it is taken, and nothing unpublished taken.
THEOREM NothingOverwritten == Spec => []SlotsKept
  BY Invariance, PTL

-----------------------------------------------------------------------------
(***************************************************************************)
(* The ring buffer implements Fifo, but for liveness.  A step of the ring  *)
(* buffer that moves w is a Put, one that moves rOwn a Get.                *)
(***************************************************************************)

\* The values from index a up to index b.
Between(a, b) == [i \in 1 .. (b - a) |-> a + i - 1]

queue == [i \in 1 .. (w - rOwn) |-> ring[slot(rOwn + i - 1)]]

\* With its slots kept, the queue is the numbers between the indices.
LEMMA QueueIs == IInv /\ SlotsKept => queue = Between(rOwn, w)
<1> SUFFICES ASSUME IInv, SlotsKept PROVE queue = Between(rOwn, w) OBVIOUS
<1> USE DEF IInv, TypeOK
<1>1. ASSUME NEW i \in 1 .. (w - rOwn)
      PROVE ring[slot(rOwn + i - 1)] = rOwn + i - 1
  <2>1. rOwn + i - 1 \in rOwn .. wOwn - 1 OBVIOUS
  <2> QED BY <2>1 DEF SlotsKept
<1> QED BY <1>1 DEF queue, Between

LEMMA BetweenSeq ==
  \A a, b \in Nat : a <= b =>
    /\ Between(a, b) \in Seq(Nat)
    /\ Len(Between(a, b)) = b - a
    /\ \A i \in 1 .. (b - a) : Between(a, b)[i] = a + i - 1
  BY DEF Between

\* One more at the end.
LEMMA BetweenAppend ==
  ASSUME NEW a \in Nat, NEW b \in Nat, a <= b
  PROVE  Between(a, b + 1) = Append(Between(a, b), b)
<1> DEFINE s == Between(a, b)
           t == Between(a, b + 1)
           u == Append(s, b)
<1>1. s \in Seq(Nat) /\ Len(s) = b - a BY BetweenSeq
<1>2. /\ t \in Seq(Nat) /\ Len(t) = b - a + 1
      /\ \A i \in 1 .. (b - a + 1) : t[i] = a + i - 1
  <2>1. b + 1 \in Nat /\ a <= b + 1 /\ (b + 1) - a = b - a + 1 OBVIOUS
  <2> QED BY <2>1, BetweenSeq
<1>3. \A i \in 1 .. (b - a) : s[i] = a + i - 1 BY BetweenSeq
<1> HIDE DEF s, t
<1>4. /\ u \in Seq(Nat) /\ Len(u) = b - a + 1
      /\ \A i \in 1 .. (b - a) : u[i] = s[i]
      /\ u[b - a + 1] = b
  BY <1>1, AppendProperties
<1> HIDE DEF u
<1>5. ASSUME NEW i \in 1 .. (b - a + 1) PROVE t[i] = u[i]
  <2>1. CASE i = b - a + 1 BY <1>2, <1>4, <2>1
  <2>2. CASE i \in 1 .. (b - a) BY <1>2, <1>3, <1>4, <2>2
  <2> QED BY <2>1, <2>2
<1>6. t = u BY <1>2, <1>4, <1>5, SeqEqual
<1> QED BY <1>6 DEF s, t, u

\* One fewer at the front.
LEMMA BetweenTail ==
  ASSUME NEW a \in Nat, NEW b \in Nat, a < b
  PROVE  /\ Between(a, b) # << >>
         /\ Head(Between(a, b)) = a
         /\ Tail(Between(a, b)) = Between(a + 1, b)
<1> DEFINE s == Between(a, b)
           t == Between(a + 1, b)
           u == Tail(s)
<1>1. /\ s \in Seq(Nat) /\ Len(s) = b - a
      /\ \A i \in 1 .. (b - a) : s[i] = a + i - 1
  <2>1. a <= b OBVIOUS
  <2>2. Between(a, b) \in Seq(Nat) /\ Len(Between(a, b)) = b - a
    BY <2>1, BetweenSeq
  <2>3. \A i \in 1 .. (b - a) : Between(a, b)[i] = a + i - 1
    BY <2>1, BetweenSeq
  <2> QED BY <2>2, <2>3
<1>2. /\ t \in Seq(Nat) /\ Len(t) = b - a - 1
      /\ \A i \in 1 .. (b - a - 1) : t[i] = a + i
  <2>1. a + 1 \in Nat /\ a + 1 <= b /\ b - (a + 1) = b - a - 1 OBVIOUS
  <2>2. Between(a + 1, b) \in Seq(Nat) /\ Len(Between(a + 1, b)) = b - (a + 1)
    BY <2>1, BetweenSeq
  <2>3. ASSUME NEW i \in 1 .. (b - a - 1) PROVE Between(a + 1, b)[i] = a + i
    <3>1. i \in 1 .. (b - (a + 1)) /\ (a + 1) + i - 1 = a + i OBVIOUS
    <3>2. Between(a + 1, b)[i] = (a + 1) + i - 1 BY <2>1, <3>1, BetweenSeq
    <3> QED BY <3>1, <3>2
  <2> QED BY <2>1, <2>2, <2>3
<1> HIDE DEF s, t
<1>3. s # << >> BY <1>1
<1>4. Head(s) = a BY <1>1, <1>3
<1>5. /\ u \in Seq(Nat) /\ Len(u) = b - a - 1
      /\ \A i \in 1 .. (b - a - 1) : u[i] = s[i + 1]
  BY <1>1, <1>3, HeadTailProperties
<1> HIDE DEF u
<1>6. ASSUME NEW i \in 1 .. (b - a - 1) PROVE t[i] = u[i]
  <2>1. i + 1 \in 1 .. (b - a) /\ a + (i + 1) - 1 = a + i OBVIOUS
  <2> QED BY <1>1, <1>2, <1>5, <2>1
<1>7. t = u BY <1>2, <1>5, <1>6, SeqEqual
<1> QED BY <1>3, <1>4, <1>7 DEF s, t, u

\* The initial states map to initial states.
LEMMA InitMaps == Init => Promise!Init
<1> SUFFICES ASSUME Init PROVE Promise!Init OBVIOUS
<1>1. queue = << >> BY DEF Init, queue
<1> QED BY <1>1 DEF Init, Promise!Init, queue

\* A step maps to a step or to a stutter.
LEMMA StepMaps ==
  IInv /\ SlotsKept /\ [Next]_vars => [Promise!Next]_(Promise!vars)
<1> SUFFICES ASSUME IInv, SlotsKept, [Next]_vars
             PROVE  [Promise!Next]_(Promise!vars)
  OBVIOUS
<1>1. queue = Between(rOwn, w) BY QueueIs
<1>2. queue' = Between(rOwn', w')
  <2>1. IInv' /\ SlotsKept' BY StepInv, StepSlots
  <2>2. (IInv /\ SlotsKept => queue = Between(rOwn, w))'
    BY QueueIs, PTL
  <2> QED BY <2>1, <2>2
<1>3. rOwn \in Nat /\ w \in Nat /\ rOwn <= w BY DEF IInv, TypeOK
<1>4. CASE DrainW
  <2>1. queue' = Append(queue, w) BY <1>1, <1>2, <1>3, <1>4, BetweenAppend DEF DrainW
  <2>2. Len(queue) < Capacity
    BY <1>1, <1>3, <1>4, BetweenSeq, SMTT(30) DEF DrainW, SlotsKept, IInv, TypeOK
  <2>3. w \in 0 .. MaxPush - 1 BY <1>4 DEF DrainW, IInv, TypeOK
  <2>4. Promise!Put(w) BY <1>4, <2>1, <2>2 DEF DrainW, Promise!Put, queue
  <2> QED BY <2>3, <2>4 DEF Promise!Next
<1>5. CASE Take
  <2>1. rOwn < w BY <1>5 DEF Take, IInv, PopInv
  <2>2. queue # << >> /\ Head(queue) = rOwn /\ queue' = Tail(queue)
    BY <1>1, <1>2, <1>3, <1>5, <2>1, BetweenTail DEF Take
  <2>3. value' = rOwn
    BY <1>5, <2>1 DEF Take, SlotsKept, IInv, TypeOK
  <2>4. Promise!Get BY <1>5, <2>2, <2>3 DEF Take, Promise!Get, queue
  <2> QED BY <2>4 DEF Promise!Next
<1>6. CASE Decide
  <2>1. UNCHANGED <<queue, value>> BY <1>6 DEF Decide, indices, queue
  <2>2. CASE Stops
    <3>1. w = rOwn BY <1>6, <2>2 DEF Decide, Stops, IInv, StoreInv
    <3>2. queue = << >> BY <1>1, <1>3, <3>1, BetweenSeq
    <3>3. Promise!Stop BY <1>6, <2>1, <2>2, <3>2 DEF Decide, Promise!Stop, queue
    <3> QED BY <3>3 DEF Promise!Next
  <2>3. CASE ~Stops
    BY <1>6, <2>1, <2>3 DEF Decide, Promise!vars, queue
  <2> QED BY <2>2, <2>3
<1>7. CASE Startup
  <2>1. queue' = << >> BY <1>2, <1>7 DEF Startup, Between
  <2>2. Promise!Restart BY <1>7, <2>1 DEF Startup, Promise!Restart, queue
  <2> QED BY <2>2 DEF Promise!Next
<1>8. ASSUME ~DrainW, ~Take, ~Decide, ~Startup
      PROVE  UNCHANGED Promise!vars
  <2>1. UNCHANGED <<rOwn, w, value, consumer # "stopped">>
    BY <1>8 DEF Next, vars, indices, Push, Look, Notify, PopW, Lock, Test, Wake,
       WakeSpuriously, DrainR, Shutdown, ShutdownNotify, IInv, TypeOK
  <2> QED BY <1>1, <1>2, <2>1 DEF Promise!vars, queue
<1> QED BY <1>4, <1>5, <1>6, <1>7, <1>8

\* The ring buffer implements Fifo, liveness apart: every value pushed comes
\* out once, in order, before popW() gives up.
THEOREM ImplementsFifo == Spec => Promise!Safety
  BY InitMaps, StepMaps, Invariance, PTL DEF Spec, Promise!Safety
=============================================================================
