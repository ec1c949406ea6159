----------------------------- MODULE SPSCQueue ------------------------------
(***************************************************************************)
(* The single-producer, single-consumer ring buffer between the threads of *)
(* a DRP: psdaq/drp/spscqueue.hh.                                          *)
(*                                                                         *)
(* The indices are atomics on x86: a thread's stores wait in its store     *)
(* buffer and reach memory in order, some time later or at a fence.  The   *)
(* producer sees the write index it stored (wOwn) before others do (w),    *)
(* and so does the consumer with the read index.  A slot is stored before  *)
(* the index that publishes it, so slots are taken to reach memory at once.*)
(* push() is two steps and a notification; popW() looks without the lock   *)
(* first, then with it, and waits on the condition variable.               *)
(***************************************************************************)
EXTENDS Naturals

CONSTANTS
  Capacity,   \* slots of m_ring_buffer
  MaxPush,    \* bound on the pushes between startups
  Null        \* a slot's contents before the first push

ASSUME QueueAssumption ==
  /\ Capacity \in Nat \ {0}
  /\ MaxPush \in Nat
  /\ Null \notin Nat

VARIABLES
  ring,       \* m_ring_buffer
  w, r,       \* m_write_index and m_read_index in memory
  wOwn,       \* m_write_index as the producer has it
  rOwn,       \* m_read_index as the consumer has it
  producer,   \* where push() is
  consumer,   \* where popW() is
  closer,     \* where shutdown() is
  mutex,      \* m_mutex is held by the consumer
  notified,   \* the consumer was notified while it waits
  terminate,  \* m_terminate
  value       \* the value popped last

indices == <<w, r, wOwn, rOwn>>
vars == <<ring, indices, producer, consumer, closer, mutex, notified, terminate,
          value>>

slot(i) == i % Capacity

(***************************************************************************)
(* Definitions whose comment begins with "Slip:" are wrong on purpose.     *)
(* They are used only to show that the properties notice such a slip.      *)
(***************************************************************************)

Init ==
  /\ ring = [i \in 0 .. Capacity - 1 |-> Null]
  /\ w = 0 /\ r = 0 /\ wOwn = 0 /\ rOwn = 0
  /\ producer = "idle" /\ consumer = "idle" /\ closer = "idle"
  /\ mutex = FALSE /\ notified = FALSE /\ terminate = FALSE
  /\ value = Null

-----------------------------------------------------------------------------
\* Slip: one buffer too many.
HasBufferMore == wOwn - rOwn <= Capacity

\* What the DRP pushes are buffers of which it has Capacity: those that have
\* not come out of the queue cannot be pushed again.
HasBuffer == wOwn - rOwn < Capacity

\* push(): the slot and the index are stored.
Push ==
  /\ producer = "idle"
  /\ wOwn < MaxPush /\ HasBuffer
  /\ ring' = [ring EXCEPT ![slot(wOwn)] = wOwn]
  /\ wOwn' = wOwn + 1
  /\ producer' = "fence"
  /\ UNCHANGED <<w, r, rOwn, consumer, closer, mutex, notified, terminate, value>>

\* Slip: no fence between the store and the load.
FencedAnyhow == TRUE

\* mfence: the store buffer is empty.
Fenced == w = wOwn

\* The queue was empty before this push, by what the memory says now.
WasEmpty == wOwn - 1 = r

\* push(), after the fence: is the consumer to be notified?
Look ==
  /\ producer = "fence" /\ Fenced
  /\ producer' = IF WasEmpty THEN "notify" ELSE "idle"
  /\ UNCHANGED <<ring, indices, consumer, closer, mutex, notified, terminate, value>>

\* push(): lock, notify_one(), unlock.
Notify ==
  /\ producer = "notify" /\ ~mutex
  /\ producer' = "idle"
  /\ notified' = (consumer = "waiting" \/ notified)
  /\ UNCHANGED <<ring, indices, consumer, closer, mutex, terminate, value>>

-----------------------------------------------------------------------------
\* popW(), and pop() and try_pop() likewise: the look without the lock.
PopW ==
  /\ consumer = "idle"
  /\ consumer' = IF rOwn = w THEN "lock" ELSE "take"
  /\ UNCHANGED <<ring, indices, producer, closer, mutex, notified, terminate, value>>

\* popW(): taking the lock empties the store buffer.
Lock ==
  /\ consumer = "lock" /\ ~mutex /\ r = rOwn
  /\ mutex' = TRUE /\ consumer' = "test"
  /\ UNCHANGED <<ring, indices, producer, closer, notified, terminate, value>>

\* The negation of the condition that wait() is given.
MustWait == r = w /\ ~terminate

\* popW(): wait() tests its condition, and goes to sleep if it is false,
\* which releases the lock.
Test ==
  /\ consumer = "test"
  /\ \/ MustWait /\ consumer' = "waiting" /\ mutex' = FALSE
     \/ ~MustWait /\ consumer' = "decide" /\ UNCHANGED mutex
  /\ notified' = FALSE
  /\ UNCHANGED <<ring, indices, producer, closer, terminate, value>>

\* wait() wakes up with the lock, for a notification or spuriously.
Wake ==
  /\ consumer = "waiting" /\ ~mutex /\ notified
  /\ mutex' = TRUE /\ consumer' = "test"
  /\ UNCHANGED <<ring, indices, producer, closer, notified, terminate, value>>

WakeSpuriously ==
  /\ consumer = "waiting" /\ ~mutex /\ ~notified
  /\ mutex' = TRUE /\ consumer' = "test"
  /\ UNCHANGED <<ring, indices, producer, closer, notified, terminate, value>>

\* Slip: the queue is not emptied before the consumer stops.
StopsRegardless == terminate

Stops == terminate /\ r = w

\* popW(): after the wait, return false or go on, and release the lock.
Decide ==
  /\ consumer = "decide"
  /\ consumer' = IF Stops THEN "stopped" ELSE "take"
  /\ mutex' = FALSE
  /\ UNCHANGED <<ring, indices, producer, closer, notified, terminate, value>>

\* popW(): the value is read and the index stored.
Take ==
  /\ consumer = "take"
  /\ value' = ring[slot(rOwn)]
  /\ rOwn' = rOwn + 1
  /\ consumer' = "idle"
  /\ UNCHANGED <<ring, w, r, wOwn, producer, closer, mutex, notified, terminate>>

-----------------------------------------------------------------------------
\* The store buffers reach memory.
DrainW ==
  /\ w < wOwn /\ w' = w + 1
  /\ UNCHANGED <<ring, r, wOwn, rOwn, producer, consumer, closer, mutex, notified,
                 terminate, value>>

DrainR ==
  /\ r < rOwn /\ r' = r + 1
  /\ UNCHANGED <<ring, w, wOwn, rOwn, producer, consumer, closer, mutex, notified,
                 terminate, value>>

\* shutdown(): m_terminate is set under the lock, ...
Shutdown ==
  /\ closer = "idle" /\ ~terminate /\ ~mutex
  /\ terminate' = TRUE /\ closer' = "notify"
  /\ UNCHANGED <<ring, indices, producer, consumer, mutex, notified, value>>

\* ... and the consumer notified without it.
ShutdownNotify ==
  /\ closer = "notify"
  /\ closer' = "idle"
  /\ notified' = (consumer = "waiting" \/ notified)
  /\ UNCHANGED <<ring, indices, producer, consumer, mutex, terminate, value>>

\* Slip: the read index is left.
StartupHalf ==
  /\ consumer = "stopped" /\ producer = "idle" /\ closer = "idle"
  /\ terminate' = FALSE
  /\ w' = 0 /\ wOwn' = 0
  /\ consumer' = "idle"
  /\ UNCHANGED <<ring, r, rOwn, producer, closer, mutex, notified, value>>

\* startup(), when the threads have ended, for the next ones.
Startup ==
  /\ consumer = "stopped" /\ producer = "idle" /\ closer = "idle"
  /\ terminate' = FALSE
  /\ w' = 0 /\ r' = 0 /\ wOwn' = 0 /\ rOwn' = 0
  /\ consumer' = "idle"
  /\ UNCHANGED <<ring, producer, closer, mutex, notified, value>>

Next ==
  \/ Push \/ Look \/ Notify
  \/ PopW \/ Lock \/ Test \/ Wake \/ WakeSpuriously \/ Decide \/ Take
  \/ DrainW \/ DrainR
  \/ Shutdown \/ ShutdownNotify \/ Startup

Spec == Init /\ [][Next]_vars

\* The consumer thread loops on pop(), threads run, the lock is granted, and
\* stores reach memory.
Fairness ==
  /\ WF_vars(Look) /\ WF_vars(Notify) /\ WF_vars(ShutdownNotify)
  /\ WF_vars(PopW \/ Test \/ Decide \/ Take)
  /\ WF_vars(Lock) /\ WF_vars(Wake)
  /\ WF_vars(DrainW) /\ WF_vars(DrainR)

FairSpec == Spec /\ Fairness

-----------------------------------------------------------------------------
\* The reader is never ahead of the writer, nor memory of a thread.
TypeOK ==
  /\ ring \in [0 .. Capacity - 1 -> Nat \cup {Null}]
  /\ wOwn \in 0 .. MaxPush /\ w \in 0 .. wOwn /\ rOwn \in 0 .. w /\ r \in 0 .. rOwn
  /\ producer \in {"idle", "fence", "notify"}
  /\ consumer \in {"idle", "lock", "test", "waiting", "decide", "take", "stopped"}
  /\ closer \in {"idle", "notify"}
  /\ mutex \in BOOLEAN /\ notified \in BOOLEAN /\ terminate \in BOOLEAN
  /\ value \in Nat \cup {Null}

\* No lost wakeup: whenever the consumer sleeps with something to do, a
\* notification has been made or is about to be (push()'s fence and lock).
NoLostWakeup ==
  consumer = "waiting" /\ ~MustWait =>
    \/ notified
    \/ producer = "fence" /\ wOwn - 1 = r
    \/ producer = "notify"
    \/ closer = "notify"

\* A slot is not written again before its value has been taken, and popW()
\* takes only what push() has published.
SlotsKept ==
  /\ wOwn <= rOwn + Capacity
  /\ consumer = "take" => rOwn < w
  /\ \A i \in rOwn .. wOwn - 1 : ring[slot(i)] = i

\* The ring buffer implements the queue Fifo specifies.  A value is in the
\* queue when the index has reached memory.
Promise == INSTANCE Fifo WITH
  Value <- (0 .. MaxPush - 1) \cup {Null},
  queue <- [i \in 1 .. (w - rOwn) |-> ring[slot(rOwn + i - 1)]],
  out <- value,
  reading <- consumer # "stopped"

IsFifo == Promise!Spec
=============================================================================
