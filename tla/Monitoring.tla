----------------------------- MODULE Monitoring -----------------------------
(***************************************************************************)
(* How events get to the monitoring clients: the MEB in                    *)
(* psdaq/psdaq/monreq/monReqServer.cc with the shared memory server        *)
(* psalg/psalg/shmem/XtcMonitorServer.cc, Teb::_monitor() in               *)
(* psdaq/psdaq/eb/teb.cc and MebContributor.cc in the DRPs.                *)
(*                                                                         *)
(* A MEB asks for an event by sending the index of a free buffer to one of *)
(* the TEBs.  The TEB puts the index into the result of an event that its  *)
(* trigger selects, and the DRPs that have that event write it into the    *)
(* buffer.  The MEB builds the event, copies it to shared memory for a     *)
(* client and has the buffer again.                                        *)
(***************************************************************************)
EXTENDS Naturals, Sequences, FiniteSets, Functions

CONSTANTS
  Drps,        \* the DRPs
  Common,      \* the DRP that is in every event
  NumTebs,     \* number of TEBs
  NumMebs,     \* number of MEBs
  NumBufs,     \* numEvBuffers of a MEB, and of its shared memory
  TrBuffers,   \* MEB_TR_BUFFERS
  Reserved,    \* _rogReserved
  Wants,       \* the choices of MEBs the trigger makes
  MaxPid,      \* bound on pulse IDs
  MaxFails,    \* bound on posts that fail
  MaxConfigs,  \* bound on configurations
  Ways         \* "connect" and "configure": how they begin

Pids == 1 .. MaxPid
Tebs == 0 .. NumTebs - 1
Mebs == 0 .. NumMebs - 1
Bufs == 0 .. NumBufs - 1

ASSUME MonitoringAssumption ==
  /\ Common \in Drps
  /\ {NumTebs, NumMebs, NumBufs, TrBuffers, MaxPid, MaxConfigs} \subseteq Nat \ {0}
  /\ Reserved \in Nat /\ MaxFails \in Nat
  /\ Wants \subseteq SUBSET Mebs
  /\ Ways \subseteq {"connect", "configure"}

VARIABLES
  groups,    \* [Pids -> SUBSET Drps]: who has the event
  want,      \* [Pids -> SUBSET Mebs]: the trigger's choice
  trans,     \* SUBSET Pids: the transitions
  \* TEB
  mrq,       \* [Tebs -> [Mebs -> Seq(Bufs)]]: requests under way
  lists,     \* [Tebs -> [Mebs -> Seq(Bufs)]]: _monBufLists
  iMeb,      \* [Tebs -> Mebs]: _iMeb
  result,    \* [Pids -> ...]: <<>>: none yet, <<"no">>, <<"yes", meb, buffer>>
  \* DRP
  at,        \* [Drps -> 0 .. MaxPid]: the last pulse whose result it has
  trFree,    \* [Drps -> [Mebs -> Nat]]: transition buffers left
  \* MEB
  region,    \* [Mebs -> [Drps -> [Bufs -> 0 .. MaxPid]]]: what was written
  arrived,   \* [Mebs -> SUBSET (Drps \X Pids)]: contributions not yet built
  pidPrv,    \* [Mebs -> 0 .. MaxPid]
  free,      \* [Mebs -> Seq(Bufs)]: _bufFreeList
  iTeb,      \* [Mebs -> Tebs]: _iTeb
  \* shared memory buffers
  back,      \* [Mebs -> Nat]: on the input queue, given back by clients
  reqs,      \* [Mebs -> Nat]: on the request queue
  shuffle,   \* [Mebs -> Seq(Bufs \X Pids)]: on the shuffle queue, with an event
  out,       \* [Mebs -> Nat]: with clients, or on the output queues
  copied,    \* [Mebs -> SUBSET Pids]: events copied for clients
  dropped,   \* [Mebs -> SUBSET Pids]: and those that were not
  unasked,   \* [Mebs -> Nat]: requests that no TEB got
  fails, configs

pulse == <<groups, want, trans>>
teb   == <<mrq, lists, iMeb, result>>
drp   == <<at, trFree>>
meb   == <<region, arrived, pidPrv, free, iTeb>>
shm   == <<back, reqs, shuffle, out, copied, dropped, unasked>>
vars  == <<pulse, teb, drp, meb, shm, fails, configs>>

Dst(p) == p % NumTebs        \* the TEB of pulse p

(***************************************************************************)
(* Definitions whose comment begins with "Slip:" are wrong on purpose.     *)
(* They are used only to show that the properties notice such a slip.      *)
(***************************************************************************)

AllFree == [i \in 1 .. NumBufs |-> i - 1]
NoRequests == [m \in Mebs |-> << >>]

Init ==
  /\ trans \in SUBSET Pids
  /\ groups \in [Pids -> {g \in SUBSET Drps : Common \in g}]
  /\ want \in [Pids -> Wants \cup {{}}]
  /\ \A p \in Pids : IF p \in trans THEN groups[p] = Drps /\ want[p] = {}
                    ELSE want[p] \in Wants
  /\ mrq = [t \in Tebs |-> NoRequests] /\ lists = [t \in Tebs |-> NoRequests]
  /\ iMeb = [t \in Tebs |-> 0]
  /\ result = [p \in Pids |-> << >>]
  /\ at = [d \in Drps |-> 0]
  /\ trFree = [d \in Drps |-> [m \in Mebs |-> TrBuffers]]
  /\ region = [m \in Mebs |-> [d \in Drps |-> [b \in Bufs |-> 0]]]
  /\ arrived = [m \in Mebs |-> {}]
  /\ pidPrv = [m \in Mebs |-> 0]
  /\ free = [m \in Mebs |-> AllFree]
  /\ iTeb = [m \in Mebs |-> 0]
  /\ back = [m \in Mebs |-> NumBufs]
  /\ reqs = [m \in Mebs |-> 0]
  /\ shuffle = [m \in Mebs |-> << >>]
  /\ out = [m \in Mebs |-> 0]
  /\ copied = [m \in Mebs |-> {}]
  /\ dropped = [m \in Mebs |-> {}]
  /\ unasked = [m \in Mebs |-> 0]
  /\ fails = 0 /\ configs = 1

-----------------------------------------------------------------------------
(***************************************************************************)
(* The shared memory server's thread                                       *)
(***************************************************************************)

\* Slip: a buffer whose request could not be posted is not put back.
AfterFailedPostLost(m) == Tail(free[m])

\* "Don't leak buffers".
AfterFailedPost(m) == Append(Tail(free[m]), Head(free[m]))

\* Round robin through the TEBs.
NextTeb(m, k) == (iTeb[m] + k + 1) % NumTebs

\* A client has given a shared memory buffer back: _requestDatagram() posts the
\* index of a free buffer to the next TEB that takes it, after k that do not.
Request(m, k) ==
  /\ back[m] > 0 /\ k <= NumTebs /\ fails + k <= MaxFails
  /\ back' = [back EXCEPT ![m] = @ - 1]
  /\ reqs' = [reqs EXCEPT ![m] = @ + 1]
  /\ fails' = fails + k
  /\ IF free[m] = << >>
     THEN /\ k = 0 /\ unasked' = [unasked EXCEPT ![m] = @ + 1]
          /\ UNCHANGED <<free, iTeb, mrq>>
     ELSE IF k = NumTebs
     THEN /\ free' = [free EXCEPT ![m] = AfterFailedPost(m)]
          /\ unasked' = [unasked EXCEPT ![m] = @ + 1]
          /\ UNCHANGED <<iTeb, mrq>>
     ELSE /\ free' = [free EXCEPT ![m] = Tail(@)]
          /\ iTeb' = [iTeb EXCEPT ![m] = NextTeb(m, k)]
          /\ mrq' = [mrq EXCEPT ![(iTeb[m] + k) % NumTebs][m] =
                       Append(@, Head(free[m]))]
          /\ UNCHANGED unasked
  /\ UNCHANGED <<pulse, lists, iMeb, result, drp, region, arrived, pidPrv,
                 shuffle, out, copied, dropped, configs>>

\* _deleteDatagram() does not put an index on the free list twice.
Deleted(m, b) == IF b \in Range(free[m]) THEN free[m] ELSE Append(free[m], b)

\* An event is copied to shared memory, then _deleteDatagram(); the shared
\* memory buffer goes to a client, or where clients give them back when all the
\* output queues are full.
Distribute(m) ==
  /\ shuffle[m] # << >>
  /\ LET b == Head(shuffle[m])[1]
         p == Head(shuffle[m])[2]
     IN /\ free' = [free EXCEPT ![m] = Deleted(m, b)]
        /\ copied' = [copied EXCEPT ![m] = @ \cup {p}]
  /\ shuffle' = [shuffle EXCEPT ![m] = Tail(@)]
  /\ \/ out' = [out EXCEPT ![m] = @ + 1] /\ UNCHANGED back
     \/ back' = [back EXCEPT ![m] = @ + 1] /\ UNCHANGED out
  /\ UNCHANGED <<pulse, teb, drp, region, arrived, pidPrv, iTeb, reqs, dropped,
                 unasked, fails, configs>>

\* A client is through with an event, or is gone.
ClientReturns(m) ==
  /\ out[m] > 0
  /\ out' = [out EXCEPT ![m] = @ - 1]
  /\ back' = [back EXCEPT ![m] = @ + 1]
  /\ UNCHANGED <<pulse, teb, drp, meb, reqs, shuffle, copied, dropped, unasked,
                 fails, configs>>

-----------------------------------------------------------------------------
(***************************************************************************)
(* The TEB                                                                 *)
(***************************************************************************)

\* What MEB m has asked of TEB t, the requests on its list first.
Requests(t, m) == lists[t][m] \o mrq[t][m]

\* The lists of TEB t once the requests that have come are on them.  A list has
\* room for every buffer of its MEB; what does not fit is lost.
Polled(t) ==
  [m \in Mebs |-> IF Len(Requests(t, m)) <= NumBufs THEN Requests(t, m)
                  ELSE SubSeq(Requests(t, m), 1, NumBufs)]

\* The order in which MEBs are tried: the next in turn first, or the lowest.
Turn(t, p, m) == IF want[p] = Mebs THEN (m + NumMebs - iMeb[t]) % NumMebs ELSE m

\* Slip: the buffer stays on the list.
TakenKept(list) == list

Taken(list) == Tail(list)

\* Teb::_monitor() for an event that is to be monitored.
Monitor(t, p) ==
  LET polled == Polled(t)
      able   == {m \in want[p] : Len(polled[m]) > Reserved}
      first  == CHOOSE m \in able : \A n \in able : Turn(t, p, m) <= Turn(t, p, n)
      tried  == IF able = {} THEN NumMebs ELSE Turn(t, p, first) + 1
  IN /\ mrq' = [mrq EXCEPT ![t] = NoRequests]
     /\ lists' = [lists EXCEPT ![t] = IF able = {} THEN polled
                    ELSE [polled EXCEPT ![first] = Taken(@)]]
     /\ result' = [result EXCEPT ![p] = IF able = {} THEN <<"no">>
                     ELSE <<"yes", first, Head(polled[first])>>]
     /\ iMeb' = IF want[p] = Mebs
                THEN [iMeb EXCEPT ![t] = (@ + tried) % NumMebs] ELSE iMeb

\* TEB t has processed event p, as all before it that it is to process.
Decide(t, p) ==
  /\ Dst(p) = t /\ result[p] = << >>
  /\ \A q \in Pids : q < p /\ Dst(q) = t => result[q] # << >>
  /\ IF want[p] = {}
     THEN result' = [result EXCEPT ![p] = <<"no">>] /\ UNCHANGED <<mrq, lists, iMeb>>
     ELSE Monitor(t, p)
  /\ UNCHANGED <<pulse, drp, meb, shm, fails, configs>>

-----------------------------------------------------------------------------
(***************************************************************************)
(* The DRP: the end of EbReceiver::process()                               *)
(***************************************************************************)

\* A DRP has the results in the order of pulses.  A monitored event is written
\* into the buffer of its MEB, a transition into a buffer of every MEB.
Contribute(d, p) ==
  /\ at[d] < p /\ d \in groups[p] /\ result[p] # << >>
  /\ \A q \in Pids : at[d] < q /\ q < p => d \notin groups[q]
  /\ at' = [at EXCEPT ![d] = p]
  /\ IF p \in trans
     THEN /\ \A m \in Mebs : trFree[d][m] > 0
          /\ trFree' = [trFree EXCEPT ![d] = [m \in Mebs |-> @[m] - 1]]
          /\ arrived' = [m \in Mebs |-> arrived[m] \cup {<<d, p>>}]
          /\ UNCHANGED region
     ELSE IF result[p][1] = "yes"
     THEN /\ arrived' = [arrived EXCEPT ![result[p][2]] = @ \cup {<<d, p>>}]
          /\ region' = [region EXCEPT ![result[p][2]][d][result[p][3]] = p]
          /\ UNCHANGED trFree
     ELSE UNCHANGED <<trFree, arrived, region>>
  /\ UNCHANGED <<pulse, teb, pidPrv, free, iTeb, shm, fails, configs>>

-----------------------------------------------------------------------------
(***************************************************************************)
(* The MEB                                                                 *)
(***************************************************************************)

\* Slip: any complete event.
RetiresAny(m, p) == TRUE

\* The event builder retires the oldest event.
Retires(m, p) == \A c \in arrived[m] : p <= c[2]

\* Slip: the buffer of a transition is kept.
GivenBackNot(m) == trFree

\* post(): the transition buffers are the contributors' again.
GivenBack(m) == [d \in Drps |-> [trFree[d] EXCEPT ![m] = @ + 1]]

\* Meb::process(): a transition is handed to the clients (Enable also takes the
\* events from them that they have not yet looked at), an event takes a shared
\* memory buffer that waits for one, or one from a client, or is dropped.
Build(m, p) ==
  /\ \A d \in groups[p] : <<d, p>> \in arrived[m]
  /\ Retires(m, p)
  /\ arrived' = [arrived EXCEPT ![m] = @ \ (Drps \X {p})]
  /\ pidPrv' = [pidPrv EXCEPT ![m] = p]
  /\ IF p \in trans
     THEN /\ trFree' = GivenBack(m)
          /\ \E k \in 0 .. out[m] :
               /\ out' = [out EXCEPT ![m] = @ - k]
               /\ back' = [back EXCEPT ![m] = @ + k]
          /\ UNCHANGED <<reqs, shuffle, free, dropped>>
     ELSE /\ IF reqs[m] + out[m] > 0
             THEN /\ shuffle' = [shuffle EXCEPT ![m] = Append(@, <<result[p][3], p>>)]
                  /\ reqs' = [reqs EXCEPT ![m] = IF @ > 0 THEN @ - 1 ELSE @]
                  /\ out' = [out EXCEPT ![m] = IF reqs[m] > 0 THEN @ ELSE @ - 1]
                  /\ UNCHANGED <<free, dropped>>
             ELSE /\ free' = [free EXCEPT ![m] = Deleted(m, result[p][3])]
                  /\ dropped' = [dropped EXCEPT ![m] = @ \cup {p}]
                  /\ UNCHANGED <<shuffle, reqs, out>>
          /\ UNCHANGED <<trFree, back>>
  /\ UNCHANGED <<pulse, teb, at, region, iTeb, copied, unasked, fails, configs>>

-----------------------------------------------------------------------------
(***************************************************************************)
(* The next configuration                                                  *)
(***************************************************************************)

\* Slip: the lists of the TEBs are kept when they disconnect.
ListsKept(way) == lists

\* Teb::disconnect() clears the lists.  Teb::run() clears copies of them.
Lists(way) ==
  IF way = "connect" THEN [t \in Tebs |-> NoRequests] ELSE lists

\* Everything is quiet; each MEB makes a new shared memory server, in which all
\* buffers are free and none is asked for.  Without a new connection requests
\* that no TEB has polled would stay too; those cases are left out.
Reconfigure(way) ==
  LET n == at[Common]
  IN /\ configs < MaxConfigs
     /\ \A p \in Pids : p <= n <=> result[p] # << >>
     /\ \A p \in 1 .. n : \A d \in groups[p] : at[d] >= p
     /\ \A m \in Mebs : arrived[m] = {} /\ shuffle[m] = << >>
     /\ way = "configure" => \A t \in Tebs : mrq[t] = NoRequests
     /\ configs' = configs + 1
     /\ lists' = Lists(way)
     /\ mrq' = [t \in Tebs |-> NoRequests]
     /\ trFree' = [d \in Drps |-> [m \in Mebs |-> TrBuffers]]
     /\ free' = [m \in Mebs |-> AllFree]
     /\ iTeb' = [m \in Mebs |-> 0]
     /\ back' = [m \in Mebs |-> NumBufs]
     /\ reqs' = [m \in Mebs |-> 0]
     /\ out' = [m \in Mebs |-> 0]
     /\ unasked' = [m \in Mebs |-> 0]
     /\ UNCHANGED <<pulse, iMeb, result, at, region, arrived, pidPrv, shuffle,
                    copied, dropped, fails>>

Next ==
  \/ \E m \in Mebs, k \in 0 .. NumTebs : Request(m, k)
  \/ \E m \in Mebs : Distribute(m)
  \/ \E m \in Mebs : ClientReturns(m)
  \/ \E t \in Tebs, p \in Pids : Decide(t, p)
  \/ \E d \in Drps, p \in Pids : Contribute(d, p)
  \/ \E m \in Mebs, p \in Pids : Build(m, p)
  \/ \E way \in Ways : Reconfigure(way)

Spec == Init /\ [][Next]_vars

\* The threads go on; a client may keep what it has.
Fairness ==
  /\ \A m \in Mebs : WF_vars(Distribute(m)) /\ WF_vars(\E p \in Pids : Build(m, p))
  /\ \A t \in Tebs : WF_vars(\E p \in Pids : Decide(t, p))
  /\ \A d \in Drps : WF_vars(\E p \in Pids : Contribute(d, p))

FairSpec == Spec /\ Fairness

-----------------------------------------------------------------------------
(***************************************************************************)
(* Properties                                                              *)
(***************************************************************************)

\* The type of the state.  Round robin indices stay in range, and neither
\* transition buffers nor shared memory buffers become more than there are.
TypeOK ==
  /\ groups \in [Pids -> SUBSET Drps] /\ want \in [Pids -> SUBSET Mebs]
  /\ trans \subseteq Pids
  /\ mrq \in [Tebs -> [Mebs -> Seq(Bufs)]] /\ lists \in [Tebs -> [Mebs -> Seq(Bufs)]]
  /\ iMeb \in [Tebs -> Mebs]
  /\ result \in [Pids -> {<< >>, <<"no">>} \cup ({"yes"} \X Mebs \X Bufs)]
  /\ at \in [Drps -> 0 .. MaxPid]
  /\ trFree \in [Drps -> [Mebs -> 0 .. TrBuffers]]
  /\ region \in [Mebs -> [Drps -> [Bufs -> 0 .. MaxPid]]]
  /\ arrived \in [Mebs -> SUBSET (Drps \X Pids)] /\ pidPrv \in [Mebs -> 0 .. MaxPid]
  /\ free \in [Mebs -> Seq(Bufs)] /\ shuffle \in [Mebs -> Seq(Bufs \X Pids)]
  /\ iTeb \in [Mebs -> Tebs]
  /\ \A n \in {back, reqs, out, unasked} : n \in [Mebs -> 0 .. NumBufs]
  /\ copied \in [Mebs -> SUBSET Pids] /\ dropped \in [Mebs -> SUBSET Pids]
  /\ fails \in 0 .. MaxFails /\ configs \in 1 .. MaxConfigs

\* Buffer b of MEB m is waiting for event p.
Awaits(m, b, p) == result[p] = <<"yes", m, b>> /\ p > pidPrv[m]

\* The places where buffer b of MEB m is: on the free list, with a TEB, given to
\* an event, or on the shuffle queue with one.
Spots(m, b) ==
  ({"free"} \X {0} \X {i \in DOMAIN free[m] : free[m][i] = b})
    \cup (UNION {{"asked"} \X {t} \X {i \in DOMAIN Requests(t, m) : Requests(t, m)[i] = b} :
                   t \in Tebs})
    \cup ({"given"} \X {0} \X {p \in Pids : Awaits(m, b, p)})
    \cup ({"held"} \X {0} \X {i \in DOMAIN shuffle[m] : shuffle[m][i][1] = b})

\* The buffers of MEB m that it has asked to be filled.
AskedFor(m) ==
  {b \in Bufs : \/ \E t \in Tebs : b \in Range(Requests(t, m))
                \/ \E p \in Pids : Awaits(m, b, p)}

\* A buffer of a MEB is free, or on its way to one TEB, or on the list of one
\* TEB, or given to one event, or holds that event: neither do requests that
\* fail lose a buffer nor is one in two of these places.
BuffersApart ==
  \A m \in Mebs, b \in Bufs : \E s \in Spots(m, b) : Spots(m, b) = {s}

\* _deleteDatagram() calls it an error that an "Index is already on list": two
\* events on their way through a MEB are never in the same buffer.
FreedOnce ==
  \A m \in Mebs :
    LET events == ({c[2] : c \in arrived[m]} \ trans)
                    \cup {shuffle[m][i][2] : i \in DOMAIN shuffle[m]}
    IN \A p, q \in events : p # q => result[p][3] # result[q][3]

\* While an event waits to be copied to shared memory, no DRP writes another
\* one into its buffer.
HeldIntact ==
  \A m \in Mebs : \A i \in DOMAIN shuffle[m] : \A d \in groups[shuffle[m][i][2]] :
    region[m][d][shuffle[m][i][1]] = shuffle[m][i][2]

\* Meb::process() throws "Pulse ID did not advance": a MEB builds its events in
\* the order of pulses, whichever TEBs selected them.
PulseIdAdvances ==
  [][\A m \in Mebs : pidPrv'[m] = pidPrv[m] \/ pidPrv'[m] > pidPrv[m]]_vars

\* A shared memory buffer is on the request queue for every event that was asked
\* for and every request that failed, so that no event is dropped that the DRPs
\* took the trouble to send.
RequestsMatched ==
  \A m \in Mebs :
    /\ reqs[m] = unasked[m] + Cardinality(AskedFor(m))
    /\ dropped[m] = {}

\* An event that a TEB gives a buffer to is copied to shared memory for a client.
MonitoredArrive ==
  \A p \in Pids : result[p] # << >> /\ result[p] # <<"no">> ~> \E m \in Mebs : p \in copied[m]
=============================================================================
