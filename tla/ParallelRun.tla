---- MODULE ParallelRun ----
(*****************************************************************************)
(* psana's parallel event loop (psexp/node.py): one smd0 rank reads the       *)
(* small data of a run in chunks, event builder ranks ask it for chunks and   *)
(* cut them in batches, big data ranks ask their event builder for batches    *)
(* and hand the events to the user.  Every exchange is a request (the rank of *)
(* who asks, received from MPI.ANY_SOURCE) and one answer; an empty answer    *)
(* ends who asked.                                                            *)
(*                                                                            *)
(* Every L1Accept goes to one big data rank, but every transition ("step" in  *)
(* the code) goes to all: StepHistory keeps the steps so far and how many of  *)
(* them each client has been sent, and every answer starts with the missing   *)
(* ones.                                                                      *)
(*                                                                            *)
(* An event is its place in the run's files.  What is left out: the bytes,    *)
(* the file access of the ranks and the user's filter callback.               *)
(*****************************************************************************)
EXTENDS Integers, Sequences, FiniteSetsExt, SequencesExt

CONSTANTS
    NumEbs,      \* PS_EB_NODES
    NumBds,      \* big data ranks: what is left of the MPI ranks
    NumEvents,   \* events in the run's files
    StepSets,    \* which of them may be transitions
    ChunkSize,   \* PS_SMD_N_EVENTS, the most events smd0 puts in a chunk
    BatchSizes,  \* dsparms.batch_size
    Destined,    \* whether the user gave a destination callback
    Mixed,       \* whether a run with destinations has batches of several events,
                 \* as it may with an integrating detector
    Eager,       \* whether MPI buffers what is sent
    MayTerminate \* whether the user may call DataSource.terminate()

ASSUME CountsAssumption ==
    /\ {NumEbs, NumBds, NumEvents, ChunkSize} \subseteq Nat \ {0}
    /\ BatchSizes \subseteq Nat \ {0}
    /\ StepSets \subseteq SUBSET (1 .. NumEvents)
    /\ Destined \subseteq BOOLEAN /\ Eager \subseteq BOOLEAN
    /\ Mixed \in BOOLEAN /\ MayTerminate \in BOOLEAN

Ebs == 1 .. NumEbs
Events == 1 .. NumEvents

\* Communicators: bd_main_comm is split by rank % PS_EB_NODES, an eb is rank 0
\* of its part and its bds are the ranks from 1 on.
BdsOf(e) == 1 .. (NumBds + NumEbs - e) \div NumEbs

VARIABLES
    run,        \* what the run is made of and how the user started it
    smd0,       \* Smd0.start(): where it is, what it read, turns left, StepHistory
    asking,     \* the ebs whose request smd0 has not received
    chunkTo,    \* the chunk on its way to each eb, if any
    eb,         \* EventBuilderNode.start() of each eb
    bdAsking,   \* per eb, the bds whose request it has not received
    batchTo,    \* the batch on its way to each bd, if any
    bd,         \* "ask", "wait" or "done": Events.__next__() of each bd
    seen,       \* the events each bd was given, in this order
    terminated  \* a bd's signal to smd0 is out

vars == <<run, smd0, asking, chunkTo, eb, bdAsking, batchTo, bd, seen, terminated>>

\* The elements of s that are in T, in their order.
Select(s, T) ==
    LET F[n \in 0 .. Len(s)] ==
            IF n = 0 THEN <<>> ELSE IF s[n] \in T THEN Append(F[n - 1], s[n]) ELSE F[n - 1]
    IN F[Len(s)]

IsStep(i) == i \in run.steps
StepsOf(s) == Select(s, run.steps)
Interval(a, b) == [i \in 1 .. b - a + 1 |-> a + i - 1]

-----------------------------------------------------------------------------
(* StepHistory: hist.bufs holds every step so far, hist.sent how many of     *)
(* them each client has been given.                                          *)

NoHistory(clients) == [bufs |-> <<>>, sent |-> [c \in clients |-> 0]]

\* get_buffer() returns the steps the client misses ...
Missing(hist, c) == SubSeq(hist.bufs, hist.sent[c] + 1, Len(hist.bufs))

\* Slip: the steps that go out are not noted as sent to this client.
ExtendedOnly(hist, c, items) ==
    [bufs |-> hist.bufs \o StepsOf(items),
     sent |-> [hist.sent EXCEPT ![c] = Len(hist.bufs)]]

\* ... and notes that it has them; extend_buffers() then adds the steps of
\* what goes out to this client, which it has too.
Extended(hist, c, items) ==
    LET bufs == hist.bufs \o StepsOf(items)
    IN [bufs |-> bufs, sent |-> [hist.sent EXCEPT ![c] = Len(bufs)]]

-----------------------------------------------------------------------------
(* Messages: at most one is on its way to a client, since it asks for each.  *)

Nothing == <<>>
Data(items) == <<[end |-> FALSE, items |-> items]>>
Null == <<[end |-> TRUE, items |-> <<>>]>>   \* bytearray()

\* wait_for(): without buffering a send ends when its message is received.
Waited(mail) == run.eager \/ \A c \in DOMAIN mail : mail[c] = Nothing

-----------------------------------------------------------------------------
(* Smd0.start()                                                              *)

\* found_endrun(), no more data or max_events reached: no chunk is left.
LastChunk(read) == read = NumEvents

\* A chunk holds ChunkSize events, or as many as the read buffers have.
\* The terminating signal is tested after the chunk was sent.
SmdChunk(e) ==
    /\ smd0.pc = "chunk"
    /\ e \in asking
    /\ \E n \in 1 .. ChunkSize :
        /\ smd0.read + n <= NumEvents
        /\ LET chunk == Interval(smd0.read + 1, smd0.read + n)
           IN /\ chunkTo' = [chunkTo EXCEPT ![e] = Data(Missing(smd0.hist, e) \o chunk)]
              /\ smd0' = [smd0 EXCEPT !.read = @ + n,
                                      !.hist = Extended(@, e, chunk),
                                      !.pc = IF terminated \/ LastChunk(smd0.read + n)
                                             THEN "steps" ELSE "chunk"]
    /\ asking' = asking \ {e}
    /\ UNCHANGED <<run, eb, bdAsking, batchTo, bd, seen, terminated>>

\* Once per eb, the steps it misses.  Even without one the chunk has a footer
\* (repack_parallel), so its size is never 0 and no eb is put in waiting_ebs.
SmdSteps(e) ==
    /\ smd0.pc = "steps"
    /\ smd0.turns = 0 => Waited(chunkTo)
    /\ e \in asking
    /\ chunkTo' = [chunkTo EXCEPT ![e] = Data(Missing(smd0.hist, e))]
    /\ smd0' = [smd0 EXCEPT !.hist = Extended(@, e, <<>>),
                            !.turns = (@ + 1) % NumEbs,
                            !.pc = IF smd0.turns + 1 = NumEbs THEN "kill" ELSE "steps"]
    /\ asking' = asking \ {e}
    /\ UNCHANGED <<run, eb, bdAsking, batchTo, bd, seen, terminated>>

SmdKill(e) ==
    /\ smd0.pc = "kill"
    /\ smd0.turns = 0 => Waited(chunkTo)
    /\ e \in asking
    /\ chunkTo' = [chunkTo EXCEPT ![e] = Null]
    /\ smd0' = [smd0 EXCEPT !.turns = (@ + 1) % NumEbs,
                            !.pc = IF smd0.turns + 1 = NumEbs THEN "done" ELSE "kill"]
    /\ asking' = asking \ {e}
    /\ UNCHANGED <<run, eb, bdAsking, batchTo, bd, seen, terminated>>

-----------------------------------------------------------------------------
(* EventBuilderNode.start()                                                  *)

\* destination(): transitions may go to any bd, which is destination 0.
\* The callback names a bd of the eb (a greater number makes the code give up
\* the rest of the chunk).
Destination(e, i) ==
    IF run.destined /\ ~IsStep(i) THEN 1 + (i % Cardinality(BdsOf(e))) ELSE 0

\* EventBuilder.build() and gen_batches(): the next events of the chunk,
\* grouped by destination.
BatchDict(e, todo) ==
    LET batch == SubSeq(todo, 1, Min({run.batch, Len(todo)}))
    IN [d \in {Destination(e, batch[k]) : k \in DOMAIN batch} |->
            Select(batch, {i \in Events : Destination(e, i) = d})]

\* Slip: the batch stays in the dictionary after it was sent.
WithoutNot(dict, d) == dict

Without(dict, d) == [k \in DOMAIN dict \ {d} |-> dict[k]]

\* Slip: the first event after a batch is skipped.
RestSkipping(todo) == SubSeq(todo, run.batch + 2, Len(todo))

Rest(todo) == SubSeq(todo, run.batch + 1, Len(todo))

\* Isend to bd b of what it misses and its batch, whose steps are then noted.
SendTo(e, b, items) ==
    batchTo' = [batchTo EXCEPT ![e][b] = Data(Missing(eb[e].hist, b) \o items)]

\* The next batch of the chunk, or _request_data() when it has none left.  A
\* dictionary that holds destination 0 is reduced to it: the rest is not sent.
NextBatch(e, state, todo) ==
    LET dict == BatchDict(e, todo)
    IN IF todo = <<>> THEN [state EXCEPT !.pc = "receive", !.dict = <<>>, !.todo = <<>>]
       ELSE [state EXCEPT !.pc = "send", !.todo = Rest(todo),
                          !.dict = IF 0 \in DOMAIN dict THEN [d \in {0} |-> dict[0]] ELSE dict]

\* The request to smd0 goes out at once.
Asked(e) == asking' = IF eb'[e].pc = "receive" THEN asking \cup {e} ELSE asking

EbReceive(e) ==
    /\ eb[e].pc = "receive"
    /\ chunkTo[e] # Nothing
    /\ chunkTo' = [chunkTo EXCEPT ![e] = Nothing]
    /\ eb' = [eb EXCEPT ![e] = IF chunkTo[e][1].end THEN [@ EXCEPT !.pc = "waiting"]
                               ELSE NextBatch(e, @, chunkTo[e][1].items)]
    /\ Asked(e)
    /\ UNCHANGED <<run, smd0, bdAsking, batchTo, bd, seen, terminated>>

\* Slip: whoever asks is sent any batch of the dictionary.
FitsAny(dict, b) == DOMAIN dict

\* The batch of the dictionary that bd b may have, 0 standing for any bd.
Fits(dict, b) == DOMAIN dict \cap {0, b}

\* The bds in waiting_bds that this batch can go to now: pop() takes the last.
Served(e) ==
    LET w == eb[e].waiting
    IN IF 0 \in DOMAIN eb[e].dict THEN {w[k] : k \in {Len(w)} \ {0}}
       ELSE Range(w) \cap DOMAIN eb[e].dict

AfterSend(e, state, b, d) ==
    LET sent == [state EXCEPT !.hist = Extended(@, b, state.dict[d]),
                              !.dict = Without(@, d)]
    IN IF DOMAIN sent.dict = {} THEN NextBatch(e, sent, sent.todo) ELSE sent

\* A waiting bd is served first.
EbSendWaiting(e, b) ==
    /\ eb[e].pc = "send"
    /\ b \in Served(e)
    /\ \E d \in Fits(eb[e].dict, b) :
        /\ SendTo(e, b, eb[e].dict[d])
        /\ eb' = [eb EXCEPT ![e] = [AfterSend(e, eb[e], b, d) EXCEPT
                                    !.waiting = Select(eb[e].waiting, BdsOf(e) \ {b})]]
    /\ Asked(e)
    /\ UNCHANGED <<run, smd0, chunkTo, bdAsking, bd, seen, terminated>>

\* _request_rank() and _send_to_dest(); a bd that is no destination of the
\* batches left is kept for later.
EbSend(e, b) ==
    /\ eb[e].pc = "send"
    /\ Served(e) = {}
    /\ b \in bdAsking[e]
    /\ bdAsking' = [bdAsking EXCEPT ![e] = @ \ {b}]
    /\ \/ \E d \in Fits(eb[e].dict, b) :
            /\ SendTo(e, b, eb[e].dict[d])
            /\ eb' = [eb EXCEPT ![e] = AfterSend(e, @, b, d)]
       \/ /\ Fits(eb[e].dict, b) = {}
          /\ eb' = [eb EXCEPT ![e].waiting = Append(@, b)]
          /\ UNCHANGED batchTo
    /\ Asked(e)
    /\ UNCHANGED <<run, smd0, chunkTo, bd, seen, terminated>>

\* Slip: every bd is to ask once more, the waiting ones too.
TurnsAll(e, waiting) == Cardinality(BdsOf(e))

\* The turns of the loops at the end: the bds that are not waiting.
Turns(e, waiting) == Cardinality(BdsOf(e)) - Len(waiting)

\* Which of the waiting bds miss no step.
StillWaiting(e) == Select(eb[e].waiting, {b \in BdsOf(e) : Missing(eb[e].hist, b) = <<>>})

\* After the last chunk: the waiting bds get the steps they miss.
EbLastWaiting(e) ==
    LET due == {b \in Range(eb[e].waiting) : Missing(eb[e].hist, b) # <<>>}
    IN /\ eb[e].pc = "waiting"
       /\ Waited(batchTo[e])
       /\ batchTo' = [batchTo EXCEPT ![e] =
            [b \in BdsOf(e) |-> IF b \in due THEN Data(Missing(eb[e].hist, b)) ELSE @[b]]]
       /\ eb' = [eb EXCEPT ![e].hist.sent =
                    [b \in BdsOf(e) |-> IF b \in due THEN Len(eb[e].hist.bufs) ELSE @[b]],
                 ![e].waiting = StillWaiting(e),
                 ![e].turns = Turns(e, StillWaiting(e)),
                 ![e].pc = "last"]
       /\ UNCHANGED <<run, smd0, asking, chunkTo, bdAsking, bd, seen, terminated>>

\* The others get them when they ask, once what was sent before is received;
\* who misses none waits for the end.  (While the turns left are those not in
\* waiting_bds, this loop has sent nothing yet.)
EbLast(e, b) ==
    /\ eb[e].pc = "last" /\ eb[e].turns > 0
    /\ eb[e].turns = Turns(e, eb[e].waiting) => Waited(batchTo[e])
    /\ b \in bdAsking[e]
    /\ bdAsking' = [bdAsking EXCEPT ![e] = @ \ {b}]
    /\ IF Missing(eb[e].hist, b) # <<>>
       THEN /\ SendTo(e, b, <<>>)
            /\ eb' = [eb EXCEPT ![e].hist = Extended(@, b, <<>>), ![e].turns = @ - 1]
       ELSE /\ eb' = [eb EXCEPT ![e].waiting = Append(@, b), ![e].turns = @ - 1]
            /\ UNCHANGED batchTo
    /\ UNCHANGED <<run, smd0, asking, chunkTo, bd, seen, terminated>>

\* Those that wait are ended, and as many requests more as there are others.
EbKillWaiting(e) ==
    /\ eb[e].pc = "last" /\ eb[e].turns = 0
    /\ Waited(batchTo[e])
    /\ batchTo' = [batchTo EXCEPT ![e] =
         [b \in BdsOf(e) |-> IF b \in Range(eb[e].waiting) THEN Null ELSE @[b]]]
    /\ eb' = [eb EXCEPT ![e].turns = Turns(e, eb[e].waiting),
                        ![e].pc = IF Turns(e, eb[e].waiting) = 0 THEN "done" ELSE "kill"]
    /\ UNCHANGED <<run, smd0, asking, chunkTo, bdAsking, bd, seen, terminated>>

EbKill(e, b) ==
    /\ eb[e].pc = "kill"
    /\ eb[e].turns = Turns(e, eb[e].waiting) => Waited(batchTo[e])
    /\ b \in bdAsking[e]
    /\ bdAsking' = [bdAsking EXCEPT ![e] = @ \ {b}]
    /\ batchTo' = [batchTo EXCEPT ![e][b] = Null]
    /\ eb' = [eb EXCEPT ![e].turns = @ - 1,
                        ![e].pc = IF eb[e].turns = 1 THEN "done" ELSE "kill"]
    /\ UNCHANGED <<run, smd0, asking, chunkTo, bd, seen, terminated>>

-----------------------------------------------------------------------------
(* BigDataNode.start() and Events.__next__()                                 *)

\* get_smd(), once the user's loop is through the last batch.
BdAsk(e, b) ==
    /\ bd[e][b] = "ask"
    /\ bdAsking' = [bdAsking EXCEPT ![e] = @ \cup {b}]
    /\ bd' = [bd EXCEPT ![e][b] = "wait"]
    /\ UNCHANGED <<run, smd0, asking, chunkTo, eb, batchTo, seen, terminated>>

BdReceive(e, b) ==
    /\ bd[e][b] = "wait"
    /\ batchTo[e][b] # Nothing
    /\ batchTo' = [batchTo EXCEPT ![e][b] = Nothing]
    /\ seen' = [seen EXCEPT ![e][b] = @ \o batchTo[e][b][1].items]
    /\ bd' = [bd EXCEPT ![e][b] = IF batchTo[e][b][1].end THEN "done" ELSE "ask"]
    /\ UNCHANGED <<run, smd0, asking, chunkTo, eb, bdAsking, terminated>>

\* MPIDataSource.terminate() in some bd's loop: this one only skips its events.
Terminate ==
    /\ MayTerminate
    /\ ~terminated
    /\ \E e \in Ebs : \E b \in BdsOf(e) : bd[e][b] = "ask" /\ seen[e][b] # <<>>
    /\ terminated' = TRUE
    /\ UNCHANGED <<run, smd0, asking, chunkTo, eb, bdAsking, batchTo, bd, seen>>

-----------------------------------------------------------------------------
Init ==
    /\ \E s \in StepSets, n \in BatchSizes, d \in Destined, g \in Eager :
        /\ d => NumEbs = 1        \* MPIDataSource gives up otherwise
        /\ d /\ n > 1 => Mixed    \* DataSourceBase sets batch_size to 1
        /\ run = [steps |-> s, batch |-> n, destined |-> d, eager |-> g]
    /\ smd0 = [pc |-> "chunk", read |-> 0, turns |-> 0, hist |-> NoHistory(Ebs)]
    /\ asking = Ebs
    /\ chunkTo = [e \in Ebs |-> Nothing]
    /\ eb = [e \in Ebs |-> [pc |-> "receive", todo |-> <<>>, dict |-> <<>>, waiting |-> <<>>,
                            turns |-> 0, hist |-> NoHistory(BdsOf(e))]]
    /\ bdAsking = [e \in Ebs |-> {}]
    /\ batchTo = [e \in Ebs |-> [b \in BdsOf(e) |-> Nothing]]
    /\ bd = [e \in Ebs |-> [b \in BdsOf(e) |-> "ask"]]
    /\ seen = [e \in Ebs |-> [b \in BdsOf(e) |-> <<>>]]
    /\ terminated = FALSE

Smd0Step == \E e \in Ebs : SmdChunk(e) \/ SmdSteps(e) \/ SmdKill(e)

EbStep(e) ==
    \/ EbReceive(e) \/ EbLastWaiting(e) \/ EbKillWaiting(e)
    \/ \E b \in BdsOf(e) : EbSendWaiting(e, b) \/ EbSend(e, b) \/ EbLast(e, b) \/ EbKill(e, b)

BdStep(e, b) == BdAsk(e, b) \/ BdReceive(e, b)

Next ==
    \/ Smd0Step
    \/ \E e \in Ebs : EbStep(e)
    \/ \E e \in Ebs : \E b \in BdsOf(e) : BdStep(e, b)
    \/ Terminate

Spec == Init /\ [][Next]_vars

\* Every rank keeps running: MPI delivers what was sent to a rank that waits
\* for it, and the user's loop goes on to the next event.
Fairness ==
    /\ WF_vars(Smd0Step)
    /\ \A e \in Ebs : WF_vars(EbStep(e))
    /\ \A e \in Ebs : \A b \in BdsOf(e) : WF_vars(BdStep(e, b))

FairSpec == Spec /\ Fairness

-----------------------------------------------------------------------------
(* Properties                                                                *)

\* The type of the state; waiting_bds never names a bd twice and no loop at the
\* end of EventBuilderNode.start() has a negative number of turns.
TypeOK ==
    /\ smd0.pc \in {"chunk", "steps", "kill", "done"}
    /\ smd0.read \in 0 .. NumEvents /\ smd0.turns \in 0 .. NumEbs - 1
    /\ asking \subseteq Ebs
    /\ \A e \in Ebs :
        /\ eb[e].pc \in {"receive", "send", "waiting", "last", "kill", "done"}
        /\ eb[e].waiting \in Seq(BdsOf(e)) /\ IsInjective(eb[e].waiting)
        /\ eb[e].turns \in 0 .. NumBds
        /\ DOMAIN eb[e].dict \subseteq 0 .. NumBds
        /\ bdAsking[e] \subseteq BdsOf(e)
        /\ \A b \in BdsOf(e) :
            /\ bd[e][b] \in {"ask", "wait", "done"}
            /\ seen[e][b] \in Seq(Events)
            /\ b \in bdAsking[e] => bd[e][b] = "wait"
    /\ terminated \in BOOLEAN

\* When a big data rank gets an event, transition or L1Accept, it was given
\* before it exactly the transitions that precede that event in the files, each
\* once and in their order: the user sees the same environment (EnvStore) as a
\* serial loop would, whichever ranks took the batches between
\* (StepHistory.get_buffer, repack_for_bd).
StepsInContext ==
    \A e \in Ebs : \A b \in BdsOf(e) : \A k \in DOMAIN seen[e][b] :
        StepsOf(SubSeq(seen[e][b], 1, k - 1)) = StepsOf(Interval(1, seen[e][b][k] - 1))

\* No L1Accept is given twice, to one rank or to two (_send_to_dest deletes
\* what it sent), and one that has a destination reaches only this rank.
EventsPlaced ==
    \A e, f \in Ebs : \A b \in BdsOf(e), c \in BdsOf(f) :
        \A j \in DOMAIN seen[e][b], k \in DOMAIN seen[f][c] :
            seen[e][b][j] = seen[f][c][k] /\ ~IsStep(seen[e][b][j]) =>
                /\ <<e, b, j>> = <<f, c, k>>
                /\ Destination(e, seen[e][b][j]) \in {0, b}

AllDone == \A e \in Ebs : \A b \in BdsOf(e) : bd[e][b] = "done"

\* When every big data rank has ended, every L1Accept that smd0 read went to
\* one of them: no order of requests, ends of chunks or terminate() leaves
\* batches behind in an event builder.
EventsDelivered ==
    AllDone => \A i \in 1 .. smd0.read :
        IsStep(i) \/ \E e \in Ebs : \E b \in BdsOf(e) : i \in Range(seen[e][b])

\* Every rank ends: no rank is left waiting for an answer, and no loop over
\* requests that will not come is entered (the loops at the end of Smd0.start()
\* and EventBuilderNode.start()).
EveryRankEnds == <>(AllDone /\ smd0.pc = "done" /\ \A e \in Ebs : eb[e].pc = "done")
====
