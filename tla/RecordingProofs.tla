-------------------------- MODULE RecordingProofs --------------------------
(***************************************************************************)
(* Proofs about Recording: files, chunks and small data are right if no    *)
(* transition fails in phase 1 after this DRP has done its part, files are *)
(* not open at a reset, and beginrun waits for the end of the run before   *)
(* (Orderly).  Files may fail to open, and clients to answer phase 2.      *)
(***************************************************************************)
EXTENDS Recording, SequenceTheorems, TLAPS

Orderly == Faults \subseteq {"open", "phase2", "reopen"}

EventTids == {"l1accept", "slowupdate"}
Ops       == {"configure", "beginrun", "beginstep", "enable", "disable", "endstep",
              "endrun", "unconfigure"}
Dgs       == [tid : Ops \cup EventTids \cup {"none"}, run : Nat, index : Nat, chunk : Nat,
              file : Files \cup {NoFile, BadFile}]
Entries   == [at : Int, dg : Dgs]
States    == {"connected", "configured", "starting", "paused", "running"}

\* The types that the proofs use.
TypeInv ==
  /\ state \in States /\ op \in Ops \cup {"none"}
  /\ run \in Nat /\ lastRun \in Nat /\ sent \in Nat /\ counter \in Nat
  /\ stream \in Seq(Dgs) /\ lastIndex \in Nat
  /\ writing \in BOOLEAN /\ chunkRequest \in BOOLEAN /\ chunkPending \in BOOLEAN
  /\ offset \in Nat /\ chunkOffset \in Nat
  /\ params \in Nat \X Nat /\ info \in Nat
  /\ cached \in Dgs /\ dgram \in Dgs
  /\ pc \in {"idle", "write", "reopen", "close", "closing"}
  /\ fd \in Files \cup {NoFile, BadFile}
  /\ queued \in Seq(Dgs) /\ files \in [Files -> Seq(Dgs)]
  /\ smd \in Seq(Entries) /\ reported \subseteq Files

\* The stream: events, and behind them the transition that control waits for.
StreamOrder ==
  /\ \A i \in DOMAIN stream : stream[i].tid \in EventTids \/ (op # "none" /\ i = Len(stream))
  /\ op # "none" => /\ stream # << >> /\ stream[Len(stream)].tid = op
                    /\ state = Arcs[op][1]
  /\ state # "running" => (stream = << >> \/ (op # "none" /\ Len(stream) = 1))

\* While files are open all that is on its way belongs to their run.
StreamInv ==
  /\ StreamOrder
  /\ writing => \A i \in DOMAIN stream : stream[i].run = run

\* The receiver is done with a transition before the next one begins.
ThreadInv ==
  /\ state # "connected" => cached.tid = "configure"
  /\ pc # "idle" /\ dgram.tid \notin EventTids => op = "none"
  /\ op \notin {"none", "disable"} => pc = "idle"
  /\ writing => \/ state \in {"starting", "paused", "running"}
                \/ pc = "idle" /\ op = "beginrun"
                \/ pc \in {"write", "close"} /\ dgram.tid = "endrun"
  /\ writing /\ pc = "write" => dgram.run = run
  /\ pc = "write" /\ dgram.tid = "beginrun" => state = "starting"
  /\ pc = "reopen" => writing /\ dgram.tid = "enable"
  /\ pc = "close" => writing /\ dgram.tid = "endrun"
  /\ pc = "closing" => ~writing /\ dgram.tid = "endrun"

\* The files of the run are open, nothing is written yet.
Fresh == \/ op = "beginrun"
         \/ pc = "write" /\ dgram.tid = "beginrun"

Enabling == \/ op = "enable"
            \/ pc \in {"write", "reopen"} /\ dgram.tid = "enable"

\* Nothing in the buffers was meant for a file.
Stray(ds) == \A i \in DOMAIN ds : ds[i].file = BadFile

\* The next chunk of the run could not be opened.
Stuck == writing /\ fd = BadFile

\* The open file, and the name of the next.
FdInv ==
  /\ params[2] <= sent /\ sent <= MaxSent /\ lastRun <= MaxRun
  /\ fd \in Files => fd[1] <= lastRun
  /\ fd \notin Files \/ (~writing /\ pc # "closing") => Stray(queued)
  /\ (writing \/ pc = "closing") => fd # NoFile
  /\ writing => run = lastRun
  /\ writing /\ fd # BadFile =>
       /\ fd \in reported /\ fd[1] = run /\ params[1] = run
       /\ params[2] = IF chunkPending THEN fd[2] + 1 ELSE fd[2]
  /\ Stuck => params \in Files /\ params[1] = run /\ params[2] > 0 /\ chunkPending
  /\ writing /\ Fresh => /\ fd = <<run, 0>> /\ (Held(fd) = << >> \/ Spoilt(Held(fd)))
                         /\ offset = 0 /\ chunkOffset = 0 /\ ~chunkRequest /\ ~chunkPending

\* A chunk is numbered only by the phase 1 of the Enable that ends the one before.
ChunkInv ==
  writing /\ fd # BadFile =>
    /\ chunkPending => Enabling /\ chunkRequest
    /\ chunkRequest /\ ~chunkPending => ChunkSize > Thresh
    /\ Enabling /\ ~chunkPending => ~chunkRequest /\ ChunkSize <= Thresh \div 2
    /\ op = "enable" /\ chunkPending => info = params[2]
    /\ pc \in {"write", "reopen"} /\ dgram.tid = "enable" /\ chunkPending =>
         dgram.chunk = params[2]
    /\ pc = "reopen" => /\ chunkPending /\ Held(fd) # << >>
                        /\ Held(fd)[Len(Held(fd))].tid = "enable"
                        /\ Held(fd)[Len(Held(fd))].chunk = params[2]

\* Where the next datagram goes.
OffsetInv ==
  writing /\ fd # BadFile /\ ~Spoilt(Held(fd)) =>
    /\ Len(Held(fd)) = ChunkSize
    /\ fd[2] = 0 /\ ~Fresh => Len(Held(fd)) >= 2

\* Files that are still to be written.
NewInv ==
  \A f \in Files :
    (\/ f[1] > lastRun
     \/ fd \in Files /\ f[1] = fd[1] /\ f[2] > fd[2]
     \/ Stuck /\ f[1] = params[1] /\ f[2] >= params[2])
    => files[f] = << >>

\* The datagrams of h belong into the file f.
Belongs(f, h) ==
  /\ \A i \in DOMAIN h : IF f[2] = 0 /\ i = 1 THEN h[i].tid = "configure" ELSE h[i].run = f[1]
  /\ f[2] = 0 /\ Len(h) > 1 => h[2].tid = "beginrun"

\* What is not f's own comes first in h.
StraysFirst(f, h) ==
  \A i \in DOMAIN h : Own(f, h[i]) \/ \A j \in 1 .. i : h[j].file = BadFile

Proper(f, h) == StraysFirst(f, h) /\ (~Spoilt(h) => Belongs(f, h))

ContentInv ==
  \A f \in Files : Held(f) # << >> => f \in reported /\ Proper(f, Held(f))

Chained(r, c) ==
  LET previous == files[<<r, c - 1>>]
  IN /\ previous # << >>
     /\ previous[Len(previous)].tid = "enable"
     /\ previous[Len(previous)].chunk = c

\* Also the chunk that could not be opened has its Enable before it.
ChainInv ==
  \A r \in 1 .. MaxRun, c \in 1 .. MaxSent :
    (files[<<r, c>>] # << >> \/ fd = <<r, c>> \/ (Stuck /\ params = <<r, c>>)) => Chained(r, c)

\* Where entry e points to, the datagram is.
Points(e, h) == e.at + 1 \in DOMAIN h /\ h[e.at + 1] = e.dg

\* The small data.  A file that was opened in vain is not in them.
SmdInv ==
  /\ \A i \in DOMAIN smd : \A f \in Files :
       smd[i].dg.file = f /\ ~Spoilt(Held(f)) => Points(smd[i], Held(f))
  /\ fd \in Files /\ ~writing /\ pc # "closing" =>
       \A i \in DOMAIN smd : smd[i].dg.file # fd

IInv == /\ TypeInv /\ StreamInv /\ ThreadInv /\ FdInv /\ ChunkInv /\ OffsetInv
        /\ NewInv /\ ContentInv /\ ChainInv /\ SmdInv

-----------------------------------------------------------------------------
(***************************************************************************)
(* The definitions that the proofs use as they are                         *)
(***************************************************************************)

LEMMA ArcFacts ==
  /\ DOMAIN Arcs = Ops
  /\ Arcs["configure"] = <<"connected", "configured">>
  /\ Arcs["beginrun"] = <<"configured", "starting">>
  /\ Arcs["beginstep"] = <<"starting", "paused">>
  /\ Arcs["enable"] = <<"paused", "running">>
  /\ Arcs["disable"] = <<"running", "paused">>
  /\ Arcs["endstep"] = <<"paused", "starting">>
  /\ Arcs["endrun"] = <<"starting", "configured">>
  /\ Arcs["unconfigure"] = <<"configured", "connected">>
BY DEF Arcs, Ops

LEMMA ArcStates == \A t \in Ops : Arcs[t][1] \in States /\ Arcs[t][2] \in States
BY ArcFacts DEF Ops, States

\* In an orderly system phase 1 succeeds once this DRP has done its part, and
\* begins when the receiver has nothing in hand.
LEMMA OrderlyFacts ==
  ASSUME Orderly
  PROVE  /\ ~Refused("begin") /\ ~Refused("enable")
         /\ \A t : MayBegin(t) => pc = "idle" /\ op = "none" /\ sent < MaxSent
         /\ Reset => ~writing
BY DEF Orderly, Refused, Fault, MayBegin, Reset

LEMMA Constant ==
  /\ MaxRun \in Nat /\ MaxSent \in Nat /\ Thresh \in Nat /\ Thresh > 0
  /\ Thresh \div 2 \in Nat /\ Thresh \div 2 <= Thresh
BY RecordingAssumption

LEMMA FileFacts ==
  /\ \A f \in Files : f \in Nat \X Nat /\ f[1] \in 1 .. MaxRun /\ f[2] \in 0 .. MaxSent
  /\ NoFile \notin Files /\ BadFile \notin Files /\ NoFile # BadFile
  /\ NoFile \in Nat \X Nat /\ BadFile \in Nat \X Nat
BY Constant DEF Files, NoFile, BadFile

-----------------------------------------------------------------------------
(***************************************************************************)
(* Types                                                                   *)
(***************************************************************************)

LEMMA DgramType ==
  \A t \in Ops \cup EventTids \cup {"none"}, r \in Nat, i \in Nat :
    /\ Dgram(t, r, i) \in Dgs
    /\ Dgram(t, r, i).tid = t /\ Dgram(t, r, i).run = r
BY DEF Dgram, Dgs

LEMMA BufferedFacts ==
  ASSUME TypeInv
  PROVE  \A d \in Dgs : /\ Buffered(d) \in Dgs /\ Buffered(d).file = fd
                        /\ Buffered(d).tid = d.tid /\ Buffered(d).run = d.run
                        /\ Buffered(d).chunk = d.chunk
<1>1. fd \in Files \cup {NoFile, BadFile}
  BY DEF TypeInv
<1>2. QED
  BY <1>1 DEF Buffered, Dgs

LEMMA ToWriteType ==
  ASSUME TypeInv
  PROVE  /\ ToWrite(dgram) \in Seq(Dgs) /\ ToWrite(dgram) # << >>
         /\ \A i \in DOMAIN ToWrite(dgram) : ToWrite(dgram)[i].file = fd
         /\ dgram.tid = "beginrun" =>
              /\ ToWrite(dgram) = <<Buffered(cached), Buffered(dgram)>>
              /\ Len(ToWrite(dgram)) = 2 /\ DOMAIN ToWrite(dgram) = 1 .. 2
         /\ dgram.tid # "beginrun" =>
              /\ ToWrite(dgram) = <<Buffered(dgram)>>
              /\ Len(ToWrite(dgram)) = 1 /\ DOMAIN ToWrite(dgram) = 1 .. 1
<1>1. dgram \in Dgs /\ cached \in Dgs
  BY DEF TypeInv
<1>2. PICK a \in Dgs : a = Buffered(cached) /\ a.file = fd
  BY <1>1, BufferedFacts
<1>3. PICK b \in Dgs : b = Buffered(dgram) /\ b.file = fd
  BY <1>1, BufferedFacts
<1>4. CASE dgram.tid = "beginrun"
  <2>1. ToWrite(dgram) = <<a, b>>
    BY <1>2, <1>3, <1>4 DEF ToWrite
  <2>2. DOMAIN <<a, b>> = 1 .. 2 /\ <<a, b>>[1] = a /\ <<a, b>>[2] = b
        /\ Len(<<a, b>>) = 2 /\ <<a, b>> \in Seq(Dgs) /\ <<a, b>> # << >>
    OBVIOUS
  <2>3. \A i \in 1 .. 2 : i = 1 \/ i = 2
    OBVIOUS
  <2>4. QED
    BY <1>2, <1>3, <1>4, <2>1, <2>2, <2>3
<1>5. CASE dgram.tid # "beginrun"
  <2>1. ToWrite(dgram) = <<b>>
    BY <1>3, <1>5 DEF ToWrite
  <2>2. DOMAIN <<b>> = 1 .. 1 /\ <<b>>[1] = b /\ Len(<<b>>) = 1
        /\ <<b>> \in Seq(Dgs) /\ <<b>> # << >>
    OBVIOUS
  <2>3. \A i \in 1 .. 1 : i = 1
    OBVIOUS
  <2>4. QED
    BY <1>3, <1>5, <2>1, <2>2, <2>3
<1>6. QED
  BY <1>4, <1>5

LEMMA TypeStep ==
  ASSUME Orderly, TypeInv, StreamInv, ThreadInv, FdInv, Next
  PROVE  TypeInv'
<1> USE Constant
<1>1. CASE Configure
  <2>1. Dgram("configure", 0, 1) \in Dgs
    BY DgramType DEF Ops
  <2>2. QED
    BY <1>1, <2>1 DEF Configure, Inserted, TypeInv, Ops, chunk, disk
<1>2. CASE BeginRunOff
  <2>1. Dgram("beginrun", 0, 1) \in Dgs
    BY DgramType DEF Ops
  <2>2. QED
    <3>1. Inserted("beginrun", 0, TRUE)
      BY <1>2, OrderlyFacts DEF BeginRunOff
    <3>2. stream' \in Seq(Dgs) /\ op' \in Ops \cup {"none"} /\ sent' \in Nat /\ counter' \in Nat
          /\ state' \in States
      BY <2>1, <3>1 DEF Inserted, TypeInv, Ops
    <3>3. QED
      BY <1>2, <3>2 DEF BeginRunOff, ChunkReset, TypeInv, disk
<1>3. ASSUME NEW r \in Runs, BeginRun(r) PROVE TypeInv'
  <2>1. r \in 1 .. MaxRun /\ r \in Nat
    BY <1>3 DEF BeginRun, OpenFiles, Runs, TypeInv
  <2>2. <<r, 0>> \in Files /\ <<r, 0>> \in Nat \X Nat
    BY <2>1 DEF Files
  <2>3. Dgram("beginrun", r, 1) \in Dgs
    BY <2>1, DgramType DEF Ops
  <2>4. smd' \in Seq(Entries)
    BY <1>3 DEF BeginRun
  <2>5. Inserted("beginrun", r, TRUE)
    BY <1>3, OrderlyFacts DEF BeginRun
  <2>6. stream' \in Seq(Dgs) /\ op' \in Ops \cup {"none"} /\ sent' \in Nat /\ counter' \in Nat
        /\ state' \in States
    BY <2>3, <2>5 DEF Inserted, TypeInv, Ops
  <2>7. QED
    BY <1>3, <2>1, <2>2, <2>4, <2>6 DEF BeginRun, OpenFiles, ChunkReset, TypeInv
<1>4. ASSUME NEW r \in Runs, BeginRunFails(r) PROVE TypeInv'
  <2>1. r \in 1 .. MaxRun /\ r \in Nat
    BY <1>4 DEF BeginRunFails, OpenFiles, Runs, TypeInv
  <2>2. <<r, 0>> \in Files
    BY <2>1 DEF Files
  <2>3. QED
    BY <1>4, <2>1, <2>2 DEF BeginRunFails, OpenFiles, ChunkReset, Refused, TypeInv
<1>5. CASE Enable
  <2>1. Inserted("enable", run, FALSE)
    BY <1>5, OrderlyFacts DEF Enable
  <2>2. counter' \in Nat /\ Dgram("enable", run, counter') \in Dgs
    BY <2>1, DgramType DEF Inserted, TypeInv, Ops
  <2>3. stream' \in Seq(Dgs) /\ op' \in Ops \cup {"none"} /\ sent' \in Nat /\ state' \in States
    BY <2>1, <2>2 DEF Inserted, TypeInv, Ops
  <2>4. params' \in Nat \X Nat /\ info' \in Nat
    BY <1>5 DEF Enable, AdvanceChunkId, TypeInv
  <2>5. chunkRequest' \in BOOLEAN /\ chunkPending' \in BOOLEAN
    BY <1>5 DEF Enable, AdvanceChunkId, TypeInv
  <2>6. QED
    BY <1>5, <2>2, <2>3, <2>4, <2>5 DEF Enable, TypeInv, disk
<1>6. ASSUME NEW t \in DOMAIN Arcs, Other(t) PROVE TypeInv'
  <2>1. counter' \in Nat /\ t \in Ops
    BY <1>6, ArcFacts DEF Other, Inserted, TypeInv
  <2>2. Dgram(t, run, counter') \in Dgs
    BY <2>1, DgramType DEF TypeInv
  <2>3. QED
    BY <1>6, <2>1, <2>2 DEF Other, Inserted, TypeInv, chunk, disk
<1>7. CASE Reset
  BY <1>7 DEF Reset, TypeInv, chunk, disk, States
<1>8. ASSUME NEW t \in {"l1accept", "slowupdate"}, Trigger(t) PROVE TypeInv'
  <2>1. counter' \in Nat /\ t \in EventTids
    BY <1>8 DEF Trigger, TypeInv, EventTids
  <2>2. Dgram(t, run, counter') \in Dgs
    BY <2>1, DgramType DEF TypeInv
  <2>3. QED
    BY <1>8, <2>1, <2>2 DEF Trigger, TypeInv, chunk, disk
<1>9. CASE JumpingIndex
  BY <1>9 DEF JumpingIndex, TypeInv, control, chunk, disk
<1>10. CASE Process
  <2>0. stream \in Seq(Dgs) /\ stream # << >>
    BY <1>10 DEF Process, TypeInv
  <2>1. Head(stream) \in Dgs /\ Tail(stream) \in Seq(Dgs)
    BY <2>0
  <2>2. dgram' \in Dgs /\ cached' \in Dgs /\ lastIndex' \in Nat
    BY <1>10, <2>1 DEF Process, TypeInv, Dgs
  <2>3. op' \in Ops \cup {"none"} /\ state' \in States
    <3>1. Head(stream).tid = op => op \in Ops \cup {"none"}
      BY DEF TypeInv
    <3>2. Head(stream).tid = "none" => FALSE
      <4>1. 1 \in DOMAIN stream /\ Head(stream) = stream[1]
        BY <2>0
      <4>2. stream[1].tid \in EventTids \/ (op # "none" /\ 1 = Len(stream))
        BY <4>1 DEF StreamInv, StreamOrder
      <4>3. stream[1].tid \in EventTids \/ stream[1].tid \in Ops
        BY <4>2 DEF StreamInv, StreamOrder, TypeInv
      <4>4. QED
        BY <4>1, <4>3 DEF EventTids, Ops
    <3>3. QED
      BY <1>10, <3>1, <3>2, ArcStates DEF Process, TypeInv
  <2>4. QED
    BY <1>10, <2>1, <2>2, <2>3 DEF Process, TypeInv, disk
<1>11. CASE WriteDgram
  <2>1. ToWrite(dgram) \in Seq(Dgs) /\ Len(ToWrite(dgram)) \in 1 .. 2
        /\ DOMAIN ToWrite(dgram) = 1 .. Len(ToWrite(dgram))
    BY ToWriteType
  <2>2. CASE writing /\ Write(ToWrite(dgram), IF dgram.tid = "beginrun" THEN 0 ELSE offset)
    <3> DEFINE o == IF dgram.tid = "beginrun" THEN 0 ELSE offset
               ds == ToWrite(dgram)
               new == [i \in DOMAIN ds |->
                         [at |-> o + i - 1 - chunkOffset, dg |-> ds[i]]]
    <3>1. o \in Nat /\ chunkOffset \in Nat /\ fd \in Files \cup {NoFile, BadFile}
      BY DEF TypeInv
    <3>2. \A i \in DOMAIN ds : ds[i] \in Dgs /\ o + i - 1 - chunkOffset \in Int
      BY <2>1, <3>1
    <3>3. new \in Seq(Entries)
      BY <2>1, <3>1, <3>2 DEF Entries
    <3>4. queued' \in Seq(Dgs) /\ offset' \in Nat /\ smd' \in Seq(Entries)
      BY <2>1, <2>2, <3>1, <3>3 DEF Write, TypeInv
    <3>5. pc' \in {"idle", "reopen", "close"} /\ chunkRequest' \in BOOLEAN
      BY <1>11 DEF WriteDgram, NextPc, TypeInv
    <3>6. QED
      BY <1>11, <3>4, <3>5 DEF WriteDgram, TypeInv, control
  <2>3. CASE UNCHANGED <<queued, smd, offset>> /\ pc' = "idle"
    BY <1>11, <2>3 DEF WriteDgram, TypeInv, control
  <2>4. QED
    BY <1>11, <2>2, <2>3 DEF WriteDgram
<1>12. CASE Reopen
  <2>1. files' \in [Files -> Seq(Dgs)] /\ queued' \in Seq(Dgs)
    BY <1>12 DEF Reopen, Flushed, TypeInv
  <2>2. fd' \in Files \cup {BadFile} /\ reported' \subseteq Files
    <3>1. writing /\ fd # NoFile
      BY <1>12 DEF Reopen, ThreadInv, FdInv
    <3>2. ASSUME fd # BadFile PROVE params \in Files
      <4>1. fd \in Files /\ fd[1] = params[1] /\ params[2] \in 0 .. MaxSent
        BY <3>1, <3>2 DEF FdInv, TypeInv
      <4>2. params[1] \in 1 .. MaxRun /\ params = <<params[1], params[2]>>
        BY <4>1, FileFacts DEF TypeInv
      <4>3. QED
        BY <4>1, <4>2 DEF Files
    <3>3. ASSUME fd = BadFile PROVE params \in Files
      BY <3>1, <3>3 DEF FdInv, Stuck
    <3>4. params \in Files
      BY <3>2, <3>3
    <3>5. QED
      BY <1>12, <3>4 DEF Reopen, TypeInv
  <2>3. QED
    BY <1>12, <2>1, <2>2 DEF Reopen, ChunkStart, TypeInv, control
<1>13. CASE CloseFiles
  BY <1>13 DEF CloseFiles, TypeInv, control, chunk, disk
<1>14. CASE Closed
  BY <1>14 DEF Closed, TypeInv, control, chunk, disk
<1>15. CASE Drain
  <2>1. files' \in [Files -> Seq(Dgs)] /\ queued' \in Seq(Dgs)
    BY <1>15 DEF Drain, Flushed, TypeInv
  <2>2. QED
    BY <1>15, <2>1 DEF Drain, TypeInv, control, chunk
<1>16. CASE WriteFails
  BY <1>16 DEF WriteFails, TypeInv, control, chunk, disk
<1>17. QED
  BY <1>1, <1>2, <1>3, <1>4, <1>5, <1>6, <1>7, <1>8, <1>9, <1>10, <1>11, <1>12, <1>13,
     <1>14, <1>15, <1>16 DEF Next

-----------------------------------------------------------------------------
(***************************************************************************)
(* The stream and the receiver                                             *)
(***************************************************************************)

\* Control inserts a transition behind events only.
LEMMA InsertedFacts ==
  ASSUME TypeInv, StreamOrder, NEW t \in Ops, NEW r \in Nat, NEW b \in BOOLEAN,
         op = "none", state = Arcs[t][1], Inserted(t, r, b)
  PROVE  /\ op' = t /\ state' = state /\ StreamOrder'
         /\ state # "running" => \A i \in DOMAIN stream' : stream'[i].run = r
         /\ (\A i \in DOMAIN stream : stream[i].run = r) =>
              \A i \in DOMAIN stream' : stream'[i].run = r
<1> DEFINE d == Dgram(t, r, counter')
<1>1. counter' \in Nat
  BY DEF Inserted, TypeInv
<1>2. d \in Dgs /\ d.tid = t /\ d.run = r
  BY <1>1, DgramType
<1>3. stream \in Seq(Dgs) /\ stream' = Append(stream, d) /\ op' = t /\ state' = state
  BY DEF Inserted, TypeInv
<1> HIDE DEF d
<1>4. /\ Len(stream') = Len(stream) + 1 /\ DOMAIN stream' = 1 .. Len(stream) + 1
      /\ Len(stream) \in Nat /\ DOMAIN stream = 1 .. Len(stream)
      /\ stream'[Len(stream) + 1] = d
      /\ \A i \in 1 .. Len(stream) : stream'[i] = stream[i]
  BY <1>2, <1>3
<1>5. \A i \in DOMAIN stream : stream[i].tid \in EventTids
  BY DEF StreamOrder
<1>6. op' # "none"
  BY <1>3 DEF Ops
<1>7. \A i \in DOMAIN stream' : i = Len(stream') \/ (i \in DOMAIN stream /\ stream'[i] = stream[i])
  BY <1>4
<1>8. state # "running" => Len(stream) = 0
  BY DEF StreamOrder
<1>9. stream' # << >> /\ stream'[Len(stream')].tid = t /\ stream'[Len(stream')].run = r
  BY <1>2, <1>3, <1>4
<1>10. StreamOrder'
  <2>1. \A i \in DOMAIN stream' : stream'[i].tid \in EventTids \/ (op' # "none" /\ i = Len(stream'))
    BY <1>5, <1>6, <1>7
  <2>2. state' = Arcs[op'][1]
    BY <1>3
  <2>3. state' # "running" => op' # "none" /\ Len(stream') = 1
    BY <1>3, <1>4, <1>6, <1>8
  <2>4. QED
    BY <1>3, <1>9, <2>1, <2>2, <2>3 DEF StreamOrder
<1>11. QED
  BY <1>3, <1>4, <1>7, <1>8, <1>9, <1>10

\* The receiver takes an event, or the transition that control waits for, which
\* is the last in the stream.
LEMMA TailOfOne ==
  ASSUME NEW S, NEW s \in Seq(S), Len(s) = 1
  PROVE  Tail(s) = << >>
<1>1. Tail(s) \in Seq(S) /\ Len(Tail(s)) = 0
  OBVIOUS
<1>2. \A e \in Seq(S) : Len(e) = 0 => e = << >>
  OBVIOUS
<1>3. QED
  BY <1>1, <1>2

LEMMA ProcessFacts ==
  ASSUME TypeInv, StreamInv, Process
  PROVE  /\ dgram'.tid = stream[1].tid /\ dgram'.run = stream[1].run
         /\ dgram'.tid = "enable" => dgram'.chunk = info
         /\ writing => dgram'.run = run
         /\ pc = "idle" /\ pc' = "write"
         /\ \/ /\ dgram'.tid \in EventTids
               /\ op' = op /\ state' = state
            \/ /\ op \in Ops /\ dgram'.tid = op /\ op' = "none" /\ stream' = << >>
               /\ \/ state' = Arcs[op][2]
                  \/ op # "beginrun" /\ state' = state
<1>1. stream \in Seq(Dgs) /\ stream # << >>
  BY DEF Process, TypeInv
<1>2. /\ Head(stream) = stream[1] /\ 1 \in DOMAIN stream /\ stream[1] \in Dgs
      /\ Len(stream) = 1 => Tail(stream) = << >>
  <2>1. Head(stream) = stream[1] /\ 1 \in DOMAIN stream /\ stream[1] \in Dgs
    BY <1>1
  <2>2. Len(stream) = 1 => Tail(stream) = << >>
    BY <1>1, TailOfOne
  <2>3. QED
    BY <2>1, <2>2
<1>3. dgram'.tid = stream[1].tid /\ dgram'.run = stream[1].run
  BY <1>2 DEF Process, Dgs
<1>4. dgram'.tid = "enable" => dgram'.chunk = info
  BY <1>2 DEF Process, Dgs
<1>5. writing => dgram'.run = run
  BY <1>2, <1>3 DEF StreamInv, StreamOrder
<1>6. stream[1].tid \in EventTids \/ (op # "none" /\ 1 = Len(stream))
  BY <1>2 DEF StreamInv, StreamOrder
<1>7. op \notin EventTids
  BY DEF TypeInv, Ops, EventTids
<1>8. CASE stream[1].tid \in EventTids
  BY <1>2, <1>3, <1>4, <1>5, <1>7, <1>8 DEF Process
<1>9. CASE op # "none" /\ 1 = Len(stream)
  <2>1. stream[1].tid = op /\ op \in Ops
    BY <1>9 DEF StreamInv, StreamOrder, TypeInv
  <2>2. stream' = << >>
    BY <1>2, <1>9 DEF Process
  <2>3. op' = "none" /\ (state' = Arcs[op][2] \/ (op # "beginrun" /\ state' = state))
    BY <1>2, <2>1 DEF Process
  <2>4. QED
    BY <1>3, <1>4, <1>5, <2>1, <2>2, <2>3 DEF Process
<1>10. QED
  BY <1>6, <1>8, <1>9

LEMMA StreamStep ==
  ASSUME Orderly, TypeInv, StreamInv, ThreadInv, Next
  PROVE  StreamInv'
<1>0. StreamOrder
  BY DEF StreamInv
<1>1. CASE Configure
  <2>1. MayBegin("configure") /\ Inserted("configure", 0, TRUE) /\ writing' = writing
    BY <1>1 DEF Configure
  <2>2. op = "none" /\ state = Arcs["configure"][1] /\ pc = "idle"
    BY <2>1, OrderlyFacts DEF MayBegin
  <2>3. StreamOrder'
    BY <1>0, <2>1, <2>2, InsertedFacts DEF Ops
  <2>4. ~writing'
    BY <2>1, <2>2, ArcFacts DEF ThreadInv
  <2>5. QED
    BY <2>3, <2>4 DEF StreamInv
<1>2. CASE BeginRunOff
  <2>1. MayBegin("beginrun") /\ Inserted("beginrun", 0, TRUE) /\ writing' = writing
    BY <1>2, OrderlyFacts DEF BeginRunOff
  <2>2. op = "none" /\ state = Arcs["beginrun"][1] /\ pc = "idle"
    BY <2>1, OrderlyFacts DEF MayBegin
  <2>3. StreamOrder'
    BY <1>0, <2>1, <2>2, InsertedFacts DEF Ops
  <2>4. ~writing'
    BY <2>1, <2>2, ArcFacts DEF ThreadInv
  <2>5. QED
    BY <2>3, <2>4 DEF StreamInv
<1>3. ASSUME NEW r \in Runs, BeginRun(r) PROVE StreamInv'
  <2>1. MayBegin("beginrun") /\ Inserted("beginrun", r, TRUE) /\ run' = r
    BY <1>3, OrderlyFacts DEF BeginRun, OpenFiles
  <2>2. op = "none" /\ state = Arcs["beginrun"][1]
    BY <2>1 DEF MayBegin
  <2>3. r \in Nat /\ state # "running"
    BY <2>2, Constant, ArcFacts DEF Runs
  <2>4. StreamOrder' /\ \A i \in DOMAIN stream' : stream'[i].run = r
    BY <1>0, <2>1, <2>2, <2>3, InsertedFacts DEF Ops
  <2>5. QED
    BY <2>1, <2>4 DEF StreamInv
<1>4. ASSUME NEW r \in Runs, BeginRunFails(r) PROVE StreamInv'
  <2>1. UNCHANGED <<state, op, stream, writing>> /\ MayBegin("beginrun")
    BY <1>4 DEF BeginRunFails, OpenFiles, Refused
  <2>2. op = "none" /\ state = Arcs["beginrun"][1] /\ pc = "idle"
    BY <2>1, OrderlyFacts DEF MayBegin
  <2>3. ~writing'
    BY <2>1, <2>2, ArcFacts DEF ThreadInv
  <2>4. QED
    BY <1>0, <2>1, <2>3 DEF StreamInv, StreamOrder
<1>5. CASE Enable
  <2>1. MayBegin("enable") /\ Inserted("enable", run, FALSE) /\ UNCHANGED <<writing, run>>
    BY <1>5, OrderlyFacts DEF Enable
  <2>2. op = "none" /\ state = Arcs["enable"][1] /\ run \in Nat
    BY <2>1 DEF MayBegin, TypeInv
  <2>3. /\ StreamOrder'
        /\ (\A i \in DOMAIN stream : stream[i].run = run) => \A i \in DOMAIN stream' : stream'[i].run = run
    BY <1>0, <2>1, <2>2, InsertedFacts DEF Ops
  <2>4. QED
    BY <2>1, <2>3 DEF StreamInv
<1>6. ASSUME NEW t \in DOMAIN Arcs, Other(t) PROVE StreamInv'
  <2>1. MayBegin(t) /\ Inserted(t, run, FALSE) /\ UNCHANGED <<writing, run>>
    BY <1>6 DEF Other
  <2>2. op = "none" /\ state = Arcs[t][1] /\ run \in Nat /\ t \in Ops
    BY <2>1, ArcFacts DEF MayBegin, TypeInv
  <2>3. /\ StreamOrder'
        /\ (\A i \in DOMAIN stream : stream[i].run = run) => \A i \in DOMAIN stream' : stream'[i].run = run
    BY <1>0, <2>1, <2>2, InsertedFacts
  <2>4. QED
    BY <2>1, <2>3 DEF StreamInv
<1>7. CASE Reset
  BY <1>7 DEF Reset, StreamInv, StreamOrder
<1>8. ASSUME NEW t \in {"l1accept", "slowupdate"}, Trigger(t) PROVE StreamInv'
  <2> DEFINE d == Dgram(t, run, counter')
  <2>1. counter' \in Nat /\ t \in EventTids /\ run \in Nat
    BY <1>8 DEF Trigger, TypeInv, EventTids
  <2>2. d \in Dgs /\ d.tid = t /\ d.run = run
    <3>1. t \in Ops \cup EventTids \cup {"none"}
      BY <2>1
    <3>2. QED
      BY <2>1, <3>1, DgramType
  <2>3. stream \in Seq(Dgs) /\ stream' = Append(stream, d) /\ UNCHANGED <<op, state, run, writing>>
        /\ op = "none" /\ state = "running"
    BY <1>8 DEF Trigger, TypeInv
  <2> HIDE DEF d
  <2>4. \A i \in DOMAIN stream' : stream'[i] = d \/ (i \in DOMAIN stream /\ stream'[i] = stream[i])
    BY <2>2, <2>3
  <2>5. QED
    BY <2>1, <2>2, <2>3, <2>4 DEF StreamInv, StreamOrder
<1>10. CASE Process
  <2>1. stream \in Seq(Dgs) /\ stream # << >> /\ stream' = Tail(stream) /\ UNCHANGED <<run, writing>>
    BY <1>10 DEF Process, TypeInv
  <2>2. CASE stream' = << >> /\ op' = "none"
    BY <2>2 DEF StreamInv, StreamOrder
  <2>3. CASE stream[1].tid \in EventTids /\ op' = op /\ state' = state
    <3>1. /\ Len(stream) \in Nat \ {0} /\ Len(stream') = Len(stream) - 1
          /\ DOMAIN stream = 1 .. Len(stream) /\ DOMAIN stream' = 1 .. Len(stream) - 1
          /\ \A i \in 1 .. Len(stream) - 1 : stream'[i] = stream[i + 1]
      BY <2>1
    <3>2. op \notin EventTids
      BY DEF TypeInv, Ops, EventTids
    <3>3. op # "none" => Len(stream) # 1
      BY <1>0, <2>3, <3>2 DEF StreamOrder
    <3>4. op # "none" => stream' # << >> /\ stream'[Len(stream')].tid = op
      BY <1>0, <3>1, <3>3 DEF StreamOrder
    <3>5. \A i \in DOMAIN stream' : stream'[i].tid \in EventTids \/ (op # "none" /\ i = Len(stream'))
      BY <1>0, <3>1 DEF StreamOrder
    <3>6. writing => \A i \in DOMAIN stream' : stream'[i].run = run
      BY <3>1 DEF StreamInv
    <3>7. state # "running" => stream' = << >> \/ (op # "none" /\ Len(stream') = 1)
      BY <1>0, <2>1, <3>1, <3>3 DEF StreamOrder
    <3>8. op # "none" => state = Arcs[op][1]
      BY <1>0 DEF StreamOrder
    <3>9. QED
      BY <2>1, <2>3, <3>4, <3>5, <3>6, <3>7, <3>8 DEF StreamInv, StreamOrder
  <2>4. QED
    BY <1>10, <2>2, <2>3, ProcessFacts
<1>11. ASSUME UNCHANGED <<stream, op, state, run>>, writing' => writing PROVE StreamInv'
  BY <1>0, <1>11 DEF StreamInv, StreamOrder
<1>12. ASSUME \/ JumpingIndex \/ WriteDgram \/ Reopen \/ CloseFiles \/ Closed \/ Drain \/ WriteFails
       PROVE  UNCHANGED <<stream, op, state, run>> /\ (writing' => writing)
  <2>a. CASE JumpingIndex
    BY <2>a DEF JumpingIndex, control
  <2>b. CASE WriteFails
    BY <2>b DEF WriteFails, control
  <2>1. CASE Drain
    BY <2>1 DEF Drain, control
  <2>2. CASE WriteDgram
    BY <2>2 DEF WriteDgram, control
  <2>3. CASE Reopen
    BY <2>3 DEF Reopen, control
  <2>4. CASE CloseFiles \/ Closed
    BY <2>4 DEF CloseFiles, Closed, control
  <2>5. QED
    BY <1>12, <2>a, <2>b, <2>1, <2>2, <2>3, <2>4
<1>13. QED
  BY <1>1, <1>2, <1>3, <1>4, <1>5, <1>6, <1>7, <1>8, <1>10, <1>11, <1>12 DEF Next

\* Only a disable has events before it.
LEMMA EventBefore ==
  ASSUME TypeInv, StreamInv, stream # << >>, stream[1].tid \in EventTids
  PROVE  op \in {"none", "disable"}
<1>1. StreamOrder /\ stream \in Seq(Dgs) /\ op \in Ops \cup {"none"}
  BY DEF StreamInv, TypeInv
<1>2. op \notin EventTids
  BY <1>1 DEF Ops, EventTids
<1>3. op # "none" => state = "running" /\ state = Arcs[op][1]
  BY <1>1, <1>2 DEF StreamOrder
<1>4. QED
  BY <1>1, <1>3, ArcFacts DEF Ops

\* What holds when control begins a transition.
LEMMA BeginFacts ==
  ASSUME Orderly, ThreadInv, NEW t \in Ops, MayBegin(t)
  PROVE  /\ pc = "idle" /\ op = "none" /\ state = Arcs[t][1] /\ sent < MaxSent
         /\ writing => state \in {"starting", "paused", "running"}
<1>1. pc = "idle" /\ op = "none" /\ state = Arcs[t][1] /\ sent < MaxSent
  BY DEF MayBegin, Orderly
<1>2. QED
  BY <1>1 DEF ThreadInv

LEMMA ThreadStep ==
  ASSUME Orderly, TypeInv, StreamInv, ThreadInv, Next
  PROVE  ThreadInv'
<1>a. ASSUME pc' = "idle", state' = state, cached' = cached,
             writing' => \/ state \in {"starting", "paused", "running"}
                         \/ op' = "beginrun"
      PROVE  ThreadInv'
  BY <1>a DEF ThreadInv
<1>1. CASE Configure
  <2>1. MayBegin("configure") /\ UNCHANGED <<writing, pc, state, cached>>
    BY <1>1 DEF Configure, Inserted
  <2>2. pc = "idle" /\ ~writing
    BY <2>1, BeginFacts, ArcFacts DEF Ops
  <2>3. QED
    BY <1>a, <2>1, <2>2
<1>2. CASE BeginRunOff
  <2>1. MayBegin("beginrun") /\ UNCHANGED <<writing, pc, cached, state>>
    BY <1>2 DEF BeginRunOff, Inserted, Refused
  <2>2. pc = "idle" /\ ~writing
    BY <2>1, BeginFacts, ArcFacts DEF Ops
  <2>3. QED
    BY <1>a, <2>1, <2>2
<1>3. ASSUME NEW r \in Runs, BeginRun(r) PROVE ThreadInv'
  <2>1. MayBegin("beginrun") /\ UNCHANGED <<pc, cached>> /\ Inserted("beginrun", r, TRUE)
    BY <1>3, OrderlyFacts DEF BeginRun, OpenFiles
  <2>2. pc = "idle" /\ op' = "beginrun" /\ state' = state
    BY <2>1, BeginFacts DEF Ops, Inserted
  <2>3. QED
    BY <1>a, <2>1, <2>2
<1>4. ASSUME NEW r \in Runs, BeginRunFails(r) PROVE ThreadInv'
  <2>1. MayBegin("beginrun") /\ UNCHANGED <<writing, pc, cached, state>>
    BY <1>4 DEF BeginRunFails, OpenFiles, Refused
  <2>2. pc = "idle" /\ ~writing
    BY <2>1, BeginFacts, ArcFacts DEF Ops
  <2>3. QED
    BY <1>a, <2>1, <2>2
<1>5. CASE Enable
  <2>1. MayBegin("enable") /\ UNCHANGED <<writing, pc, cached, state>>
    BY <1>5 DEF Enable, Inserted, Refused
  <2>2. pc = "idle" /\ (writing => state \in {"starting", "paused", "running"})
    BY <2>1, BeginFacts DEF Ops
  <2>3. QED
    BY <1>a, <2>1, <2>2
<1>6. ASSUME NEW t \in DOMAIN Arcs, Other(t) PROVE ThreadInv'
  <2>1. MayBegin(t) /\ UNCHANGED <<writing, pc, cached, state>>
    BY <1>6 DEF Other, Inserted
  <2>2. pc = "idle" /\ (writing => state \in {"starting", "paused", "running"})
    BY <2>1, BeginFacts, ArcFacts
  <2>3. QED
    BY <1>a, <2>1, <2>2
<1>7. CASE Reset
  <2>1. ~writing' /\ pc' = "idle" /\ state' = "connected"
    BY <1>7, OrderlyFacts DEF Reset
  <2>2. QED
    BY <2>1 DEF ThreadInv
<1>8. ASSUME NEW t \in {"l1accept", "slowupdate"}, Trigger(t) PROVE ThreadInv'
  BY <1>8 DEF Trigger, ThreadInv
<1>9. CASE Process
  <2>1. /\ pc = "idle" /\ pc' = "write" /\ UNCHANGED <<run, writing>> /\ stream # << >>
        /\ dgram'.tid = stream[1].tid /\ (writing => dgram'.run = run)
        /\ cached' = IF stream[1].tid = "configure" THEN stream[1] ELSE cached
    <3>1. stream \in Seq(Dgs) /\ stream # << >>
      BY <1>9 DEF TypeInv, Process
    <3>2. Head(stream) = stream[1]
      BY <3>1
    <3>3. QED
      BY <1>9, <3>1, <3>2, ProcessFacts DEF Process
  <2>2. CASE dgram'.tid \in EventTids /\ op' = op /\ state' = state
    <3>1. op \in {"none", "disable"}
      BY <2>1, <2>2, EventBefore
    <3>2. dgram'.tid \notin {"configure", "beginrun", "endrun"}
      BY <2>2 DEF EventTids
    <3>3. writing => state \in {"starting", "paused", "running"}
      BY <2>1, <3>1 DEF ThreadInv
    <3>4. QED
      BY <2>1, <2>2, <3>1, <3>2, <3>3 DEF ThreadInv
  <2>3. CASE /\ op \in Ops /\ dgram'.tid = op /\ op' = "none"
             /\ state' = Arcs[op][2] \/ (op # "beginrun" /\ state' = state)
    <3>1. op # "none"
      BY <2>3 DEF Ops
    <3>2. state = Arcs[op][1]
      BY <3>1 DEF StreamInv, StreamOrder
    <3>3. state' # "connected" => cached'.tid = "configure"
      <4>1. op # "configure" /\ state' # "connected" => state # "connected"
        BY <2>3, <3>2, ArcFacts DEF Ops
      <4>2. QED
        BY <2>1, <2>3, <4>1 DEF ThreadInv
    <3>4. op = "beginrun" => state' = "starting"
      BY <2>3, ArcFacts
    <3>5. writing => state' \in {"starting", "paused", "running"} \/ op = "endrun"
      <4>1. writing => state \in {"starting", "paused", "running"} \/ op = "beginrun"
        BY <2>1 DEF ThreadInv
      <4>2. op \notin {"beginrun", "endrun"} /\ state \in {"starting", "paused", "running"}
              => Arcs[op][2] \in {"starting", "paused", "running"}
        BY <2>3, <3>2, ArcFacts DEF Ops
      <4>3. QED
        BY <2>3, <3>4, <4>1, <4>2
    <3>6. QED
      BY <2>1, <2>3, <3>3, <3>4, <3>5 DEF ThreadInv
  <2>4. QED
    BY <1>9, <2>2, <2>3, ProcessFacts
<1>10. CASE WriteDgram
  <2>1. pc = "write" /\ UNCHANGED <<op, state, run, writing, cached, dgram>>
    BY <1>10 DEF WriteDgram, control
  <2>2. op \in {"none", "disable"} /\ (dgram.tid \notin EventTids => op = "none")
    BY <2>1 DEF ThreadInv
  <2>3. \/ writing /\ pc' = NextPc(dgram)
        \/ (~writing \/ dgram.tid = "l1accept") /\ pc' = "idle"
    BY <1>10 DEF WriteDgram
  <2>4. QED
    BY <2>1, <2>2, <2>3 DEF ThreadInv, NextPc
<1>11. CASE Reopen
  <2>1. pc = "reopen" /\ pc' = "idle" /\ UNCHANGED <<op, state, run, writing, cached, dgram>>
    BY <1>11 DEF Reopen, control
  <2>2. QED
    BY <2>1 DEF ThreadInv
<1>12. CASE CloseFiles
  BY <1>12 DEF CloseFiles, ThreadInv, control
<1>13. CASE Closed
  BY <1>13 DEF Closed, ThreadInv, control
<1>14. CASE JumpingIndex
  BY <1>14 DEF JumpingIndex, ThreadInv, control
<1>15. CASE WriteFails
  BY <1>15 DEF WriteFails, ThreadInv, control
<1>16. CASE Drain
  BY <1>16 DEF Drain, ThreadInv, control
<1>17. QED
  BY <1>1, <1>2, <1>3, <1>4, <1>5, <1>6, <1>7, <1>8, <1>9, <1>10, <1>11, <1>12, <1>13, <1>14,
     <1>15, <1>16 DEF Next

-----------------------------------------------------------------------------
(***************************************************************************)
(* What the files hold: only the receiver's writing adds to it             *)
(***************************************************************************)

LEMMA HeldType ==
  ASSUME TypeInv
  PROVE  \A f \in Files : Held(f) \in Seq(Dgs) /\ files[f] \in Seq(Dgs)
<1>1. TAKE f \in Files
<1>2. files[f] \in Seq(Dgs) /\ queued \in Seq(Dgs)
  BY DEF TypeInv
<1>3. QED
  BY <1>2 DEF Held

LEMMA StrayFacts ==
  ASSUME NEW q \in Seq(Dgs), Stray(q)
  PROVE  << >> \o q = q /\ (q = << >> \/ Spoilt(q))
<1>1. q # << >> => 1 \in DOMAIN q
  OBVIOUS
<1>2. << >> \o q = q
  OBVIOUS
<1>3. QED
  BY <1>1, <1>2 DEF Stray, Spoilt

LEMMA StrayAppend ==
  ASSUME NEW q \in Seq(Dgs), NEW ds \in Seq(Dgs), Stray(q), Stray(ds)
  PROVE  Stray(q \o ds)
<1>1. /\ DOMAIN q = 1 .. Len(q) /\ DOMAIN ds = 1 .. Len(ds) /\ Len(q) \in Nat /\ Len(ds) \in Nat
      /\ DOMAIN (q \o ds) = 1 .. Len(q) + Len(ds)
      /\ \A i \in 1 .. Len(q) : (q \o ds)[i] = q[i]
  OBVIOUS
<1>2. \A i \in Len(q) + 1 .. Len(q) + Len(ds) : (q \o ds)[i] = ds[i - Len(q)]
  OBVIOUS
<1> DEFINE k == q \o ds
<1>3. \A i \in DOMAIN k : k[i].file = BadFile
  <2>1. TAKE i \in DOMAIN k
  <2>2. CASE i \in 1 .. Len(q)
    BY <1>1, <2>2 DEF Stray
  <2>3. CASE i \in Len(q) + 1 .. Len(q) + Len(ds)
    <3>1. i - Len(q) \in DOMAIN ds
      BY <1>1, <2>3
    <3>2. k[i] = ds[i - Len(q)]
      BY <1>2, <2>3
    <3>3. QED
      BY <3>1, <3>2 DEF Stray
  <2>4. QED
    BY <1>1, <2>2, <2>3
<1>4. QED
  BY <1>3 DEF Stray

\* Writing to a file does not change what it begins with.
LEMMA SpoiltAppend ==
  ASSUME NEW h \in Seq(Dgs), NEW ds \in Seq(Dgs)
  PROVE  Spoilt(h) => Spoilt(h \o ds)
<1>1. h # << >> => (h \o ds)[1] = h[1] /\ h \o ds # << >>
  <2>1. Len(h \o ds) = Len(h) + Len(ds) /\ Len(h) \in Nat /\ Len(ds) \in Nat
    OBVIOUS
  <2>2. h # << >> => Len(h) > 0 /\ (h \o ds)[1] = h[1]
    OBVIOUS
  <2>3. h # << >> => h \o ds # << >>
    BY <2>1, <2>2
  <2>4. QED
    BY <2>2, <2>3
<1>2. QED
  BY <1>1 DEF Spoilt

\* Flushing moves what a file will hold into the file.
LEMMA HeldFlushed ==
  ASSUME TypeInv, files' = Flushed, queued' = << >>, fd \in Files, NEW f \in Files
  PROVE  Held(f)' = Held(f) /\ files'[f] = Held(f)
<1>1. files \in [Files -> Seq(Dgs)] /\ queued \in Seq(Dgs)
  BY DEF TypeInv
<1>2. files' = [files EXCEPT ![fd] = files[fd] \o queued]
  BY <1>1 DEF Flushed
<1>3. files'[f] = Held(f) /\ Held(f) \in Seq(Dgs)
  <2>1. CASE f = fd
    BY <1>1, <1>2, <2>1 DEF Held
  <2>2. CASE f # fd
    <3>1. files'[f] = files[f] /\ Held(f) = files[f] \o << >> /\ files[f] \in Seq(Dgs)
      BY <1>1, <1>2, <2>2 DEF Held
    <3>2. QED
      BY <3>1, ConcatEmptySeq
  <2>3. QED
    BY <2>1, <2>2
<1>4. Held(f)' = files'[f] \o << >>
  BY DEF Held
<1>5. QED
  BY <1>3, <1>4, ConcatEmptySeq

\* A file that is not open will hold what it holds.
LEMMA HeldClosed ==
  ASSUME TypeInv, NEW f \in Files, f # fd \/ queued = << >>
  PROVE  Held(f) = files[f]
<1>1. files[f] \in Seq(Dgs)
  BY DEF TypeInv
<1>2. Held(f) = files[f] \o << >>
  BY DEF Held
<1>3. QED
  BY <1>1, <1>2, ConcatEmptySeq

LEMMA HeldWritten ==
  ASSUME TypeInv, UNCHANGED <<files, fd>>, NEW ds \in Seq(Dgs), queued' = queued \o ds,
         NEW f \in Files
  PROVE  Held(f)' = IF f = fd THEN Held(f) \o ds ELSE Held(f)
<1>1. files[f] \in Seq(Dgs) /\ queued \in Seq(Dgs)
  BY DEF TypeInv
<1>2. CASE f = fd
  <2>1. Held(f)' = files[f] \o (queued \o ds) /\ Held(f) = files[f] \o queued
    BY <1>2 DEF Held
  <2>2. files[f] \o (queued \o ds) = (files[f] \o queued) \o ds
    <3>1. \A a \in Seq(Dgs), b \in Seq(Dgs), c \in Seq(Dgs) : (a \o b) \o c = a \o (b \o c)
      OBVIOUS
    <3>2. QED
      BY <1>1, <3>1, Zenon
  <2>3. QED
    BY <1>2, <2>1, <2>2
<1>3. CASE f # fd
  BY <1>3 DEF Held
<1>4. QED
  BY <1>2, <1>3

\* How files are opened and closed, and the buffers emptied.
LEMMA FileStep ==
  ASSUME Orderly, TypeInv, ThreadInv, FdInv, Next, ~WriteDgram
  PROVE  \/ UNCHANGED <<files, fd, queued, lastRun>>
         \/ /\ MayBegin("beginrun") /\ pc = "idle" /\ ~writing /\ Stray(queued)
            /\ UNCHANGED <<files, queued>>
            /\ fd' = BadFile \/ fd' = <<lastRun + 1, 0>>
            /\ fd' # BadFile => fd' \in reported'
            /\ lastRun' = lastRun + 1 /\ (writing' => smd' = << >>)
         \/ /\ fd \in Files /\ files' = Flushed /\ queued' = << >>
            /\ fd' = fd \/ Reopen
            /\ lastRun' = lastRun
         \/ /\ UNCHANGED <<files, queued, lastRun>> /\ fd = BadFile /\ Reopen
         \/ /\ UNCHANGED <<files, queued, lastRun>> /\ fd' = NoFile
            /\ fd \in Files => queued = << >>
         \/ UNCHANGED <<files, fd, lastRun>> /\ fd \notin Files
<1>a. ASSUME MayBegin("beginrun") PROVE pc = "idle" /\ ~writing /\ Stray(queued)
  <2>1. pc = "idle" /\ ~writing
    BY <1>a, BeginFacts, ArcFacts DEF Ops
  <2>2. QED
    BY <2>1 DEF FdInv
<1>1. CASE Configure
  BY <1>1 DEF Configure, disk
<1>2. CASE BeginRunOff
  BY <1>2 DEF BeginRunOff, disk
<1>3. CASE \E r \in Runs : BeginRun(r)
  <2>1. PICK r \in Runs : BeginRun(r)
    BY <1>3
  <2>2. /\ MayBegin("beginrun") /\ UNCHANGED <<files, queued>> /\ fd' = <<lastRun + 1, 0>>
        /\ lastRun' = lastRun + 1 /\ smd' = << >> /\ fd' \in reported'
    BY <2>1 DEF BeginRun, OpenFiles
  <2>3. QED
    BY <1>a, <2>2
<1>4. CASE \E r \in Runs : BeginRunFails(r)
  <2>1. PICK r \in Runs : BeginRunFails(r)
    BY <1>4
  <2>2. /\ MayBegin("beginrun") /\ UNCHANGED <<files, queued, writing>>
        /\ fd' = BadFile \/ fd' = <<lastRun + 1, 0>>
        /\ lastRun' = lastRun + 1 /\ (fd' # BadFile => fd' \in reported')
    BY <2>1 DEF BeginRunFails, OpenFiles
  <2>3. QED
    BY <1>a, <2>2
<1>5. CASE Enable
  BY <1>5 DEF Enable, disk
<1>6. CASE \E t \in DOMAIN Arcs : Other(t)
  BY <1>6 DEF Other, disk
<1>7. CASE Reset
  BY <1>7 DEF Reset, disk
<1>8. CASE \E t \in {"l1accept", "slowupdate"} : Trigger(t)
  BY <1>8 DEF Trigger, disk
<1>9. CASE Process
  BY <1>9 DEF Process, disk
<1>10. CASE Reopen
  <2>1. /\ pc = "reopen" /\ files' = Flushed /\ lastRun' = lastRun
        /\ queued' = IF fd \in Files THEN << >> ELSE queued
    BY <1>10 DEF Reopen, control
  <2>2. fd # NoFile /\ (fd \in Files \/ fd = BadFile)
    BY <2>1 DEF ThreadInv, FdInv, TypeInv
  <2>3. CASE fd \in Files
    BY <1>10, <2>1, <2>3
  <2>4. CASE fd = BadFile
    BY <1>10, <2>1, <2>4, FileFacts DEF Flushed
  <2>5. QED
    BY <2>2, <2>3, <2>4
<1>11. CASE CloseFiles
  BY <1>11 DEF CloseFiles, disk, control
<1>12. CASE Closed
  BY <1>12 DEF Closed, AllWritten, disk, control
<1>13. CASE Drain
  <2>1. files' = Flushed /\ queued' = << >> /\ fd' = fd /\ lastRun' = lastRun
    BY <1>13 DEF Drain, control
  <2>2. QED
    BY <2>1 DEF Flushed
<1>14. CASE JumpingIndex
  BY <1>14 DEF JumpingIndex, disk, control
<1>15. CASE WriteFails
  BY <1>15 DEF WriteFails, disk, control
<1>17. QED
  BY <1>1, <1>2, <1>3, <1>4, <1>5, <1>6, <1>7, <1>8, <1>9, <1>10, <1>11, <1>12, <1>13, <1>14,
     <1>15 DEF Next

\* As long as the same file is open, what a file will hold changes only when the
\* receiver writes.
LEMMA HeldKept ==
  ASSUME Orderly, TypeInv, ThreadInv, FdInv, Next, ~WriteDgram, fd' = fd, NEW f \in Files
  PROVE  Held(f)' = Held(f)
<1>1. CASE UNCHANGED <<files, queued>>
  BY <1>1 DEF Held
<1>2. CASE fd \in Files /\ files' = Flushed /\ queued' = << >>
  BY <1>2, HeldFlushed
<1>3. CASE UNCHANGED files /\ fd \notin Files
  BY <1>3 DEF Held
<1>4. QED
  BY <1>1, <1>2, <1>3, FileStep

\* When files are opened, what is left in the buffers is lost to the one that was
\* open, and comes first in the one that is.
LEMMA HeldOpened ==
  ASSUME Orderly, TypeInv, TypeInv', ThreadInv, FdInv, Next, ~WriteDgram, NEW f \in Files
  PROVE  \/ Held(f)' = Held(f)
         \/ /\ f # fd /\ f = fd' /\ Held(f)' = files[f] \o queued /\ Held(f) = files[f]
            /\ Stray(queued) /\ queued # << >> /\ f \in reported'
            /\ \/ f = <<lastRun + 1, 0>> /\ (writing' => smd' = << >>)
               \/ Reopen /\ fd = BadFile
         \/ f = fd /\ ~writing /\ pc = "idle" /\ Held(f)' = files[f]
<1>1. CASE fd' = fd
  BY <1>1, HeldKept
<1>2. CASE /\ pc = "idle" /\ ~writing /\ Stray(queued)
           /\ UNCHANGED <<files, queued>> /\ fd' # fd
           /\ fd' = BadFile \/ fd' = <<lastRun + 1, 0>>
           /\ fd' # BadFile => fd' \in reported'
           /\ writing' => smd' = << >>
  <2>1. CASE f = fd
    <3>1. Held(f)' = files'[f] \o << >> /\ files[f] \in Seq(Dgs) /\ files' = files
      BY <1>2, <2>1 DEF Held, TypeInv
    <3>2. Held(f)' = files[f]
      BY <3>1, ConcatEmptySeq
    <3>3. QED
      BY <1>2, <2>1, <3>2
  <2>2. CASE f = fd'
    <3>1. Held(f) = files[f] /\ Held(f)' = files[f] \o queued
      BY <1>2, <2>2, HeldClosed DEF Held
    <3>2. CASE queued = << >>
      <4>1. files[f] \in Seq(Dgs)
        BY DEF TypeInv
      <4>2. QED
        BY <3>1, <3>2, <4>1, ConcatEmptySeq
    <3>3. f = <<lastRun + 1, 0>> /\ f \in reported'
      BY <1>2, <2>2, FileFacts
    <3>4. QED
      BY <1>2, <2>2, <3>1, <3>2, <3>3
  <2>3. CASE f # fd /\ f # fd'
    BY <1>2, <2>3 DEF Held
  <2>4. QED
    BY <2>1, <2>2, <2>3
<1>3. CASE fd \in Files /\ files' = Flushed /\ queued' = << >>
  BY <1>3, HeldFlushed
<1>4. CASE UNCHANGED <<files, queued>> /\ fd = BadFile /\ Reopen /\ fd' # fd
  <2>1. f # fd
    BY <1>4, FileFacts
  <2>2. CASE f # fd'
    BY <1>4, <2>1, <2>2 DEF Held
  <2>3. CASE f = fd'
    <3>1. Held(f) = files[f] /\ Held(f)' = files[f] \o queued
      BY <1>4, <2>1, <2>3, HeldClosed DEF Held
    <3>2. CASE queued = << >>
      <4>1. files[f] \in Seq(Dgs)
        BY DEF TypeInv
      <4>2. QED
        BY <3>1, <3>2, <4>1, ConcatEmptySeq
    <3>3. Stray(queued)
      BY <1>4, FileFacts DEF FdInv
    <3>4. f \in reported'
      BY <1>4, <2>1, <2>3 DEF Reopen
    <3>5. QED
      BY <1>4, <2>1, <2>3, <3>1, <3>2, <3>3, <3>4
  <2>4. QED
    BY <2>2, <2>3
<1>5. CASE UNCHANGED <<files, queued>> /\ fd' = NoFile /\ (fd \in Files => queued = << >>)
  <2>1. CASE f = fd
    <3>1. queued = << >> /\ queued' = << >> /\ files' = files
      BY <1>5, <2>1
    <3>2. QED
      BY <3>1 DEF Held
  <2>2. CASE f # fd
    <3>1. f # fd'
      BY <1>5, FileFacts
    <3>2. QED
      BY <1>5, <2>2, <3>1 DEF Held
  <2>3. QED
    BY <2>1, <2>2
<1>6. QED
  BY <1>1, <1>2, <1>3, <1>4, <1>5, FileStep

-----------------------------------------------------------------------------
(***************************************************************************)
(* The open file                                                           *)
(***************************************************************************)

\* The chunk that comes next is new.
LEMMA ReopenFacts ==
  ASSUME TypeInv, ThreadInv, FdInv, ChunkInv, NewInv, Reopen
  PROVE  /\ writing /\ chunkPending /\ dgram.tid = "enable" /\ fd # NoFile
         /\ params \in Files /\ params[2] > 0 /\ params # fd /\ params[1] = run
         /\ files[params] = << >> /\ Held(params) = << >>
         /\ fd \in Files \/ Stuck
         /\ fd \in Files => params = <<fd[1], fd[2] + 1>>
<1>1. pc = "reopen"
  BY DEF Reopen
<1>2. writing /\ fd # NoFile /\ dgram.tid = "enable" /\ (fd \in Files \/ fd = BadFile)
  BY <1>1 DEF ThreadInv, FdInv, TypeInv
<1>3. CASE fd \in Files
  <2>1. chunkPending /\ fd # BadFile
    BY <1>1, <1>2, <1>3, FileFacts DEF ChunkInv
  <2>2. /\ params[1] = fd[1] /\ params[1] = run /\ params[2] = fd[2] + 1
        /\ params[2] <= MaxSent
    BY <1>2, <2>1, Constant DEF FdInv, TypeInv
  <2>3. params = <<fd[1], fd[2] + 1>> /\ params[2] > fd[2] /\ params[2] > 0
    BY <1>3, <2>2, FileFacts DEF TypeInv
  <2>4. params \in Files
    BY <1>3, <2>2, <2>3, FileFacts, Constant DEF Files
  <2>5. files[params] = << >>
    BY <1>3, <2>2, <2>3, <2>4 DEF NewInv
  <2>6. params # fd
    BY <1>3, <2>2, FileFacts
  <2>7. Held(params) = << >>
    BY <2>4, <2>5, <2>6, HeldClosed
  <2>8. QED
    BY <1>2, <1>3, <2>1, <2>2, <2>3, <2>4, <2>5, <2>6, <2>7
<1>4. CASE fd = BadFile
  <2>1. Stuck /\ fd \notin Files
    BY <1>2, <1>4, FileFacts DEF Stuck
  <2>2. params \in Files /\ params[1] = run /\ params[2] > 0 /\ chunkPending
    BY <2>1 DEF FdInv
  <2>3. params # fd /\ params[2] \in Nat
    BY <1>4, <2>2, FileFacts
  <2>4. files[params] = << >>
    BY <2>1, <2>2, <2>3 DEF NewInv
  <2>5. Held(params) = << >>
    BY <2>2, <2>3, <2>4, HeldClosed
  <2>6. QED
    BY <1>2, <2>1, <2>2, <2>3, <2>4, <2>5
<1>5. QED
  BY <1>2, <1>3, <1>4

LEMMA FdStep ==
  ASSUME Orderly, TypeInv, StreamInv, ThreadInv, FdInv, ChunkInv, NewInv, Next
  PROVE  FdInv'
<1> USE Constant
\* Nothing is open before or after, and at most a transition was counted.
<1>a. ASSUME ~writing, pc = "idle", ~writing', pc' = "idle", UNCHANGED <<params, queued>>,
             sent' \in {sent, sent + 1}, sent' <= MaxSent, lastRun' <= MaxRun,
             fd' \in Files => fd'[1] <= lastRun'
      PROVE  FdInv'
  <2>1. Stray(queued) /\ params[2] <= sent /\ params[2] \in Nat /\ sent \in Nat
    BY <1>a DEF FdInv, TypeInv
  <2>2. params'[2] <= sent'
    BY <1>a, <2>1
  <2>3. Stray(queued)'
    BY <1>a, <2>1 DEF Stray
  <2>4. QED
    BY <1>a, <2>2, <2>3 DEF FdInv, Stuck
\* The same file is open as before, and not a fresh one.
<1>b. ASSUME UNCHANGED <<fd, run, lastRun, writing, chunkPending, params, reported>>, ~Fresh',
             sent' \in {sent, sent + 1}, sent' <= MaxSent,
             fd \notin Files \/ (~writing /\ pc' # "closing") => Stray(queued)',
             pc' = "closing" => pc = "closing"
      PROVE  FdInv'
  <2>1. params'[2] <= sent'
    BY <1>b DEF FdInv, TypeInv
  <2>2. QED
    BY <1>b, <2>1 DEF FdInv, Stuck
\* Nothing that matters has changed.
<1>c. ASSUME UNCHANGED <<fd, run, lastRun, writing, chunkPending, params, reported, sent, pc,
                         chunkOffset, chunkRequest, offset, op, dgram>>,
             queued' = queued \/ queued' = << >>,
             \A f \in Files : Held(f)' = Held(f)
      PROVE  FdInv'
  <2>1. Fresh' = Fresh
    BY <1>c DEF Fresh
  <2>2. writing => fd \in Files \cup {BadFile}
    BY DEF FdInv, TypeInv
  <2>3. writing /\ Fresh => fd # BadFile
    BY DEF FdInv, BadFile
  <2>4. writing /\ Fresh => Held(fd)' = Held(fd)
    BY <1>c, <2>2, <2>3
  <2>5. fd \notin Files \/ (~writing /\ pc # "closing") => Stray(queued)'
    BY <1>c DEF FdInv, Stray
  <2>6. writing /\ Fresh => Held(fd)' = << >> \/ Spoilt(Held(fd))'
    BY <2>4 DEF FdInv, Spoilt
  <2>7. QED
    BY <1>c, <2>1, <2>5, <2>6 DEF FdInv, Stuck
<1>1. CASE Configure
  <2>1. /\ MayBegin("configure") /\ UNCHANGED <<writing, pc, params, queued, lastRun, fd>>
        /\ sent' = sent + 1
    BY <1>1 DEF Configure, Inserted, chunk, disk
  <2>2. pc = "idle" /\ ~writing /\ sent < MaxSent
    BY <2>1, BeginFacts, ArcFacts DEF Ops
  <2>3. sent' <= MaxSent /\ lastRun <= MaxRun /\ (fd \in Files => fd[1] <= lastRun)
    BY <2>1, <2>2 DEF FdInv, TypeInv
  <2>4. QED
    BY <1>a, <2>1, <2>2, <2>3
<1>2. CASE BeginRunOff
  <2>1. /\ MayBegin("beginrun") /\ UNCHANGED <<writing, pc, params, queued, lastRun, fd>>
        /\ sent' = sent + 1
    BY <1>2, OrderlyFacts DEF BeginRunOff, Inserted, disk
  <2>2. pc = "idle" /\ ~writing /\ sent < MaxSent
    BY <2>1, BeginFacts, ArcFacts DEF Ops
  <2>3. sent' <= MaxSent /\ lastRun <= MaxRun /\ (fd \in Files => fd[1] <= lastRun)
    BY <2>1, <2>2 DEF FdInv, TypeInv
  <2>4. QED
    BY <1>a, <2>1, <2>2, <2>3
<1>3. ASSUME NEW r \in Runs, BeginRun(r) PROVE FdInv'
  <2>1. /\ MayBegin("beginrun") /\ UNCHANGED <<pc, queued, files>> /\ writing' = TRUE
        /\ r = lastRun + 1 /\ r <= MaxRun /\ run' = r /\ lastRun' = r
        /\ fd' = <<r, 0>> /\ params' = <<r, 0>> /\ reported' = reported \cup {<<r, 0>>}
        /\ offset' = 0 /\ chunkOffset' = 0 /\ chunkRequest' = FALSE /\ chunkPending' = FALSE
    BY <1>3 DEF BeginRun, OpenFiles, ChunkReset
  <2>2. sent' = sent + 1
    BY <1>3, OrderlyFacts DEF BeginRun, Inserted
  <2>3. pc = "idle" /\ ~writing /\ sent < MaxSent
    BY <2>1, BeginFacts, ArcFacts DEF Ops
  <2>4. Stray(queued) /\ queued \in Seq(Dgs) /\ sent' \in Nat /\ sent' <= MaxSent /\ lastRun \in Nat
    BY <2>2, <2>3 DEF FdInv, TypeInv
  <2>5. <<r, 0>> \in Files /\ <<r, 0>>[1] = r /\ <<r, 0>>[2] = 0 /\ r > lastRun
    BY <2>1, <2>4 DEF Files
  <2>6. Held(fd)' = << >> \/ Spoilt(Held(fd))'
    <3>1. files[<<r, 0>>] = << >>
      BY <2>5 DEF NewInv
    <3>2. Held(fd)' = << >> \o queued
      BY <2>1, <3>1 DEF Held
    <3>3. Held(fd)' = queued
      BY <2>4, <3>2, StrayFacts
    <3>4. QED
      BY <2>4, <3>3, StrayFacts DEF Spoilt
  <2>7. <<r, 0>> # NoFile /\ <<r, 0>> # BadFile
    BY <2>5, FileFacts
  <2>8. QED
    BY <2>1, <2>3, <2>4, <2>5, <2>6, <2>7 DEF FdInv, Stuck
<1>4. ASSUME NEW r \in Runs, BeginRunFails(r) PROVE FdInv'
  <2>1. /\ MayBegin("beginrun") /\ UNCHANGED <<writing, pc, params, queued, sent>>
        /\ r = lastRun + 1 /\ r <= MaxRun /\ lastRun' = r
        /\ fd' = BadFile \/ fd' = <<r, 0>>
    BY <1>4 DEF BeginRunFails, OpenFiles, Refused
  <2>2. pc = "idle" /\ ~writing
    BY <2>1, BeginFacts, ArcFacts DEF Ops
  <2>3. sent <= MaxSent /\ r \in Nat
    BY <2>1 DEF FdInv, TypeInv
  <2>4. fd' \in Files => fd'[1] <= r
    BY <2>1, <2>3, FileFacts
  <2>5. QED
    BY <1>a, <2>1, <2>2, <2>3, <2>4
<1>5. CASE Enable
  <2>1. /\ MayBegin("enable") /\ UNCHANGED <<fd, run, lastRun, writing, reported, pc, queued>>
        /\ op' = "enable" /\ sent' = sent + 1
    BY <1>5, OrderlyFacts DEF Enable, Inserted, disk
  <2>2. pc = "idle" /\ sent < MaxSent
    BY <2>1, BeginFacts DEF Ops
  <2>3. ~Fresh' /\ sent' <= MaxSent /\ sent \in Nat /\ params[2] \in Nat
    BY <2>1, <2>2 DEF Fresh, TypeInv
  <2>4. CASE UNCHANGED <<chunkPending, params>>
    BY <1>b, <2>1, <2>2, <2>3, <2>4 DEF FdInv, Stray
  <2>5. CASE ~chunkPending /\ chunkPending' = TRUE /\ params' = <<params[1], params[2] + 1>>
    <3>1. params'[1] = params[1] /\ params'[2] = params[2] + 1 /\ params'[2] <= sent'
      BY <2>1, <2>3, <2>5 DEF FdInv
    <3>2. QED
      BY <2>1, <2>2, <2>3, <2>5, <3>1 DEF FdInv, Stuck, Stray
  <2>6. QED
    BY <1>5, <2>4, <2>5 DEF Enable, AdvanceChunkId
<1>6. ASSUME NEW t \in DOMAIN Arcs, Other(t) PROVE FdInv'
  <2>1. /\ MayBegin(t) /\ t # "beginrun" /\ t \in Ops
        /\ UNCHANGED <<fd, run, lastRun, writing, chunkPending, params, reported, pc, queued>>
        /\ op' = t /\ sent' = sent + 1
    BY <1>6, ArcFacts DEF Other, Inserted, chunk, disk
  <2>2. pc = "idle" /\ sent < MaxSent /\ sent \in Nat
    BY <2>1, BeginFacts DEF TypeInv
  <2>3. ~Fresh' /\ sent' <= MaxSent
    BY <2>1, <2>2 DEF Fresh
  <2>4. QED
    BY <1>b, <2>1, <2>2, <2>3 DEF FdInv, Stray
<1>7. CASE Reset
  <2>1. /\ UNCHANGED <<writing, pc, params, queued, lastRun, fd>> /\ pc = "idle"
        /\ sent' = sent + 1 /\ sent < MaxSent
    BY <1>7 DEF Reset, chunk, disk
  <2>2. ~writing
    BY <1>7, OrderlyFacts
  <2>3. sent' <= MaxSent /\ lastRun <= MaxRun /\ (fd \in Files => fd[1] <= lastRun)
    BY <2>1 DEF FdInv, TypeInv
  <2>4. QED
    BY <1>a, <2>1, <2>2, <2>3
<1>8. ASSUME NEW t \in {"l1accept", "slowupdate"}, Trigger(t) PROVE FdInv'
  <2>1. ~WriteDgram
    BY <1>8 DEF Trigger, WriteDgram, control, TypeInv
  <2>2. UNCHANGED <<fd, run, lastRun, writing, chunkPending, params, reported, sent, pc,
                    chunkOffset, chunkRequest, offset, op, dgram, queued>>
    BY <1>8 DEF Trigger, chunk, disk
  <2>3. \A f \in Files : Held(f)' = Held(f)
    BY <2>1, <2>2, HeldKept
  <2>4. QED
    BY <1>c, <2>2, <2>3
<1>9. CASE Process
  <2>1. /\ pc = "idle" /\ pc' = "write"
        /\ UNCHANGED <<fd, run, lastRun, writing, chunkPending, params, reported, sent,
                       chunkOffset, chunkRequest, queued, files>>
    BY <1>9 DEF Process, disk
  <2>2. Fresh' => op = "beginrun"
    <3>1. dgram'.tid = "beginrun" => dgram'.tid \notin EventTids
      BY DEF EventTids
    <3>2. op' = "beginrun" => op = "beginrun"
      BY <1>9, ProcessFacts
    <3>3. QED
      BY <1>9, <3>1, <3>2, ProcessFacts DEF Fresh
  <2>3. offset' = 0 \/ offset' = offset
    BY <1>9 DEF Process
  <2>4. Held(fd)' = Held(fd)
    BY <2>1 DEF Held
  <2>5. Fresh' => Fresh
    BY <2>2 DEF Fresh
  <2>6. writing /\ Fresh' => offset' = 0
    BY <2>3, <2>5 DEF FdInv
  <2>7. QED
    BY <2>1, <2>4, <2>5, <2>6 DEF FdInv, Stuck, Stray, Spoilt
<1>10. CASE WriteDgram
  <2>1. /\ UNCHANGED <<fd, run, lastRun, writing, chunkPending, params, reported, sent, op>>
        /\ pc = "write" /\ pc' \in {"idle", "reopen", "close"}
    BY <1>10 DEF WriteDgram, NextPc, control
  <2>2. ~Fresh'
    BY <2>1 DEF Fresh, ThreadInv
  <2>3. fd \notin Files \/ ~writing => Stray(queued)'
    <3>1. fd \notin Files \/ ~writing => Stray(queued)
      BY <2>1 DEF FdInv
    <3>2. CASE UNCHANGED queued
      BY <3>1, <3>2 DEF Stray
    <3>3. CASE writing /\ queued' = queued \o ToWrite(dgram)
      <4>1. fd \notin Files => fd = BadFile
        BY <3>3 DEF FdInv, TypeInv
      <4>2. ToWrite(dgram) \in Seq(Dgs) /\ queued \in Seq(Dgs)
            /\ (fd \notin Files => Stray(ToWrite(dgram)))
        BY <4>1, ToWriteType DEF TypeInv, Stray
      <4>3. fd \notin Files => Stray(queued \o ToWrite(dgram))
        BY <3>1, <4>2, StrayAppend
      <4>4. QED
        BY <3>3, <4>3 DEF Stray
    <3>4. QED
      BY <1>10, <3>2, <3>3 DEF WriteDgram, Write
  <2>4. QED
    BY <1>b, <2>1, <2>2, <2>3 DEF FdInv
<1>11. CASE Reopen
  <2>1. /\ UNCHANGED <<run, lastRun, writing, params, sent, op>> /\ pc = "reopen" /\ pc' = "idle"
        /\ queued' = IF fd \in Files THEN << >> ELSE queued
        /\ \/ fd' = params /\ reported' = reported \cup {params} /\ chunkPending' = FALSE
           \/ fd' = BadFile /\ UNCHANGED chunkPending
    BY <1>11 DEF Reopen, control
  <2>2. /\ writing /\ params \in Files /\ params[2] > 0 /\ params[1] = run /\ chunkPending
    BY <1>11, ReopenFacts
  <2>3. ~Fresh'
    BY <2>1 DEF Fresh, ThreadInv
  <2>4. run = lastRun /\ params[2] <= sent /\ lastRun \in Nat
    BY <2>2 DEF FdInv, TypeInv
  <2>5. params # NoFile /\ params # BadFile /\ BadFile # NoFile /\ BadFile \notin Files
    BY <2>2, FileFacts
  <2>6. fd' \notin Files => Stray(queued)'
    BY <2>1 DEF FdInv, Stray
  <2>7. CASE fd' = params /\ reported' = reported \cup {params} /\ chunkPending' = FALSE
    BY <2>1, <2>2, <2>3, <2>4, <2>5, <2>6, <2>7 DEF FdInv, Stuck
  <2>8. CASE fd' = BadFile /\ UNCHANGED chunkPending
    BY <2>1, <2>2, <2>3, <2>4, <2>5, <2>6, <2>8 DEF FdInv, Stuck
  <2>9. QED
    BY <2>1, <2>7, <2>8
<1>12. CASE CloseFiles
  <2>1. /\ UNCHANGED <<lastRun, params, sent, fd>> /\ writing' = FALSE
        /\ pc = "close" /\ pc' = "closing"
    BY <1>12 DEF CloseFiles, control, chunk
  <2>2. writing
    BY <2>1 DEF ThreadInv
  <2>3. fd \notin Files => Stray(queued)'
    BY <1>12 DEF CloseFiles, disk, FdInv, Stray
  <2>4. QED
    BY <2>1, <2>2, <2>3 DEF FdInv, Stuck
<1>13. CASE Closed
  <2>1. /\ UNCHANGED <<lastRun, params, sent, writing, queued>> /\ (fd \in Files => queued = << >>)
        /\ fd' = NoFile /\ pc = "closing" /\ pc' = "idle"
    BY <1>13 DEF Closed, AllWritten, control, chunk, disk
  <2>2. ~writing
    BY <2>1 DEF ThreadInv
  <2>3. Stray(queued)'
    BY <2>1 DEF FdInv, Stray
  <2>4. QED
    BY <2>1, <2>2, <2>3, FileFacts DEF FdInv, Stuck
<1>14. CASE Drain
  <2>1. ~WriteDgram
    BY <1>14 DEF Drain, WriteDgram, NextPc
  <2>2. UNCHANGED <<fd, run, lastRun, writing, chunkPending, params, reported, sent, pc,
                    chunkOffset, chunkRequest, offset, op, dgram>> /\ queued' = << >>
    BY <1>14 DEF Drain, control, chunk
  <2>3. \A f \in Files : Held(f)' = Held(f)
    BY <2>1, <2>2, HeldKept
  <2>4. QED
    BY <1>c, <2>2, <2>3
<1>15. CASE JumpingIndex
  <2>1. UNCHANGED <<fd, run, lastRun, writing, chunkPending, params, reported, sent, pc,
                    chunkOffset, chunkRequest, offset, op, dgram, queued, files>>
    BY <1>15 DEF JumpingIndex, control, chunk, disk
  <2>2. \A f \in Files : Held(f)' = Held(f)
    BY <2>1 DEF Held
  <2>3. QED
    BY <1>c, <2>1, <2>2
<1>16. CASE WriteFails
  <2>1. UNCHANGED <<fd, run, lastRun, writing, chunkPending, params, reported, sent, pc,
                    chunkOffset, chunkRequest, offset, op, dgram, queued, files>>
    BY <1>16 DEF WriteFails, control, chunk, disk
  <2>2. \A f \in Files : Held(f)' = Held(f)
    BY <2>1 DEF Held
  <2>3. QED
    BY <1>c, <2>1, <2>2
<1>17. QED
  BY <1>1, <1>2, <1>3, <1>4, <1>5, <1>6, <1>7, <1>8, <1>9, <1>10, <1>11, <1>12, <1>13, <1>14,
     <1>15, <1>16 DEF Next

-----------------------------------------------------------------------------
(***************************************************************************)
(* Sizes and chunks                                                        *)
(***************************************************************************)

\* Either nothing is written, or what is written goes to the end of the open
\* file, at its place in the chunk.
LEMMA WriteFacts ==
  ASSUME TypeInv, ThreadInv, FdInv, OffsetInv, WriteDgram
  PROVE  /\ pc = "write"
         /\ UNCHANGED <<fd, files, writing, chunkOffset, chunkPending, params, op, run, lastRun,
                        dgram, reported>>
         /\ \/ /\ ~writing \/ dgram.tid = "l1accept"
               /\ UNCHANGED <<offset, smd>> /\ pc' = "idle"
               /\ \A f \in Files : Held(f)' = Held(f)
            \/ /\ writing /\ pc' = NextPc(dgram)
               /\ Write(ToWrite(dgram), IF dgram.tid = "beginrun" THEN 0 ELSE offset)
               /\ fd # BadFile => offset' = offset + Len(ToWrite(dgram))
               /\ \A f \in Files : Held(f)' = IF f = fd THEN Held(f) \o ToWrite(dgram) ELSE Held(f)
<1>1. /\ pc = "write"
      /\ UNCHANGED <<fd, files, writing, chunkOffset, chunkPending, params, op, run, lastRun, dgram,
                     reported>>
  BY DEF WriteDgram, control
<1>2. CASE /\ ~writing \/ dgram.tid = "l1accept"
           /\ UNCHANGED <<queued, smd, offset>> /\ pc' = "idle"
  BY <1>1, <1>2 DEF Held
<1>3. CASE /\ writing /\ pc' = NextPc(dgram)
           /\ Write(ToWrite(dgram), IF dgram.tid = "beginrun" THEN 0 ELSE offset)
  <2>1. ToWrite(dgram) \in Seq(Dgs) /\ queued' = queued \o ToWrite(dgram)
    BY <1>3, ToWriteType DEF Write
  <2>2. \A f \in Files : Held(f)' = IF f = fd THEN Held(f) \o ToWrite(dgram) ELSE Held(f)
    BY <1>1, <2>1, HeldWritten
  <2>3. dgram.tid = "beginrun" => offset = 0
    BY <1>1, <1>3 DEF FdInv, Fresh
  <2>4. offset' = offset + Len(ToWrite(dgram))
    BY <1>3, <2>3 DEF Write
  <2>5. QED
    BY <1>1, <1>3, <2>2, <2>4
<1>4. QED
  BY <1>2, <1>3 DEF WriteDgram

LEMMA OffsetStep ==
  ASSUME Orderly, TypeInv, StreamInv, ThreadInv, FdInv, ChunkInv, OffsetInv, NewInv, Next,
         TypeInv', FdInv'
  PROVE  OffsetInv'
<1>a. ASSUME UNCHANGED <<fd, writing, offset, chunkOffset>>, Fresh => Fresh',
             \A f \in Files : Held(f)' = Held(f)
      PROVE  OffsetInv'
  <2>1. writing /\ fd # BadFile => fd \in Files
    BY DEF FdInv, TypeInv
  <2>2. writing /\ fd # BadFile => Held(fd)' = Held(fd)
    BY <1>a, <2>1
  <2>3. QED
    BY <1>a, <2>2 DEF OffsetInv, ChunkSize, Spoilt
<1>b. ASSUME ~writing' PROVE OffsetInv'
  BY <1>b DEF OffsetInv
<1>1. CASE WriteDgram
  <2>1. UNCHANGED <<fd, writing, chunkOffset, op>> /\ pc = "write"
    BY <1>1, WriteFacts
  <2>2. op # "beginrun"
    BY <2>1 DEF ThreadInv
  <2>3. ~Fresh' /\ (Fresh <=> dgram.tid = "beginrun")
    <3>1. pc' # "write"
      BY <1>1 DEF WriteDgram, NextPc
    <3>2. QED
      BY <2>1, <2>2, <3>1 DEF Fresh
  <2>4. CASE /\ ~writing \/ (dgram.tid = "l1accept" /\ UNCHANGED offset)
             /\ \A f \in Files : Held(f)' = Held(f)
    <3>1. CASE ~writing
      BY <1>b, <2>1, <3>1
    <3>2. CASE dgram.tid = "l1accept" /\ UNCHANGED offset
      BY <1>a, <2>1, <2>3, <2>4, <3>2
    <3>3. QED
      BY <2>4, <3>1, <3>2
  <2>5. CASE /\ fd # BadFile => offset' = offset + Len(ToWrite(dgram))
             /\ \A f \in Files : Held(f)' = IF f = fd THEN Held(f) \o ToWrite(dgram) ELSE Held(f)
    <3>1. SUFFICES ASSUME writing, fd # BadFile, ~Spoilt(Held(fd)')
                   PROVE  /\ Len(Held(fd)') = offset' - chunkOffset'
                          /\ fd[2] = 0 => Len(Held(fd)') >= 2
      BY <2>1 DEF OffsetInv, ChunkSize, Spoilt
    <3>2. fd \in Files
      BY <3>1 DEF FdInv, TypeInv
    <3>3. Held(fd) \in Seq(Dgs) /\ ToWrite(dgram) \in Seq(Dgs)
      BY <3>2, HeldType, ToWriteType
    <3>4. Held(fd)' = Held(fd) \o ToWrite(dgram)
      BY <2>1, <2>5, <3>2
    <3>5. Len(Held(fd)') = Len(Held(fd)) + Len(ToWrite(dgram)) /\ Len(Held(fd)) \in Nat
      BY <3>3, <3>4
    <3>6. Len(Held(fd)) = offset - chunkOffset /\ (fd[2] = 0 /\ ~Fresh => Len(Held(fd)) >= 2)
      <4>1. ~Spoilt(Held(fd))
        BY <3>1, <3>3, <3>4, SpoiltAppend
      <4>2. QED
        BY <3>1, <4>1 DEF OffsetInv, ChunkSize
    <3>7. Len(ToWrite(dgram)) = 1 \/ (Fresh /\ Len(ToWrite(dgram)) = 2)
      BY <2>3, ToWriteType
    <3>8. fd[2] = 0 => Len(Held(fd)') >= 2
      BY <3>5, <3>6, <3>7, ToWriteType, <2>3
    <3>9. QED
      BY <2>1, <2>5, <3>1, <3>5, <3>6, <3>7, <3>8 DEF TypeInv
  <2>6. QED
    BY <1>1, <2>4, <2>5, WriteFacts
<1>2. CASE ~WriteDgram
  <2>0. fd' = fd => \A f \in Files : Held(f)' = Held(f)
    BY <1>2, HeldKept
  <2>1. CASE Configure
    <3>1. MayBegin("configure") /\ writing' = writing
      BY <2>1 DEF Configure
    <3>2. QED
      BY <1>b, <3>1, BeginFacts, ArcFacts DEF Ops
  <2>2. CASE BeginRunOff
    <3>1. MayBegin("beginrun") /\ writing' = writing
      BY <2>2 DEF BeginRunOff
    <3>2. QED
      BY <1>b, <3>1, BeginFacts, ArcFacts DEF Ops
  <2>3. ASSUME NEW r \in Runs, BeginRun(r) PROVE OffsetInv'
    <3>1. writing' /\ op' = "beginrun"
      BY <2>3, OrderlyFacts DEF BeginRun, Inserted
    <3>2. Fresh'
      BY <3>1 DEF Fresh
    <3>3. Held(fd)' = << >> \/ Spoilt(Held(fd))'
      BY <3>1, <3>2 DEF FdInv
    <3>4. offset' = 0 /\ chunkOffset' = 0
      BY <3>1, <3>2 DEF FdInv
    <3>5. CASE Held(fd)' = << >>
      BY <3>2, <3>4, <3>5 DEF OffsetInv, ChunkSize
    <3>6. CASE Spoilt(Held(fd))'
      BY <3>6 DEF OffsetInv
    <3>7. QED
      BY <3>3, <3>5, <3>6
  <2>4. ASSUME NEW r \in Runs, BeginRunFails(r) PROVE OffsetInv'
    <3>1. MayBegin("beginrun") /\ writing' = writing
      BY <2>4 DEF BeginRunFails, OpenFiles
    <3>2. QED
      BY <1>b, <3>1, BeginFacts, ArcFacts DEF Ops
  <2>5. CASE Enable
    <3>1. MayBegin("enable") /\ UNCHANGED <<fd, writing, offset, chunkOffset>>
      BY <2>5 DEF Enable
    <3>2. ~Fresh
      BY <3>1, BeginFacts DEF Fresh, Ops
    <3>3. QED
      BY <1>a, <2>0, <3>1, <3>2
  <2>6. ASSUME NEW t \in DOMAIN Arcs, Other(t) PROVE OffsetInv'
    <3>1. MayBegin(t) /\ UNCHANGED <<fd, writing, offset, chunkOffset>> /\ t \in Ops
      BY <2>6, ArcFacts DEF Other, chunk
    <3>2. ~Fresh
      BY <3>1, BeginFacts DEF Fresh
    <3>3. QED
      BY <1>a, <2>0, <3>1, <3>2
  <2>7. CASE Reset
    BY <1>b, <2>7, OrderlyFacts DEF Reset
  <2>8. ASSUME NEW t \in {"l1accept", "slowupdate"}, Trigger(t) PROVE OffsetInv'
    <3>1. UNCHANGED <<fd, writing, offset, chunkOffset, op, pc, dgram>>
      BY <2>8 DEF Trigger, chunk
    <3>2. QED
      BY <1>a, <2>0, <3>1 DEF Fresh
  <2>9. CASE Process
    <3>1. pc = "idle" /\ pc' = "write" /\ stream # << >> /\ UNCHANGED <<fd, writing, chunkOffset>>
      BY <2>9 DEF Process
    <3>2. Fresh => Fresh'
      <4>1. op = "beginrun" => dgram'.tid \notin EventTids
        BY <2>9, <3>1, ProcessFacts, EventBefore
      <4>2. op = "beginrun" => dgram'.tid = "beginrun"
        BY <2>9, <4>1, ProcessFacts
      <4>3. QED
        BY <3>1, <4>2 DEF Fresh
    <3>3. writing => offset' = offset
      <4>1. stream \in Seq(Dgs) /\ Head(stream) = stream[1]
        BY <3>1 DEF TypeInv
      <4>2. stream[1].tid = "beginrun" => op = "beginrun"
        BY <2>9, ProcessFacts DEF EventTids
      <4>3. writing /\ op = "beginrun" => offset = 0
        BY DEF FdInv, Fresh
      <4>4. QED
        BY <2>9, <4>1, <4>2, <4>3 DEF Process
    <3>4. QED
      BY <1>a, <1>b, <2>0, <3>1, <3>2, <3>3
  <2>10. CASE Reopen
    <3>1. fd' = params \/ fd' = BadFile
      BY <2>10 DEF Reopen
    <3>2. CASE fd' = params
      <4>1. Held(fd)' = << >> \/ Spoilt(Held(fd))'
        <5>1. params \in Files /\ files[params] = << >> /\ Held(params) = << >>
          BY <2>10, ReopenFacts
        <5>2. PICK p \in Files : p = params /\ fd' = p
          BY <3>2, <5>1
        <5>3. \/ Held(p)' = Held(p)
              \/ Held(p)' = files[p] \o queued /\ Stray(queued)
              \/ Held(p)' = files[p]
          BY <1>2, HeldOpened
        <5>4. queued \in Seq(Dgs)
          BY DEF TypeInv
        <5>5. Held(p)' = << >> \/ Spoilt(Held(p)')
          BY <5>1, <5>2, <5>3, <5>4, StrayFacts
        <5>6. Held(fd)' = Held(p)'
          BY <5>2 DEF Held
        <5>7. QED
          BY <5>5, <5>6 DEF Spoilt
      <4>2. chunkOffset' = offset' /\ offset' \in Nat
        BY <2>10 DEF Reopen, ChunkStart, TypeInv
      <4>3. fd'[2] # 0
        BY <2>10, <3>2, ReopenFacts, FileFacts
      <4>4. ChunkSize' = 0
        <5>1. ChunkSize' = offset' - chunkOffset'
          BY DEF ChunkSize
        <5>2. ChunkSize' = 0
          <6>1. \A o \in Nat : o - o = 0
            OBVIOUS
          <6>2. offset' - chunkOffset' = 0
            BY <4>2, <6>1, Zenon
          <6>3. QED
            BY <5>1, <6>2, Zenon
        <5>3. QED
          BY <5>2
      <4>5. Len(<< >>) = 0
        OBVIOUS
      <4>6. QED
        BY <4>1, <4>3, <4>4, <4>5 DEF OffsetInv
    <3>3. CASE fd' = BadFile
      BY <3>3 DEF OffsetInv
    <3>4. QED
      BY <3>1, <3>2, <3>3
  <2>11. CASE CloseFiles
    BY <1>b, <2>11 DEF CloseFiles
  <2>12. CASE Closed
    <3>1. writing' = writing /\ pc = "closing"
      BY <2>12 DEF Closed
    <3>2. QED
      BY <1>b, <3>1 DEF ThreadInv
  <2>13. CASE Drain
    <3>1. UNCHANGED <<fd, writing, offset, chunkOffset, op, pc, dgram>>
      BY <2>13 DEF Drain, chunk, control
    <3>2. QED
      BY <1>a, <2>0, <3>1 DEF Fresh
  <2>14. CASE JumpingIndex
    <3>1. UNCHANGED <<fd, writing, offset, chunkOffset, op, pc, dgram>>
      BY <2>14 DEF JumpingIndex, chunk, control
    <3>2. QED
      BY <1>a, <2>0, <3>1 DEF Fresh
  <2>15. CASE WriteFails
    <3>1. UNCHANGED <<fd, writing, offset, chunkOffset, op, pc, dgram>>
      BY <2>15 DEF WriteFails, chunk, control
    <3>2. QED
      BY <1>a, <2>0, <3>1 DEF Fresh
  <2>16. QED
    BY <1>2, <2>1, <2>2, <2>3, <2>4, <2>5, <2>6, <2>7, <2>8, <2>9, <2>10, <2>11, <2>12, <2>13,
       <2>14, <2>15 DEF Next
<1>3. QED
  BY <1>1, <1>2

LEMMA ChunkStep ==
  ASSUME Orderly, TypeInv, StreamInv, ThreadInv, FdInv, ChunkInv, OffsetInv, NewInv, Next,
         TypeInv', FdInv'
  PROVE  ChunkInv'
<1> USE Constant
\* No file is open.
<1>a. ASSUME ~writing' \/ fd' = BadFile PROVE ChunkInv'
  BY <1>a DEF ChunkInv
\* Nothing happens to chunks.
<1>b. ASSUME UNCHANGED <<fd, writing, offset, chunkOffset, chunkRequest, chunkPending, params, info,
                         op, pc, dgram>>,
             \A f \in Files : Held(f)' = Held(f)
      PROVE  ChunkInv'
  <2>1. writing /\ fd # BadFile => fd \in Files
    BY DEF FdInv, TypeInv
  <2>2. writing /\ fd # BadFile => Held(fd)' = Held(fd)
    BY <1>b, <2>1
  <2>3. Enabling' = Enabling /\ ChunkSize' = ChunkSize
    BY <1>b DEF Enabling, ChunkSize
  <2>4. QED
    BY <1>b, <2>2, <2>3 DEF ChunkInv
<1>1. CASE WriteDgram
  <2>0. SUFFICES ASSUME writing, fd # BadFile, fd \in Files PROVE ChunkInv'
    <3>1. UNCHANGED <<fd, writing>>
      BY <1>1, WriteFacts
    <3>2. writing /\ fd # BadFile => fd \in Files
      BY DEF FdInv, TypeInv
    <3>3. QED
      BY <1>a, <3>1, <3>2
  <2>1. UNCHANGED <<fd, writing, chunkOffset, chunkPending, params, op, dgram>> /\ pc = "write"
    BY <1>1, WriteFacts
  <2>2. /\ chunkRequest' = (chunkRequest \/ RequestsChunk(dgram))
        /\ UNCHANGED info
    BY <1>1 DEF WriteDgram
  <2>3. op # "enable" /\ (dgram.tid = "enable" => op = "none")
    BY <2>1 DEF ThreadInv, EventTids
  <2>4. offset' >= offset /\ offset \in Nat /\ offset' \in Nat /\ chunkOffset \in Nat
    <3>1. offset \in Nat /\ offset' \in Nat /\ chunkOffset \in Nat
      BY DEF TypeInv
    <3>2. Len(ToWrite(dgram)) \in {1, 2}
      BY ToWriteType
    <3>3. offset' = offset \/ offset' = offset + Len(ToWrite(dgram))
      BY <1>1, <2>0, WriteFacts
    <3>4. QED
      BY <3>1, <3>2, <3>3
  <2>5. CASE dgram.tid # "enable"
    <3>1. pc' \notin {"write", "reopen"}
      BY <1>1, <2>5 DEF WriteDgram, NextPc
    <3>2. ~chunkPending
      BY <2>0, <2>1, <2>3, <2>5 DEF ChunkInv, Enabling
    <3>3. chunkRequest' => ChunkSize' > Thresh
      <4>1. chunkRequest => ChunkSize > Thresh
        BY <2>0, <3>2 DEF ChunkInv
      <4>2. chunkRequest' => ChunkSize > Thresh
        BY <2>2, <4>1 DEF RequestsChunk
      <4>3. ChunkSize' >= ChunkSize /\ ChunkSize \in Int /\ ChunkSize' \in Int
        <5>1. ChunkSize' = offset' - chunkOffset' /\ ChunkSize = offset - chunkOffset
          BY DEF ChunkSize
        <5>2. chunkOffset' = chunkOffset
          BY <2>1
        <5>3. offset \in Int /\ offset' \in Int /\ chunkOffset \in Int /\ chunkOffset' \in Int
          BY <2>4, <5>2
        <5>4. \A a \in Int, b \in Int, c \in Int : a >= b => a - c >= b - c
          OBVIOUS
        <5>5. \A a \in Int, b \in Int : a - b \in Int
          OBVIOUS
        <5>6. QED
          BY <2>4, <5>1, <5>2, <5>3, <5>4, <5>5, Zenon
      <4>4. QED
        BY <4>2, <4>3
    <3>4. ~Enabling'
      BY <2>1, <2>3, <3>1 DEF Enabling
    <3>5. QED
      BY <2>1, <2>3, <3>1, <3>2, <3>3, <3>4 DEF ChunkInv
  <2>6. CASE dgram.tid = "enable"
    <3>1. chunkRequest' = chunkRequest
      BY <2>2, <2>6 DEF RequestsChunk, TypeInv
    <3>2. pc' = IF chunkRequest THEN "reopen" ELSE "idle"
      BY <1>1, <2>0, <2>6 DEF WriteDgram, NextPc
    <3>3. Enabling
      BY <2>1, <2>6 DEF Enabling
    <3>4. chunkRequest <=> chunkPending
      BY <2>0, <3>3 DEF ChunkInv
    <3>5. CASE ~chunkRequest
      <4>1. ~Enabling' /\ ~chunkPending' /\ ~chunkRequest' /\ op' # "enable" /\ pc' = "idle"
        BY <2>1, <2>3, <3>1, <3>2, <3>4, <3>5 DEF Enabling
      <4>2. QED
        BY <4>1 DEF ChunkInv
    <3>6. CASE chunkRequest
      <4>1. dgram.chunk = params[2]
        BY <2>0, <2>1, <2>6, <3>4, <3>6 DEF ChunkInv
      <4>2. PICK e \in Dgs : e = Buffered(dgram) /\ e.tid = "enable" /\ e.chunk = params[2]
        <5>1. dgram \in Dgs
          BY DEF TypeInv
        <5>2. QED
          BY <2>6, <4>1, <5>1, BufferedFacts
      <4>3. Held(fd)' = Held(fd) \o <<e>> /\ Held(fd) \in Seq(Dgs)
        <5>1. PICK f \in Files : f = fd
          BY <2>0
        <5>2. ToWrite(dgram) = <<e>>
          BY <2>6, <4>2, ToWriteType
        <5>3. Held(f)' = Held(f) \o <<e>>
          BY <1>1, <2>0, <2>6, <5>1, <5>2, WriteFacts
        <5>4. QED
          BY <2>0, <2>1, <5>1, <5>3, HeldType
      <4>4. Held(fd)' # << >> /\ Held(fd)'[Len(Held(fd)')] = e
        <5>1. PICK h \in Seq(Dgs) : h = Held(fd)
          BY <4>3
        <5>2. Len(h \o <<e>>) = Len(h) + 1 /\ (h \o <<e>>)[Len(h) + 1] = e /\ Len(h) \in Nat
          OBVIOUS
        <5>3. h \o <<e>> # << >>
          BY <5>2
        <5>4. QED
          BY <4>3, <5>1, <5>2, <5>3
      <4>5. Enabling' /\ chunkPending' /\ chunkRequest' /\ pc' = "reopen" /\ op' # "enable"
        BY <2>1, <2>3, <2>6, <3>1, <3>2, <3>4, <3>6 DEF Enabling
      <4>6. QED
        BY <2>1, <4>1, <4>2, <4>4, <4>5 DEF ChunkInv
    <3>7. QED
      BY <3>5, <3>6
  <2>7. QED
    BY <2>5, <2>6
<1>2. CASE ~WriteDgram
  <2>0. fd' = fd => \A f \in Files : Held(f)' = Held(f)
    BY <1>2, HeldKept
  <2>1. CASE Configure
    <3>1. MayBegin("configure") /\ writing' = writing
      BY <2>1 DEF Configure
    <3>2. QED
      BY <1>a, <3>1, BeginFacts, ArcFacts DEF Ops
  <2>2. CASE BeginRunOff
    <3>1. MayBegin("beginrun") /\ writing' = writing
      BY <2>2 DEF BeginRunOff
    <3>2. QED
      BY <1>a, <3>1, BeginFacts, ArcFacts DEF Ops
  <2>3. ASSUME NEW r \in Runs, BeginRun(r) PROVE ChunkInv'
    <3>1. writing' /\ op' = "beginrun" /\ ~chunkPending' /\ ~chunkRequest' /\ UNCHANGED pc
          /\ MayBegin("beginrun")
      BY <2>3, OrderlyFacts DEF BeginRun, OpenFiles, ChunkReset, Inserted
    <3>2. pc' = "idle"
      BY <3>1, BeginFacts DEF Ops
    <3>3. QED
      BY <3>1, <3>2 DEF ChunkInv, Enabling
  <2>4. ASSUME NEW r \in Runs, BeginRunFails(r) PROVE ChunkInv'
    <3>1. MayBegin("beginrun") /\ writing' = writing
      BY <2>4 DEF BeginRunFails, OpenFiles
    <3>2. QED
      BY <1>a, <3>1, BeginFacts, ArcFacts DEF Ops
  <2>5. CASE Enable
    <3>0. SUFFICES ASSUME writing, fd # BadFile PROVE ChunkInv'
      BY <1>a, <2>5 DEF Enable
    <3>1. /\ MayBegin("enable") /\ UNCHANGED <<fd, writing, offset, chunkOffset, pc>>
          /\ op' = "enable"
      BY <2>5, OrderlyFacts DEF Enable, Inserted
    <3>2. op = "none" /\ pc = "idle"
      BY <3>1, BeginFacts DEF Ops
    <3>3. ~chunkPending /\ ~Enabling
      BY <3>0, <3>2 DEF ChunkInv, Enabling
    <3>4. CASE LargeChunk
      <4>1. chunkPending' /\ chunkRequest' /\ params' = <<params[1], params[2] + 1>>
            /\ info' = params[2] + 1
        BY <2>5, <3>0, <3>3, <3>4 DEF Enable, AdvanceChunkId
      <4>2. info' = params'[2]
        BY <4>1
      <4>3. Enabling'
        BY <3>1 DEF Enabling
      <4>4. QED
        BY <3>1, <3>2, <4>1, <4>2, <4>3 DEF ChunkInv
    <3>5. CASE ~LargeChunk
      <4>1. UNCHANGED <<chunkPending, chunkRequest>> /\ ChunkSize' = ChunkSize
        BY <2>5, <3>1, <3>5 DEF Enable, ChunkSize
      <4>2. ChunkSize <= Thresh \div 2 /\ ChunkSize \in Int
        BY <3>5 DEF LargeChunk, ChunkSize, TypeInv
      <4>3. ~chunkRequest
        BY <3>0, <3>3, <4>2 DEF ChunkInv
      <4>4. QED
        BY <3>1, <3>2, <3>3, <4>1, <4>2, <4>3 DEF ChunkInv
    <3>6. QED
      BY <3>4, <3>5
  <2>6. ASSUME NEW t \in DOMAIN Arcs, Other(t) PROVE ChunkInv'
    <3>0. SUFFICES ASSUME writing, fd # BadFile PROVE ChunkInv'
      BY <1>a, <2>6 DEF Other
    <3>1. /\ MayBegin(t) /\ t \in Ops /\ op' = t /\ t # "enable"
          /\ UNCHANGED <<fd, writing, offset, chunkOffset, chunkRequest, chunkPending, params, pc>>
      BY <2>6, ArcFacts DEF Other, Inserted, chunk
    <3>2. op = "none" /\ pc = "idle"
      BY <3>1, BeginFacts
    <3>3. ~chunkPending
      BY <3>0, <3>2 DEF ChunkInv, Enabling
    <3>4. QED
      BY <3>0, <3>1, <3>2, <3>3 DEF ChunkInv, Enabling, ChunkSize
  <2>7. CASE Reset
    BY <1>a, <2>7, OrderlyFacts DEF Reset
  <2>8. ASSUME NEW t \in {"l1accept", "slowupdate"}, Trigger(t) PROVE ChunkInv'
    <3>1. UNCHANGED <<fd, writing, offset, chunkOffset, chunkRequest, chunkPending, params, info,
                      op, pc, dgram>>
      BY <2>8 DEF Trigger, chunk
    <3>2. QED
      BY <1>b, <2>0, <3>1
  <2>9. CASE Process
    <3>0. SUFFICES ASSUME writing, fd # BadFile PROVE ChunkInv'
      BY <1>a, <2>9 DEF Process
    <3>1. /\ pc = "idle" /\ pc' = "write"
          /\ UNCHANGED <<fd, writing, chunkOffset, chunkRequest, chunkPending, params, info>>
      BY <2>9 DEF Process
    <3>2. ChunkSize' = ChunkSize
      <4>1. stream \in Seq(Dgs) /\ Head(stream) = stream[1]
        BY <2>9 DEF TypeInv, Process
      <4>2. stream[1].tid = "beginrun" => op = "beginrun"
        BY <2>9, ProcessFacts DEF EventTids
      <4>3. op = "beginrun" => offset = 0
        BY <3>0 DEF FdInv, Fresh
      <4>4. offset' = offset
        BY <2>9, <4>1, <4>2, <4>3 DEF Process
      <4>5. QED
        BY <3>1, <4>4 DEF ChunkSize
    <3>3. CASE dgram'.tid \in EventTids /\ op' = op
      <4>1. op # "enable"
        BY <2>9, <3>3, EventBefore, ProcessFacts DEF Process
      <4>2. dgram'.tid # "enable"
        BY <3>3 DEF EventTids
      <4>3. ~Enabling /\ ~Enabling'
        BY <3>1, <3>3, <4>1, <4>2 DEF Enabling
      <4>4. QED
        BY <3>0, <3>1, <3>2, <3>3, <4>1, <4>2, <4>3 DEF ChunkInv
    <3>4. CASE dgram'.tid = op /\ op' = "none"
      <4>1. Enabling' <=> Enabling
        BY <3>1, <3>4 DEF Enabling
      <4>2. op = "enable" => dgram'.chunk = info
        BY <2>9, <3>4, ProcessFacts
      <4>3. QED
        BY <3>0, <3>1, <3>2, <3>4, <4>1, <4>2 DEF ChunkInv
    <3>5. QED
      BY <2>9, <3>3, <3>4, ProcessFacts
  <2>10. CASE Reopen
    <3>1. UNCHANGED op /\ pc = "reopen" /\ pc' = "idle"
      BY <2>10 DEF Reopen, control
    <3>2. op # "enable"
      BY <3>1 DEF ThreadInv
    <3>3. fd' = BadFile \/ (~chunkPending' /\ ~chunkRequest')
      BY <2>10 DEF Reopen
    <3>4. ~Enabling'
      BY <3>1, <3>2 DEF Enabling
    <3>5. QED
      BY <3>1, <3>2, <3>3, <3>4 DEF ChunkInv
  <2>11. CASE CloseFiles
    BY <1>a, <2>11 DEF CloseFiles
  <2>12. CASE Closed
    <3>1. writing' = writing /\ pc = "closing"
      BY <2>12 DEF Closed
    <3>2. QED
      BY <1>a, <3>1 DEF ThreadInv
  <2>13. CASE Drain
    <3>1. UNCHANGED <<fd, writing, offset, chunkOffset, chunkRequest, chunkPending, params, info,
                      op, pc, dgram>>
      BY <2>13 DEF Drain, chunk, control
    <3>2. QED
      BY <1>b, <2>0, <3>1
  <2>14. CASE JumpingIndex
    <3>1. UNCHANGED <<fd, writing, offset, chunkOffset, chunkRequest, chunkPending, params, info,
                      op, pc, dgram>>
      BY <2>14 DEF JumpingIndex, chunk, control
    <3>2. QED
      BY <1>b, <2>0, <3>1
  <2>15. CASE WriteFails
    <3>1. UNCHANGED <<fd, writing, offset, chunkOffset, chunkRequest, chunkPending, params, info,
                      op, pc, dgram>>
      BY <2>15 DEF WriteFails, chunk, control
    <3>2. QED
      BY <1>b, <2>0, <3>1
  <2>16. QED
    BY <1>2, <2>1, <2>2, <2>3, <2>4, <2>5, <2>6, <2>7, <2>8, <2>9, <2>10, <2>11, <2>12, <2>13,
       <2>14, <2>15 DEF Next
<1>3. QED
  BY <1>1, <1>2

-----------------------------------------------------------------------------
(***************************************************************************)
(* The contents of the files                                               *)
(***************************************************************************)

\* How a step changes the files, or which one is open.
LEMMA FileMoves ==
  ASSUME Orderly, TypeInv, ThreadInv, FdInv, Next
  PROVE  /\ lastRun' \in {lastRun, lastRun + 1}
         /\ fd' = fd \/ fd' \notin Files \/ fd' = <<lastRun + 1, 0>> \/ Reopen
         /\ \A f \in Files : f # fd => files'[f] = files[f]
<1>1. CASE WriteDgram
  BY <1>1 DEF WriteDgram, control
<1>2. CASE ~WriteDgram
  <2>1. lastRun' \in {lastRun, lastRun + 1}
    BY <1>2, FileStep
  <2>2. fd' = fd \/ fd' \notin Files \/ fd' = <<lastRun + 1, 0>> \/ Reopen
    BY <1>2, FileStep, FileFacts
  <2>3. files' = files \/ files' = Flushed
    BY <1>2, FileStep
  <2>4. \A f \in Files : f # fd => files'[f] = files[f]
    BY <2>3 DEF Flushed, TypeInv
  <2>5. QED
    BY <2>1, <2>2, <2>4
<1>3. QED
  BY <1>1, <1>2

\* A chunk that cannot be opened stays the next one.
LEMMA StuckStep ==
  ASSUME Orderly, TypeInv, ThreadInv, FdInv, ChunkInv, NewInv, Next, Stuck'
  PROVE  params' = params /\ (Stuck \/ (fd \in Files /\ Reopen))
<1>0. writing' /\ fd' = BadFile
  BY DEF Stuck
<1>a. ASSUME UNCHANGED <<fd, writing, params>> PROVE params' = params /\ Stuck
  BY <1>0, <1>a DEF Stuck
<1>1. CASE Configure \/ BeginRunOff
  BY <1>a, <1>1 DEF Configure, BeginRunOff, chunk
<1>2. ASSUME NEW r \in Runs, BeginRun(r) PROVE FALSE
  <2>1. fd' = <<r, 0>>
    BY <1>2 DEF BeginRun
  <2>2. QED
    BY <1>0, <2>1 DEF BadFile
<1>3. ASSUME NEW r \in Runs, BeginRunFails(r) PROVE FALSE
  <2>1. MayBegin("beginrun") /\ writing' = writing
    BY <1>3 DEF BeginRunFails, OpenFiles
  <2>2. QED
    BY <1>0, <2>1, BeginFacts, ArcFacts DEF Ops
<1>4. CASE Enable
  <2>1. UNCHANGED <<fd, writing>>
    BY <1>4 DEF Enable
  <2>2. Stuck /\ chunkPending
    BY <1>0, <2>1 DEF Stuck, FdInv
  <2>3. params' = params
    BY <1>4, <2>2 DEF Enable, AdvanceChunkId
  <2>4. QED
    BY <2>2, <2>3
<1>5. CASE \E t \in DOMAIN Arcs : Other(t)
  BY <1>a, <1>5 DEF Other, chunk
<1>6. CASE Reset \/ \E t \in {"l1accept", "slowupdate"} : Trigger(t)
  BY <1>a, <1>6 DEF Reset, Trigger, chunk
<1>7. CASE Process \/ WriteDgram
  BY <1>a, <1>7 DEF Process, WriteDgram
<1>8. CASE Reopen
  <2>1. params' = params
    BY <1>8 DEF Reopen
  <2>2. fd \in Files \/ Stuck
    BY <1>8, ReopenFacts
  <2>3. QED
    BY <1>8, <2>1, <2>2
<1>9. CASE CloseFiles \/ Closed
  BY <1>0, <1>9, FileFacts DEF CloseFiles, Closed
<1>10. CASE JumpingIndex \/ Drain \/ WriteFails
  BY <1>a, <1>10 DEF JumpingIndex, Drain, WriteFails, chunk
<1>11. QED
  BY <1>1, <1>2, <1>3, <1>4, <1>5, <1>6, <1>7, <1>8, <1>9, <1>10 DEF Next

LEMMA NewStep ==
  ASSUME Orderly, TypeInv, ThreadInv, FdInv, ChunkInv, NewInv, Next, TypeInv'
  PROVE  NewInv'
<1> USE FileFacts
<1>0. lastRun \in Nat /\ lastRun' \in Nat
  BY DEF TypeInv
<1>1. SUFFICES ASSUME NEW f \in Files,
                      \/ f[1] > lastRun'
                      \/ fd' \in Files /\ f[1] = fd'[1] /\ f[2] > fd'[2]
                      \/ Stuck' /\ f[1] = params'[1] /\ f[2] >= params'[2]
               PROVE  files'[f] = << >>
  BY DEF NewInv
<1>2. f[1] \in Nat /\ f[2] \in Nat
  OBVIOUS
<1>3. CASE f[1] > lastRun'
  <2>1. f[1] > lastRun
    BY <1>0, <1>2, <1>3, FileMoves
  <2>2. files[f] = << >>
    BY <2>1 DEF NewInv
  <2>3. f # fd
    BY <1>0, <2>1 DEF FdInv
  <2>4. QED
    BY <2>2, <2>3, FileMoves
<1>4. CASE fd' \in Files /\ f[1] = fd'[1] /\ f[2] > fd'[2]
  <2>1. CASE fd' = fd
    <3>1. files[f] = << >> /\ f # fd
      BY <1>4, <2>1 DEF NewInv
    <3>2. QED
      BY <3>1, FileMoves
  <2>2. CASE fd' = <<lastRun + 1, 0>>
    <3>1. f[1] > lastRun
      BY <1>0, <1>4, <2>2
    <3>2. files[f] = << >>
      BY <3>1 DEF NewInv
    <3>3. f # fd
      BY <1>0, <3>1 DEF FdInv
    <3>4. QED
      BY <3>2, <3>3, FileMoves
  <2>3. CASE Reopen
    <3>1. fd' = params
      BY <1>4, <2>3 DEF Reopen
    <3>2. CASE fd \in Files
      <4>1. params = <<fd[1], fd[2] + 1>>
        BY <2>3, <3>2, ReopenFacts
      <4>2. f[1] = fd[1] /\ f[2] > fd[2]
        BY <1>2, <1>4, <3>1, <3>2, <4>1
      <4>3. files[f] = << >> /\ f # fd
        BY <3>2, <4>2 DEF NewInv
      <4>4. QED
        BY <4>3, FileMoves
    <3>3. CASE Stuck
      <4>1. params \in Files
        BY <2>3, ReopenFacts
      <4>2. files[f] = << >>
        BY <1>2, <1>4, <3>1, <3>3, <4>1 DEF NewInv
      <4>3. f # fd
        BY <3>3 DEF Stuck
      <4>4. QED
        BY <4>2, <4>3, FileMoves
    <3>4. QED
      BY <2>3, <3>2, <3>3, ReopenFacts
  <2>4. QED
    BY <1>4, <2>1, <2>2, <2>3, FileMoves
<1>5. CASE Stuck' /\ f[1] = params'[1] /\ f[2] >= params'[2]
  <2>1. params' = params
    BY <1>5, StuckStep
  <2>2. CASE Stuck
    <3>1. files[f] = << >>
      BY <1>5, <2>1, <2>2 DEF NewInv
    <3>2. f # fd
      BY <2>2 DEF Stuck
    <3>3. QED
      BY <3>1, <3>2, FileMoves
  <2>3. CASE fd \in Files /\ Reopen
    <3>1. params = <<fd[1], fd[2] + 1>>
      BY <2>3, ReopenFacts
    <3>2. f[1] = fd[1] /\ f[2] > fd[2]
      BY <1>2, <1>5, <2>1, <2>3, <3>1
    <3>3. files[f] = << >> /\ f # fd
      BY <2>3, <3>2 DEF NewInv
    <3>4. QED
      BY <3>3, FileMoves
  <2>4. QED
    BY <1>5, <2>2, <2>3, StuckStep
<1>6. QED
  BY <1>1, <1>3, <1>4, <1>5

LEMMA ChainStep ==
  ASSUME Orderly, TypeInv, ThreadInv, FdInv, ChunkInv, NewInv, ChainInv, Next, TypeInv'
  PROVE  ChainInv'
<1> USE Constant
<1>0. SUFFICES ASSUME NEW r \in 1 .. MaxRun, NEW c \in 1 .. MaxSent,
                      \/ files'[<<r, c>>] # << >>
                      \/ fd' = <<r, c>>
                      \/ Stuck' /\ params' = <<r, c>>
               PROVE  Chained(r, c)'
  BY DEF ChainInv
<1> DEFINE f == <<r, c>>
           g == <<r, c - 1>>
<1>1. f \in Files /\ g \in Files /\ f # g /\ f[1] = r /\ f[2] = c /\ g[1] = r /\ g[2] = c - 1
  BY DEF Files
\* The chunk was linked to the one before it, which is closed.
<1>2. ASSUME files[f] # << >> \/ fd = f \/ (Stuck /\ params = f) PROVE Chained(r, c)'
  <2>1. Chained(r, c)
    BY <1>2 DEF ChainInv
  <2>2. fd # g
    <3>1. fd = g => files[f] = << >>
      <4>1. fd = g => fd \in Files /\ f[1] = fd[1] /\ f[2] > fd[2]
        BY <1>1
      <4>2. QED
        BY <1>1, <4>1 DEF NewInv
    <3>2. Stuck => fd # g
      BY <1>1, FileFacts DEF Stuck
    <3>3. QED
      BY <1>1, <1>2, <3>1, <3>2
  <2>3. files'[g] = files[g]
    BY <1>1, <2>2, FileMoves
  <2>4. QED
    BY <2>1, <2>3 DEF Chained
\* It is linked now: the Enable that names it is flushed.
<1>3. ASSUME fd \in Files, Reopen, params = f PROVE Chained(r, c)'
  <2>1. params = <<fd[1], fd[2] + 1>> /\ writing /\ chunkPending
    BY <1>3, ReopenFacts
  <2>2. fd = g
    BY <1>1, <1>3, <2>1, FileFacts, SMTT(30) DEF Files
  <2>3. pc = "reopen" /\ files' = Flushed /\ queued' = << >>
    BY <1>3 DEF Reopen
  <2>4. Held(fd) # << >> /\ Held(fd)[Len(Held(fd))].tid = "enable"
        /\ Held(fd)[Len(Held(fd))].chunk = params[2]
    BY <1>3, <2>1, <2>3, FileFacts DEF ChunkInv
  <2>5. files'[g] = Held(g)
    BY <1>1, <1>3, <2>3, HeldFlushed
  <2>6. params[2] = c
    BY <1>1, <1>3
  <2>7. QED
    BY <2>2, <2>4, <2>5, <2>6 DEF Chained
<1>4. CASE files'[f] # << >>
  BY <1>1, <1>2, <1>4, FileMoves
<1>5. CASE fd' = f
  <2>1. CASE fd' = fd
    BY <1>2, <1>5, <2>1
  <2>2. fd' # <<lastRun + 1, 0>>
    BY <1>1, <1>5
  <2>3. CASE Reopen
    <3>1. params = f
      BY <1>1, <1>5, <2>3, FileFacts DEF Reopen
    <3>2. QED
      BY <1>2, <1>3, <2>3, <3>1, ReopenFacts
  <2>4. QED
    BY <1>1, <1>5, <2>1, <2>2, <2>3, FileMoves
<1>6. CASE Stuck' /\ params' = f
  BY <1>2, <1>3, <1>6, StuckStep
<1>7. QED
  BY <1>0, <1>4, <1>5, <1>6

LEMMA ReportedStep ==
  ASSUME Next
  PROVE  reported \subseteq reported' /\ (~WriteDgram => smd' = smd \/ smd' = << >>)
<1>1. CASE Configure
  BY <1>1 DEF Configure, disk
<1>2. CASE BeginRunOff
  BY <1>2 DEF BeginRunOff, disk
<1>3. ASSUME NEW r \in Runs, BeginRun(r) PROVE reported \subseteq reported' /\ smd' = << >>
  BY <1>3 DEF BeginRun
<1>4. ASSUME NEW r \in Runs, BeginRunFails(r) PROVE reported \subseteq reported' /\ smd' = smd
  BY <1>4 DEF BeginRunFails
<1>5. CASE Enable
  BY <1>5 DEF Enable, disk
<1>6. ASSUME NEW t \in DOMAIN Arcs, Other(t) PROVE reported \subseteq reported' /\ smd' = smd
  BY <1>6 DEF Other, disk
<1>7. CASE Reset
  BY <1>7 DEF Reset, disk
<1>8. ASSUME NEW t \in {"l1accept", "slowupdate"}, Trigger(t)
      PROVE  reported \subseteq reported' /\ smd' = smd
  BY <1>8 DEF Trigger, disk
<1>9. CASE Process
  BY <1>9 DEF Process, disk
<1>10. CASE WriteDgram
  BY <1>10 DEF WriteDgram
<1>11. CASE Reopen
  BY <1>11 DEF Reopen
<1>12. CASE CloseFiles
  BY <1>12 DEF CloseFiles, disk
<1>13. CASE Closed
  BY <1>13 DEF Closed, disk
<1>14. CASE Drain
  BY <1>14 DEF Drain
<1>15. CASE JumpingIndex
  BY <1>15 DEF JumpingIndex, disk
<1>16. CASE WriteFails
  BY <1>16 DEF WriteFails, disk
<1>17. QED
  BY <1>1, <1>2, <1>3, <1>4, <1>5, <1>6, <1>7, <1>8, <1>9, <1>10, <1>11, <1>12, <1>13, <1>14,
     <1>15, <1>16 DEF Next

LEMMA BelongsFirst ==
  ASSUME NEW f \in Files, NEW a \in Dgs, NEW b \in Dgs, a.tid = "configure", b.tid = "beginrun",
         b.run = f[1], f[2] = 0
  PROVE  Belongs(f, <<a, b>>)
<1>1. DOMAIN <<a, b>> = {1, 2} /\ <<a, b>>[1] = a /\ <<a, b>>[2] = b
  OBVIOUS
<1>2. QED
  BY <1>1 DEF Belongs

LEMMA BelongsNext ==
  ASSUME NEW f \in Files, NEW h \in Seq(Dgs), NEW d \in Dgs, d.run = f[1],
         h # << >> => Belongs(f, h), f[2] = 0 => Len(h) >= 2
  PROVE  Belongs(f, h \o <<d>>)
<1> DEFINE k == h \o <<d>>
<1>1. /\ Len(h) \in Nat /\ DOMAIN h = 1 .. Len(h) /\ DOMAIN k = 1 .. Len(h) + 1
      /\ Len(k) = Len(h) + 1 /\ k[Len(h) + 1] = d
      /\ \A i \in 1 .. Len(h) : k[i] = h[i]
  OBVIOUS
<1> HIDE DEF k
<1>2. Len(h) > 0 => Belongs(f, h)
  OBVIOUS
<1>3. ASSUME NEW i \in DOMAIN k
      PROVE  IF f[2] = 0 /\ i = 1 THEN k[i].tid = "configure" ELSE k[i].run = f[1]
  <2>1. CASE i = Len(h) + 1
    BY <1>1, <2>1
  <2>2. CASE i \in 1 .. Len(h)
    <3>1. Belongs(f, h)
      BY <1>1, <1>2, <2>2
    <3>2. k[i] = h[i] /\ i \in DOMAIN h
      BY <1>1, <2>2
    <3>3. QED
      BY <3>1, <3>2 DEF Belongs
  <2>3. QED
    BY <1>1, <1>3, <2>1, <2>2
<1>4. f[2] = 0 => k[2].tid = "beginrun"
  <2>1. f[2] = 0 => k[2] = h[2] /\ Len(h) > 1 /\ Belongs(f, h)
    BY <1>1, <1>2
  <2>2. QED
    BY <2>1 DEF Belongs
<1>5. Belongs(f, k)
  BY <1>3, <1>4 DEF Belongs
<1>6. QED
  BY <1>5 DEF k

\* What was written to a file stays behind the strays in it.
LEMMA StraysAppend ==
  ASSUME NEW f \in Files, NEW h \in Seq(Dgs), NEW ds \in Seq(Dgs), StraysFirst(f, h),
         \A i \in DOMAIN ds : Own(f, ds[i])
  PROVE  StraysFirst(f, h \o ds)
<1> DEFINE k == h \o ds
<1>1. /\ DOMAIN h = 1 .. Len(h) /\ DOMAIN ds = 1 .. Len(ds) /\ DOMAIN k = 1 .. Len(h) + Len(ds)
      /\ Len(h) \in Nat /\ Len(ds) \in Nat
      /\ \A i \in 1 .. Len(h) : k[i] = h[i]
  OBVIOUS
<1>2. \A i \in Len(h) + 1 .. Len(h) + Len(ds) : k[i] = ds[i - Len(h)]
  OBVIOUS
<1> HIDE DEF k
<1>3. ASSUME NEW i \in DOMAIN k
      PROVE  Own(f, k[i]) \/ \A j \in 1 .. i : k[j].file = BadFile
  <2>1. CASE i \in 1 .. Len(h)
    <3>1. Own(f, h[i]) \/ \A j \in 1 .. i : h[j].file = BadFile
      BY <1>1, <2>1 DEF StraysFirst
    <3>2. \A j \in 1 .. i : k[j] = h[j]
      BY <1>1, <2>1
    <3>3. QED
      BY <1>1, <2>1, <3>1, <3>2
  <2>2. CASE i \in Len(h) + 1 .. Len(h) + Len(ds)
    <3>1. i - Len(h) \in DOMAIN ds
      BY <1>1, <2>2
    <3>2. QED
      BY <1>2, <2>2, <3>1
  <2>3. QED
    BY <1>1, <1>3, <2>1, <2>2
<1>4. StraysFirst(f, k)
  BY <1>3 DEF StraysFirst
<1>5. QED
  BY <1>4 DEF k

\* A file that will hold what it should does so before the buffers are written.
LEMMA ProperPrefix ==
  ASSUME NEW f \in Files, NEW h \in Seq(Dgs), NEW q \in Seq(Dgs), h # << >>, Proper(f, h \o q)
  PROVE  Proper(f, h)
<1> DEFINE k == h \o q
<1>1. /\ DOMAIN h = 1 .. Len(h) /\ DOMAIN k = 1 .. Len(h) + Len(q)
      /\ Len(k) = Len(h) + Len(q) /\ Len(h) \in Nat /\ Len(q) \in Nat
      /\ \A i \in 1 .. Len(h) : k[i] = h[i]
  OBVIOUS
<1>2. Len(h) > 0
  OBVIOUS
<1>3. Proper(f, k)
  OBVIOUS
<1> HIDE DEF k
<1>4. StraysFirst(f, h)
  <2>1. SUFFICES ASSUME NEW i \in DOMAIN h
                 PROVE  Own(f, h[i]) \/ \A j \in 1 .. i : h[j].file = BadFile
    BY DEF StraysFirst
  <2>2. i \in DOMAIN k /\ \A j \in 1 .. i : k[j] = h[j]
    BY <1>1, <2>1
  <2>3. Own(f, k[i]) \/ \A j \in 1 .. i : k[j].file = BadFile
    BY <1>3, <2>2 DEF Proper, StraysFirst
  <2>4. k[i] = h[i]
    BY <1>1, <2>1
  <2>5. QED
    BY <2>2, <2>3, <2>4
<1>5. ASSUME ~Spoilt(h) PROVE Belongs(f, h)
  <2>1. k[1] = h[1]
    BY <1>1, <1>2
  <2>2. ~Spoilt(k)
    BY <1>5, <2>1 DEF Spoilt
  <2>3. Belongs(f, k)
    BY <1>3, <2>2 DEF Proper
  <2>4. \A i \in DOMAIN h : i \in DOMAIN k /\ k[i] = h[i]
    BY <1>1
  <2>5. Len(h) > 1 => Len(k) > 1 /\ k[2] = h[2]
    BY <1>1
  <2>6. QED
    BY <2>3, <2>4, <2>5 DEF Belongs
<1>6. QED
  BY <1>4, <1>5 DEF Proper

\* A file that begins with what was left in the buffers holds nothing else yet.
LEMMA HeldNew ==
  ASSUME TypeInv, ThreadInv, FdInv, ChunkInv, NewInv, NEW f \in Files, f = fd',
         Held(f)' = files[f] \o queued, Stray(queued), queued # << >>,
         f = <<lastRun + 1, 0>> \/ Reopen
  PROVE  Proper(f, Held(f)') /\ Spoilt(Held(f)')
<1>1. files[f] = << >>
  <2>1. CASE f = <<lastRun + 1, 0>>
    <3>1. lastRun \in Nat
      BY DEF TypeInv
    <3>2. f[1] > lastRun
      BY <2>1, <3>1
    <3>3. QED
      BY <3>2 DEF NewInv
  <2>2. CASE Reopen
    <3>1. f = params
      BY <2>2, FileFacts DEF Reopen
    <3>2. QED
      BY <2>2, <3>1, ReopenFacts
  <2>3. QED
    BY <2>1, <2>2
<1>2. PICK q \in Seq(Dgs) : q = queued
  BY DEF TypeInv
<1>3. Held(f)' = q /\ Spoilt(q)
  BY <1>1, <1>2, StrayFacts
<1>4. Proper(f, q)
  <2>1. DOMAIN q = 1 .. Len(q) /\ Len(q) \in Nat
    OBVIOUS
  <2>2. \A i \in DOMAIN q : q[i].file = BadFile
    BY <1>2 DEF Stray
  <2>3. StraysFirst(f, q)
    BY <2>1, <2>2 DEF StraysFirst
  <2>4. QED
    BY <1>3, <2>3 DEF Proper
<1>5. QED
  BY <1>3, <1>4

LEMMA ContentStep ==
  ASSUME Orderly, TypeInv, ThreadInv, FdInv, ChunkInv, OffsetInv, NewInv, ContentInv, Next,
         TypeInv'
  PROVE  ContentInv'
<1>0. SUFFICES ASSUME NEW f \in Files, Held(f)' # << >>
               PROVE  f \in reported' /\ Proper(f, Held(f)')
  BY DEF ContentInv, Proper, StraysFirst, Own, Belongs, Spoilt
<1>1. ASSUME Held(f)' = Held(f) PROVE f \in reported' /\ Proper(f, Held(f)')
  <2>1. f \in reported /\ Proper(f, Held(f))
    BY <1>0, <1>1 DEF ContentInv
  <2>2. QED
    BY <1>1, <2>1, ReportedStep
<1>2. CASE ~WriteDgram
  <2>1. CASE /\ f # fd /\ f = fd' /\ Held(f)' = files[f] \o queued
             /\ Stray(queued) /\ queued # << >> /\ f \in reported'
             /\ f = <<lastRun + 1, 0>> \/ Reopen
    <3>1. Proper(f, Held(f)')
      BY <2>1, HeldNew
    <3>2. QED
      BY <2>1, <3>1
  <2>2. CASE f = fd /\ Held(f)' = files[f]
    <3>1. PICK h \in Seq(Dgs) : h = files[f]
      BY HeldType
    <3>2. PICK q \in Seq(Dgs) : q = queued
      BY DEF TypeInv
    <3>3. Held(f) = h \o q /\ h # << >>
      BY <1>0, <2>2, <3>1, <3>2 DEF Held
    <3>4. h \o q # << >>
      <4>1. Len(h \o q) = Len(h) + Len(q) /\ Len(h) \in Nat /\ Len(q) \in Nat
        OBVIOUS
      <4>2. Len(h) > 0
        BY <3>3
      <4>3. QED
        BY <4>1, <4>2
    <3>5. f \in reported /\ Proper(f, h \o q)
      BY <3>3, <3>4 DEF ContentInv
    <3>6. Proper(f, h)
      BY <3>3, <3>5, ProperPrefix
    <3>7. QED
      BY <2>2, <3>1, <3>5, <3>6, ReportedStep
  <2>3. QED
    BY <1>1, <1>2, <2>1, <2>2, HeldOpened
<1>3. CASE WriteDgram
  <2>1. CASE /\ writing /\ f = fd
             /\ Held(f)' = Held(f) \o ToWrite(dgram)
    <3>1. fd # BadFile /\ pc = "write"
      BY <1>3, <2>1, FileFacts, WriteFacts
    <3>2. f \in reported /\ f[1] = run /\ dgram.run = run
      BY <2>1, <3>1 DEF FdInv, ThreadInv
    <3>3. f \in reported'
      BY <3>2, ReportedStep
    <3>4. PICK h \in Seq(Dgs) : h = Held(f)
      BY HeldType
    <3>5. PICK ds \in Seq(Dgs) : ds = ToWrite(dgram)
      BY ToWriteType
    <3>6. h # << >> => Proper(f, h)
      BY <3>4 DEF ContentInv
    <3>7. dgram \in Dgs /\ cached \in Dgs
      BY DEF TypeInv
    <3>8. PICK d \in Dgs : d = Buffered(dgram) /\ d.tid = dgram.tid /\ d.run = f[1] /\ d.file = f
      BY <2>1, <3>2, <3>7, BufferedFacts
    <3>9. PICK c \in Dgs : c = Buffered(cached) /\ c.tid = cached.tid /\ c.file = f
      BY <2>1, <3>7, BufferedFacts
    <3>10. dgram.tid = "beginrun" => c.tid = "configure"
      BY <3>1, <3>9 DEF ThreadInv
    <3>11. ds = IF dgram.tid = "beginrun" THEN <<c, d>> ELSE <<d>>
      BY <3>5, <3>8, <3>9, ToWriteType
    <3>12. StraysFirst(f, h \o ds)
      <4>1. StraysFirst(f, h)
        <5>1. h = << >> => DOMAIN h = {}
          OBVIOUS
        <5>2. QED
          BY <3>6, <5>1 DEF Proper, StraysFirst
      <4>2. \A i \in DOMAIN ds : Own(f, ds[i])
        <5>1. Own(f, d) /\ (dgram.tid = "beginrun" => Own(f, c))
          BY <3>8, <3>9, <3>10 DEF Own
        <5>2. /\ DOMAIN <<c, d>> = {1, 2} /\ <<c, d>>[1] = c /\ <<c, d>>[2] = d
              /\ DOMAIN <<d>> = {1} /\ <<d>>[1] = d
          OBVIOUS
        <5>3. QED
          BY <3>11, <5>1, <5>2
      <4>3. QED
        BY <4>1, <4>2, StraysAppend
    <3>13. ASSUME ~Spoilt(h \o ds) PROVE Belongs(f, h \o ds)
      <4>1. ~Spoilt(h)
        BY <3>13, SpoiltAppend
      <4>2. CASE dgram.tid = "beginrun"
        <5>1. h = << >> /\ f = <<run, 0>>
          BY <2>1, <3>1, <3>4, <4>1, <4>2 DEF FdInv, Fresh
        <5>2. f[2] = 0
          BY <5>1
        <5>3. << >> \o ds = ds
          OBVIOUS
        <5>4. Belongs(f, <<c, d>>)
          BY <3>8, <3>10, <4>2, <5>2, BelongsFirst
        <5>5. QED
          BY <3>11, <4>2, <5>1, <5>3, <5>4
      <4>3. CASE dgram.tid # "beginrun"
        <5>1. ~Fresh
          BY <3>1, <4>3 DEF Fresh, ThreadInv
        <5>2. f[2] = 0 => Len(h) >= 2
          BY <2>1, <3>1, <3>4, <4>1, <5>1 DEF OffsetInv
        <5>3. h # << >> => Belongs(f, h)
          BY <3>6, <4>1 DEF Proper
        <5>4. Belongs(f, h \o <<d>>)
          BY <3>8, <5>2, <5>3, BelongsNext
        <5>5. QED
          BY <3>11, <4>3, <5>4
      <4>4. QED
        BY <4>2, <4>3
    <3>14. Proper(f, h \o ds)
      BY <3>12, <3>13 DEF Proper
    <3>15. QED
      BY <2>1, <3>3, <3>4, <3>5, <3>14
  <2>2. QED
    BY <1>1, <1>3, <2>1, WriteFacts
<1>4. QED
  BY <1>2, <1>3

LEMMA PointsOn ==
  ASSUME NEW h \in Seq(Dgs), NEW ds \in Seq(Dgs), NEW e \in Entries, Points(e, h)
  PROVE  Points(e, h \o ds)
<1>1. /\ DOMAIN h = 1 .. Len(h) /\ DOMAIN (h \o ds) = 1 .. Len(h) + Len(ds)
      /\ Len(h) \in Nat /\ Len(ds) \in Nat
      /\ \A i \in 1 .. Len(h) : (h \o ds)[i] = h[i]
  OBVIOUS
<1>2. QED
  BY <1>1 DEF Points

LEMMA PointsNew ==
  ASSUME NEW h \in Seq(Dgs), NEW ds \in Seq(Dgs), NEW j \in DOMAIN ds, NEW e,
         e.at = Len(h) + j - 1, e.dg = ds[j]
  PROVE  Points(e, h \o ds)
<1>1. /\ DOMAIN ds = 1 .. Len(ds) /\ DOMAIN (h \o ds) = 1 .. Len(h) + Len(ds)
      /\ Len(h) \in Nat /\ Len(ds) \in Nat
  OBVIOUS
<1>2. (h \o ds)[Len(h) + j] = ds[j]
  OBVIOUS
<1>3. e.at + 1 = Len(h) + j
  BY <1>1
<1>4. QED
  BY <1>1, <1>2, <1>3 DEF Points

\* Between runs a file is open because it was left open, or was opened in vain.
LEMMA OpenIdle ==
  ASSUME Orderly, TypeInv, ThreadInv, FdInv, Next, fd' \in Files, ~writing', pc' # "closing"
  PROVE  (fd' = fd /\ ~writing /\ pc # "closing") \/ fd' = <<lastRun + 1, 0>>
<1>1. CASE Configure \/ BeginRunOff
  BY <1>1 DEF Configure, BeginRunOff
<1>2. ASSUME NEW r \in Runs, BeginRun(r) PROVE FALSE
  BY <1>2 DEF BeginRun
<1>3. ASSUME NEW r \in Runs, BeginRunFails(r) PROVE fd' = <<lastRun + 1, 0>>
  BY <1>3, FileFacts DEF BeginRunFails, OpenFiles
<1>4. CASE Enable
  BY <1>4 DEF Enable
<1>5. CASE \E t \in DOMAIN Arcs : Other(t)
  BY <1>5 DEF Other
<1>6. CASE Reset \/ \E t \in {"l1accept", "slowupdate"} : Trigger(t)
  BY <1>6 DEF Reset, Trigger
<1>7. CASE Process \/ WriteDgram
  BY <1>7 DEF Process, WriteDgram
<1>8. CASE Reopen
  BY <1>8 DEF Reopen, ThreadInv
<1>9. CASE CloseFiles \/ Closed
  BY <1>9, FileFacts DEF CloseFiles, Closed
<1>10. CASE JumpingIndex \/ Drain \/ WriteFails
  BY <1>10 DEF JumpingIndex, Drain, WriteFails
<1>11. QED
  BY <1>1, <1>2, <1>3, <1>4, <1>5, <1>6, <1>7, <1>8, <1>9, <1>10 DEF Next

\* The small data do not name a file of a run to come.
LEMMA NotYetNamed ==
  ASSUME TypeInv, FdInv, NewInv, SmdInv, NEW f \in Files, f = <<lastRun + 1, 0>>
  PROVE  \A i \in DOMAIN smd : smd[i].dg.file # f
<1>1. lastRun \in Nat /\ f[1] > lastRun
  BY DEF TypeInv
<1>2. files[f] = << >> /\ f # fd
  BY <1>1 DEF NewInv, FdInv
<1>3. Held(f) = << >>
  BY <1>2, HeldClosed
<1>4. ~Spoilt(Held(f)) /\ DOMAIN << >> = {}
  BY <1>3 DEF Spoilt
<1>5. \A i \in DOMAIN smd : ~Points(smd[i], Held(f))
  BY <1>3, <1>4 DEF Points
<1>6. QED
  BY <1>4, <1>5 DEF SmdInv

LEMMA SmdStep ==
  ASSUME Orderly, TypeInv, ThreadInv, FdInv, ChunkInv, OffsetInv, NewInv, SmdInv, Next, TypeInv'
  PROVE  SmdInv'
<1>0. \A i \in DOMAIN smd : \A f \in Files :
        smd[i].dg.file = f /\ ~Spoilt(Held(f)) => Points(smd[i], Held(f))
  BY DEF SmdInv
<1>1. SUFFICES /\ \A i \in DOMAIN smd' : \A f \in Files :
                    smd'[i].dg.file = f /\ ~Spoilt(Held(f)') => Points(smd'[i], Held(f)')
               /\ fd' \in Files /\ ~writing' /\ pc' # "closing" =>
                    \A i \in DOMAIN smd' : smd'[i].dg.file # fd'
  BY DEF SmdInv, Points, Spoilt
<1>2. ASSUME ~WriteDgram, NEW f \in Files, NEW i \in DOMAIN smd', smd'[i].dg.file = f,
             ~Spoilt(Held(f)')
      PROVE  Points(smd'[i], Held(f)')
  <2>1. smd' = smd
    <3>1. DOMAIN << >> = {}
      OBVIOUS
    <3>2. QED
      BY <1>2, <3>1, ReportedStep
  <2>2. CASE Held(f)' = Held(f)
    BY <1>0, <1>2, <2>1, <2>2
  <2>3. CASE /\ f = fd' /\ Held(f)' = files[f] \o queued
             /\ Stray(queued) /\ queued # << >>
             /\ f = <<lastRun + 1, 0>> \/ Reopen
    <3>1. Spoilt(Held(f)')
      BY <2>3, HeldNew
    <3>2. QED
      BY <1>2, <3>1
  <2>4. CASE f = fd /\ ~writing /\ pc = "idle"
    BY <1>2, <2>1, <2>4 DEF SmdInv
  <2>5. QED
    BY <1>2, <2>2, <2>3, <2>4, HeldOpened
<1>3. ASSUME fd' \in Files, ~writing', pc' # "closing", NEW i \in DOMAIN smd'
      PROVE  smd'[i].dg.file # fd'
  <2>1. smd' = smd
    <3>1. CASE WriteDgram
      BY <1>3, <3>1, WriteFacts
    <3>2. CASE ~WriteDgram
      <4>1. DOMAIN << >> = {}
        OBVIOUS
      <4>2. QED
        BY <1>3, <3>2, <4>1, ReportedStep
    <3>3. QED
      BY <3>1, <3>2
  <2>2. CASE fd' = fd /\ ~writing /\ pc # "closing"
    BY <1>3, <2>1, <2>2 DEF SmdInv
  <2>3. CASE fd' = <<lastRun + 1, 0>>
    BY <1>3, <2>1, <2>3, NotYetNamed
  <2>4. QED
    BY <1>3, <2>2, <2>3, OpenIdle
<1>4. ASSUME WriteDgram, NEW f \in Files, NEW i \in DOMAIN smd', smd'[i].dg.file = f,
             ~Spoilt(Held(f)')
      PROVE  Points(smd'[i], Held(f)')
  <2> DEFINE ds == ToWrite(dgram)
             o == IF dgram.tid = "beginrun" THEN 0 ELSE offset
             new == [j \in DOMAIN ds |->
                      [at |-> o + j - 1 - chunkOffset, dg |-> ds[j]]]
  <2>1. CASE UNCHANGED smd /\ \A h \in Files : Held(h)' = Held(h)
    BY <1>0, <1>4, <2>1
  <2>2. CASE /\ writing /\ Write(ds, o)
             /\ \A h \in Files : Held(h)' = IF h = fd THEN Held(h) \o ds ELSE Held(h)
    <3>1. smd \in Seq(Entries) /\ ds \in Seq(Dgs) /\ o \in Nat /\ chunkOffset \in Nat
      BY ToWriteType DEF TypeInv
    <3>2. smd' = smd \o new
      BY <2>2 DEF Write
    <3>3. DOMAIN ds = 1 .. Len(ds) /\ Len(ds) \in Nat /\ \A j \in DOMAIN ds : ds[j] \in Dgs
      BY <3>1
    <3>4. new \in Seq(Entries) /\ Len(new) = Len(ds)
      <4>1. \A j \in DOMAIN ds : [at |-> o + j - 1 - chunkOffset, dg |-> ds[j]] \in Entries
        BY <3>1, <3>3 DEF Entries
      <4>2. QED
        BY <3>3, <4>1
    <3>5. \A j \in DOMAIN ds : new[j].dg = ds[j] /\ new[j].at = o + j - 1 - chunkOffset
      OBVIOUS
    <3>6. \A j \in DOMAIN ds : ds[j].file = fd
      BY ToWriteType
    <3> HIDE DEF new, ds, o
    <3>7. \/ i \in DOMAIN smd /\ smd'[i] = smd[i]
          \/ \E j \in DOMAIN ds : smd'[i] = new[j]
      <4>1. /\ DOMAIN smd' = 1 .. Len(smd) + Len(new) /\ DOMAIN smd = 1 .. Len(smd)
            /\ Len(smd) \in Nat
            /\ \A k \in 1 .. Len(smd) : smd'[k] = smd[k]
            /\ \A k \in Len(smd) + 1 .. Len(smd) + Len(new) : smd'[k] = new[k - Len(smd)]
        <5>1. PICK a \in Seq(Entries), b \in Seq(Entries) : a = smd /\ b = new
          BY <3>1, <3>4
        <5>2. /\ DOMAIN (a \o b) = 1 .. Len(a) + Len(b) /\ DOMAIN a = 1 .. Len(a) /\ Len(a) \in Nat
              /\ \A k \in 1 .. Len(a) : (a \o b)[k] = a[k]
          OBVIOUS
        <5>3. \A k \in Len(a) + 1 .. Len(a) + Len(b) : (a \o b)[k] = b[k - Len(a)]
          OBVIOUS
        <5>4. QED
          BY <3>2, <5>1, <5>2, <5>3
      <4>2. \A k \in Len(smd) + 1 .. Len(smd) + Len(new) : k - Len(smd) \in DOMAIN ds
        BY <3>3, <3>4, <4>1
      <4>3. i \in 1 .. Len(smd) \/ i \in Len(smd) + 1 .. Len(smd) + Len(new)
        BY <1>4, <3>3, <3>4, <4>1
      <4>4. QED
        BY <4>1, <4>2, <4>3, Zenon
    <3>8. Held(f) \in Seq(Dgs)
      BY HeldType
    <3>9. ~Spoilt(Held(f))
      BY <1>4, <2>2, <3>1, <3>8, SpoiltAppend
    <3>10. CASE i \in DOMAIN smd /\ smd'[i] = smd[i]
      <4>1. Points(smd[i], Held(f)) /\ smd[i] \in Entries
        BY <1>0, <1>4, <3>1, <3>9, <3>10
      <4>2. Points(smd[i], Held(f) \o ds)
        BY <3>1, <3>8, <4>1, PointsOn
      <4>3. QED
        BY <2>2, <3>10, <4>1, <4>2
    <3>11. ASSUME NEW j \in DOMAIN ds, smd'[i] = new[j] PROVE Points(smd'[i], Held(f)')
      <4>1. f = fd /\ fd # BadFile
        BY <1>4, <3>5, <3>6, <3>11, FileFacts
      <4>2. o = offset
        <5>1. dgram.tid = "beginrun" => offset = 0
          BY <1>4, <2>2, WriteFacts DEF FdInv, Fresh
        <5>2. QED
          BY <5>1 DEF o
      <4>3. Len(Held(f)) = offset - chunkOffset
        BY <2>2, <3>9, <4>1 DEF OffsetInv, ChunkSize
      <4>4. new[j].at = Len(Held(f)) + j - 1
        BY <3>1, <3>3, <3>5, <4>2, <4>3
      <4>5. Points(new[j], Held(f) \o ds)
        BY <3>1, <3>5, <3>8, <4>4, PointsNew
      <4>6. Held(f)' = Held(f) \o ds
        BY <2>2, <4>1
      <4>7. QED
        BY <3>11, <4>5, <4>6
    <3>12. QED
      BY <3>7, <3>10, <3>11
  <2>3. QED
    BY <1>4, <2>1, <2>2, WriteFacts
<1>5. QED
  BY <1>1, <1>2, <1>3, <1>4

-----------------------------------------------------------------------------
(***************************************************************************)
(* The theorems                                                            *)
(***************************************************************************)

LEMMA InitInv == Init => IInv
<1> SUFFICES ASSUME Init PROVE IInv
  OBVIOUS
<1> USE Constant, FileFacts
<1>1. TypeInv
  <2>1. NoDgram \in Dgs
    BY DgramType DEF NoDgram
  <2>2. << >> \in Seq(Dgs) /\ << >> \in Seq(Entries)
    OBVIOUS
  <2>3. files \in [Files -> Seq(Dgs)]
    BY <2>2 DEF Init
  <2>4. QED
    BY <2>1, <2>2, <2>3 DEF Init, TypeInv, States
<1>2. StreamInv
  BY DEF Init, StreamInv, StreamOrder
<1>3. ThreadInv
  BY DEF Init, ThreadInv
<1>4. \A f \in Files : Held(f) = << >>
  <2>1. << >> \o << >> = << >>
    OBVIOUS
  <2>2. QED
    BY <2>1 DEF Init, Held
<1>5. FdInv
  <2>1. params[2] = 0
    BY DEF Init
  <2>2. Stray(queued)
    BY DEF Init, Stray
  <2>3. QED
    BY <2>1, <2>2 DEF Init, FdInv, Fresh, Stuck
<1>6. ChunkInv /\ OffsetInv
  BY DEF Init, ChunkInv, OffsetInv
<1>7. NewInv
  BY DEF Init, NewInv, Stuck
<1>8. ContentInv
  BY <1>4 DEF ContentInv
<1>9. ChainInv
  <2>1. ASSUME NEW r \in 1 .. MaxRun, NEW c \in 1 .. MaxSent
        PROVE  files[<<r, c>>] = << >> /\ fd # <<r, c>> /\ ~Stuck
    <3>1. <<r, c>> \in Files
      BY DEF Files
    <3>2. QED
      BY <3>1 DEF Init, Stuck
  <2>2. QED
    BY <2>1 DEF ChainInv
<1>10. SmdInv
  BY DEF Init, SmdInv
<1>11. QED
  BY <1>1, <1>2, <1>3, <1>5, <1>6, <1>7, <1>8, <1>9, <1>10 DEF IInv

LEMMA StutterInv ==
  ASSUME IInv, UNCHANGED vars
  PROVE  IInv'
<1>1. UNCHANGED <<state, op, run, lastRun, sent, counter, stream, lastIndex, writing, offset,
                  chunkOffset, chunkRequest, chunkPending, params, info, cached, pc, dgram, fd,
                  queued, files, smd, reported>>
  BY DEF vars, control, chunk, disk
<1>2. TypeInv'
  BY <1>1 DEF IInv, TypeInv
<1>3. StreamInv' /\ ThreadInv'
  BY <1>1 DEF IInv, StreamInv, StreamOrder, ThreadInv
<1>4. FdInv' /\ OffsetInv'
  BY <1>1 DEF IInv, FdInv, OffsetInv, ChunkSize, Fresh, Held, Stuck, Stray, Spoilt
<1>5. ChunkInv'
  BY <1>1 DEF IInv, ChunkInv, ChunkSize, Enabling, Held
<1>6. NewInv' /\ ContentInv'
  BY <1>1 DEF IInv, NewInv, ContentInv, Held, Stuck, Proper, StraysFirst, Own, Belongs,
                  Spoilt
<1>7. ChainInv' /\ SmdInv'
  BY <1>1 DEF IInv, ChainInv, Chained, SmdInv, Held, Stuck, Spoilt, Points
<1>8. QED
  BY <1>2, <1>3, <1>4, <1>5, <1>6, <1>7 DEF IInv

LEMMA NextInv ==
  ASSUME Orderly, IInv, Next
  PROVE  IInv'
<1>0. /\ TypeInv /\ StreamInv /\ ThreadInv /\ FdInv /\ ChunkInv /\ OffsetInv
      /\ NewInv /\ ContentInv /\ ChainInv /\ SmdInv
  BY DEF IInv
<1>1. TypeInv' /\ StreamInv' /\ ThreadInv'
  BY <1>0, TypeStep, StreamStep, ThreadStep
<1>2. FdInv'
  BY <1>0, FdStep
<1>3. ChunkInv' /\ OffsetInv'
  BY <1>0, <1>1, <1>2, ChunkStep, OffsetStep
<1>4. NewInv' /\ ChainInv'
  BY <1>0, <1>1, NewStep, ChainStep
<1>5. ContentInv' /\ SmdInv'
  BY <1>0, <1>1, ContentStep, SmdStep
<1>6. QED
  BY <1>1, <1>2, <1>3, <1>4, <1>5 DEF IInv

LEMMA Invariance == Orderly => (Spec => []IInv)
<1> SUFFICES ASSUME Orderly PROVE Spec => []IInv
  OBVIOUS
<1>1. IInv /\ [Next]_vars => IInv'
  BY NextInv, StutterInv
<1>2. QED
  BY InitInv, <1>1, PTL DEF Spec

\* Whatever the writer thread still had in its buffers when EbReceiver opened,
\* changed or closed a file went into the file it was buffered for, of which
\* control has been told; the files of a run hold its Configure, its BeginRun and
\* then datagrams of that run only.  What was buffered after reopenFiles() had
\* failed is the one exception: close() leaves it in the buffers, and the next
\* file that is opened may begin with it.
THEOREM RunsKeptApart == Orderly => (Spec => []FilesHoldTheirRun)
<1> SUFFICES ASSUME Orderly PROVE Spec => []FilesHoldTheirRun
  OBVIOUS
<1>1. TypeInv /\ ContentInv => FilesHoldTheirRun
  <2>1. SUFFICES ASSUME TypeInv, ContentInv, NEW f \in Files, files[f] # << >>
                 PROVE  f \in reported /\ Proper(f, files[f])
    BY DEF FilesHoldTheirRun, Proper, StraysFirst, Belongs
  <2>2. PICK q \in Seq(Dgs) : Held(f) = files[f] \o q
    <3>1. (IF f = fd THEN queued ELSE << >>) \in Seq(Dgs)
      <4>1. queued \in Seq(Dgs) /\ << >> \in Seq(Dgs)
        BY <2>1 DEF TypeInv
      <4>2. QED
        BY <4>1
    <3>2. QED
      BY <3>1 DEF Held
  <2>3. PICK h \in Seq(Dgs) : h = files[f]
    BY <2>1, HeldType
  <2>4. h \o q # << >> /\ h # << >>
    <3>1. Len(h \o q) = Len(h) + Len(q) /\ Len(h) \in Nat /\ Len(q) \in Nat
      OBVIOUS
    <3>2. h # << >> /\ Len(h) > 0
      BY <2>1, <2>3
    <3>3. QED
      BY <3>1, <3>2
  <2>5. f \in reported /\ Proper(f, h \o q)
    BY <2>1, <2>2, <2>3, <2>4 DEF ContentInv
  <2>6. Proper(f, h)
    BY <2>4, <2>5, ProperPrefix
  <2>7. QED
    BY <2>3, <2>5, <2>6
<1>2. IInv => FilesHoldTheirRun
  BY <1>1 DEF IInv
<1>3. Spec => []IInv
  BY Invariance
<1> QED
  BY <1>2, <1>3, PTL

\* A chunk after the first has data only behind an Enable that ends the chunk
\* before and names it, so a reader finds every chunk: the number that phase 1
\* of enable gave out is that of the file reopenFiles() opens.
THEOREM ChunksFollow == Orderly => (Spec => []ChunksChained)
<1> SUFFICES ASSUME Orderly PROVE Spec => []ChunksChained
  OBVIOUS
<1>1. IInv => ChunksChained
  BY DEF IInv, ChainInv, Chained, ChunksChained
<1>2. Spec => []IInv
  BY Invariance
<1> QED
  BY <1>1, <1>2, PTL

\* The offsets in the small data are right, whichever chunk of the run they are of,
\* other than in a file that begins with what reopenFiles() had left in the buffers
\* when it failed.
THEOREM OffsetsRight == Orderly => (Spec => []OffsetsFindDgrams)
<1> SUFFICES ASSUME Orderly PROVE Spec => []OffsetsFindDgrams
  OBVIOUS
<1>1. IInv => OffsetsFindDgrams
  <2>1. SUFFICES ASSUME SmdInv, NEW i \in DOMAIN smd, smd[i].dg.file \in Files,
                        ~Spoilt(Held(smd[i].dg.file))
                 PROVE  Points(smd[i], Held(smd[i].dg.file))
    BY DEF IInv, OffsetsFindDgrams, Points
  <2>2. PICK f \in Files : f = smd[i].dg.file
    BY <2>1
  <2>3. Points(smd[i], Held(f))
    BY <2>1, <2>2 DEF SmdInv
  <2>4. QED
    BY <2>2, <2>3
<1>2. Spec => []IInv
  BY Invariance
<1> QED
  BY <1>1, <1>2, PTL

\* After an Enable, written and its files reopened where needed, no request for
\* a chunk is left over and the chunk is small.
THEOREM ChunkTurns == Orderly => (Spec => ChunkTurned)
<1> DEFINE Turns == /\ pc \in {"write", "reopen"} /\ pc' = "idle"
                    /\ dgram.tid = "enable" /\ writing /\ fd' # BadFile
                    => ~chunkPending' /\ ~chunkRequest' /\ ChunkSize' <= Thresh \div 2 + 1
<1> SUFFICES ASSUME Orderly PROVE Spec => ChunkTurned
  OBVIOUS
<1>1. ASSUME IInv, Next PROVE Turns
  <2>0. /\ TypeInv /\ ThreadInv /\ FdInv /\ ChunkInv /\ OffsetInv /\ NewInv
    BY <1>1 DEF IInv
  <2>1. SUFFICES ASSUME pc \in {"write", "reopen"}, pc' = "idle", dgram.tid = "enable", writing,
                        fd' # BadFile
                 PROVE  ~chunkPending' /\ ~chunkRequest' /\ ChunkSize' <= Thresh \div 2 + 1
    OBVIOUS
  <2>2. CASE WriteDgram
    <3>1. /\ pc = "write" /\ UNCHANGED <<fd, chunkOffset, chunkPending>>
          /\ offset' = offset + Len(ToWrite(dgram)) /\ pc' = NextPc(dgram)
      BY <2>0, <2>1, <2>2, WriteFacts
    <3>2. chunkRequest' = chunkRequest
      BY <2>0, <2>1, <2>2 DEF WriteDgram, RequestsChunk, TypeInv
    <3>3. ~chunkRequest
      BY <2>1, <3>1 DEF NextPc
    <3>4. Enabling
      BY <2>1, <3>1 DEF Enabling
    <3>5. ~chunkPending /\ ChunkSize <= Thresh \div 2
      BY <2>0, <2>1, <3>1, <3>3, <3>4 DEF ChunkInv
    <3>6. offset' = offset + 1
      BY <2>0, <2>1, <3>1, ToWriteType
    <3>7. ChunkSize' <= Thresh \div 2 + 1
      <4>1. \A a \in Nat, b \in Nat, c \in Nat : a - b <= c => (a + 1) - b <= c + 1
        OBVIOUS
      <4>2. offset \in Nat /\ chunkOffset \in Nat /\ Thresh \div 2 \in Nat
        BY <2>0, Constant DEF TypeInv
      <4>3. (offset + 1) - chunkOffset <= Thresh \div 2 + 1
        BY <3>5, <4>1, <4>2 DEF ChunkSize
      <4>4. ChunkSize' = offset' - chunkOffset'
        BY DEF ChunkSize
      <4>5. QED
        BY <3>1, <3>6, <4>3, <4>4, Zenon
    <3>8. QED
      BY <3>1, <3>2, <3>3, <3>5, <3>7
  <2>3. CASE Reopen
    <3>1. ~chunkPending' /\ ~chunkRequest' /\ chunkOffset' = offset'
      BY <2>1, <2>3 DEF Reopen, ChunkStart
    <3>2. offset' \in Nat
      BY <2>0, <2>3 DEF Reopen, TypeInv
    <3>3. \A a \in Nat : a - a = 0
      OBVIOUS
    <3>4. ChunkSize' = 0
      BY <3>1, <3>2, <3>3, Zenon DEF ChunkSize
    <3>5. 0 <= Thresh \div 2 + 1
      BY Constant
    <3>6. QED
      BY <3>1, <3>4, <3>5
  <2>4. ASSUME ~WriteDgram, ~Reopen PROVE pc' = pc \/ pc \notin {"write", "reopen"}
    <3>1. CASE \E r \in Runs : BeginRun(r) \/ BeginRunFails(r)
      BY <3>1 DEF BeginRun, BeginRunFails, OpenFiles
    <3>2. CASE Configure \/ BeginRunOff
      BY <3>2 DEF Configure, BeginRunOff
    <3>3. CASE Enable \/ \E t \in DOMAIN Arcs : Other(t)
      BY <3>3 DEF Enable, Other
    <3>4. CASE Reset \/ \E t \in {"l1accept", "slowupdate"} : Trigger(t)
      BY <3>4 DEF Reset, Trigger
    <3>5. CASE Process \/ CloseFiles \/ Closed
      BY <3>5 DEF Process, CloseFiles, Closed
    <3>6. CASE Drain \/ JumpingIndex \/ WriteFails
      BY <3>6 DEF Drain, JumpingIndex, WriteFails
    <3>7. QED
      BY <1>1, <2>4, <3>1, <3>2, <3>3, <3>4, <3>5, <3>6 DEF Next
  <2>5. QED
    BY <2>1, <2>2, <2>3, <2>4
<1>2. IInv /\ [Next]_vars => [Turns]_vars
  BY <1>1
<1>3. Spec => []IInv
  BY Invariance
<1>4. QED
  BY <1>2, <1>3, PTL DEF Spec, ChunkTurned
=============================================================================
