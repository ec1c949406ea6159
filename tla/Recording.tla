------------------------------ MODULE Recording ------------------------------
(***************************************************************************)
(* How a DRP records a run: psdaq/drp/DrpBase.cc (EbReceiver and the       *)
(* phase 1 handlers of DrpBase), FileWriter.cc and the phase 1 part of     *)
(* PGPDetectorApp.cc.                                                      *)
(*                                                                         *)
(* Three threads share the state of a recording.  The collection thread    *)
(* handles phase 1 of a transition: it opens files at beginrun and numbers *)
(* the next chunk at enable.  The receiver thread gets the datagrams in    *)
(* the order of the timing stream: it writes them, starts the next chunk   *)
(* at Enable and closes the files at EndRun.  The writer thread moves what *)
(* was buffered to whatever file is open.  All datagrams have size 1.      *)
(* Each keeps, for the properties only, the file that was open when it was *)
(* buffered: dgram.file is a history field that no action reads.           *)
(***************************************************************************)
EXTENDS Integers, Sequences

CONSTANTS
  MaxRun,     \* bound on the run numbers the logbook gives out
  MaxSent,    \* bound on the transitions control inserts into the stream
  MaxEvents,  \* bound on L1Accepts and SlowUpdates
  Depth,      \* bound on the events on their way to the receiver
  Thresh,     \* DefaultChunkThresh
  Faults,     \* what goes wrong, a subset of FaultKinds
  MaxFaults   \* bound on how often something does

\* "open": openFiles() fails.  "begin", "enable": another client, or the
\* detector, fails phase 1 after this DRP has done its part.  "phase2": another
\* client does not answer phase 2, other than that of beginrun.  "reopen": the
\* next chunk cannot be opened.  "reset": control resets the partition while
\* files are open.  "early": beginrun comes while the files of the last run are
\* being closed.
FaultKinds == {"open", "begin", "enable", "phase2", "reopen", "reset", "early"}

ASSUME RecordingAssumption ==
  /\ MaxRun \in Nat /\ MaxSent \in Nat /\ MaxEvents \in Nat
  /\ Depth \in Nat \ {0}
  /\ Thresh \in Nat \ {0}
  /\ Faults \subseteq FaultKinds /\ MaxFaults \in Nat

Runs  == 0 .. MaxRun              \* 0: not recorded
Files == (1 .. MaxRun) \X (0 .. MaxSent)   \* data files: run and chunk
NoFile  == <<0, 0>>               \* m_fd is 0, after close()
BadFile == <<0, 1>>               \* m_fd is -1, after an open() that failed

VARIABLES
  \* control and the timing stream
  state,         \* control's state
  op,            \* the transition whose phase 2 control waits for
  run,           \* number of the run begun last, 0 if it is not recorded
  lastRun,       \* last run number given out
  sent,          \* transitions inserted so far
  events,        \* L1Accepts and SlowUpdates so far
  counter,       \* event counter of the timing stream since ClearReadout
  stream,        \* datagrams on their way to the receiver
  faults,        \* what MaxFaults bounds, so far
  \* EbReceiver
  lastIndex,     \* m_lastIndex
  writing,       \* m_writing
  offset,        \* m_offset
  chunkOffset,   \* m_chunkOffset
  chunkRequest,  \* m_chunkRequest
  chunkPending,  \* m_chunkPending
  params,        \* m_fileParameters: run and chunk of the file name
  info,          \* chunk ID of the chunk info in the transition xtc, or 0
  cached,        \* the Configure in m_configureBuffer
  pc,            \* where the receiver thread is in process()
  dgram,         \* the datagram it has in hand
  \* BufferedFileWriterMT
  fd,            \* the open file, NoFile or BadFile
  queued,        \* datagrams in its buffers, not yet in a file
  files,         \* what the files hold
  smd,           \* the small data: what was written, where it should be
  reported,      \* files reported to control
  dead           \* why the process ended, or "none"

control == <<state, op, run, lastRun, sent, events, counter>>
chunk   == <<offset, chunkOffset, chunkRequest, chunkPending, params>>
disk    == <<queued, files, smd, reported>>
vars    == <<control, stream, faults, lastIndex, writing, chunk, info, cached, pc,
             dgram, fd, disk, dead>>

\* Something of kind k goes wrong.
Fault(k) == k \in Faults /\ faults < MaxFaults /\ faults' = faults + 1
NoFault  == UNCHANGED faults

(***************************************************************************)
(* Definitions whose comment begins with "Slip:" are wrong on purpose.     *)
(* They are used only to show that the properties notice such a slip.      *)
(***************************************************************************)

\* The transitions: from which of control's states to which.
Arcs == [configure   |-> <<"connected", "configured">>,
         beginrun    |-> <<"configured", "starting">>,
         beginstep   |-> <<"starting", "paused">>,
         enable      |-> <<"paused", "running">>,
         disable     |-> <<"running", "paused">>,
         endstep     |-> <<"paused", "starting">>,
         endrun      |-> <<"starting", "configured">>,
         unconfigure |-> <<"configured", "connected">>]

Dgram(t, r, i) == [tid |-> t, run |-> r, index |-> i, chunk |-> 0, file |-> NoFile]
NoDgram == Dgram("none", 0, 0)

Init ==
  /\ state = "connected" /\ op = "none" /\ run = 0 /\ lastRun = 0
  /\ sent = 0 /\ events = 0 /\ counter = 0
  /\ stream = << >> /\ faults = 0
  /\ lastIndex = 0
  /\ writing = FALSE
  /\ offset = 0 /\ chunkOffset = 0
  /\ chunkRequest = FALSE /\ chunkPending = FALSE
  /\ params = <<0, 0>>
  /\ info = 0
  /\ cached = NoDgram
  /\ pc = "idle" /\ dgram = NoDgram
  /\ fd = NoFile
  /\ queued = << >> /\ smd = << >> /\ reported = {}
  /\ files = [f \in Files |-> << >>]
  /\ dead = "none"

-----------------------------------------------------------------------------
(***************************************************************************)
(* Phase 1, in the collection thread, and the insertion that follows it    *)
(***************************************************************************)

\* Control sends t only when it waits for nothing; a script may be as fast as
\* the answers.
MayBegin(t) ==
  /\ dead = "none"
  /\ op = "none" /\ state = Arcs[t][1]
  /\ sent < MaxSent
  /\ pc = "idle" \/ "early" \in Faults

\* Phase 2: the transition goes into the stream, after ClearReadout if it
\* starts the event counter anew.
Inserted(t, r, clears) ==
  /\ op' = t /\ sent' = sent + 1
  /\ counter' = (IF clears THEN 1 ELSE counter + 1)
  /\ stream' = Append(stream, Dgram(t, r, counter'))
  /\ NoFault
  /\ UNCHANGED <<state, events>>

\* Phase 1 failed: control stays where it is.
Refused(k) == Fault(k) /\ UNCHANGED <<state, op, sent, events, counter, stream>>

\* configure: the receiver's counters are reset.
Configure ==
  /\ MayBegin("configure")
  /\ lastIndex' = 0
  /\ info' = 0
  /\ Inserted("configure", 0, TRUE)
  /\ UNCHANGED <<run, lastRun, writing, chunk, cached, pc, dgram, fd, disk,
                 dead>>

\* chunkReset()
ChunkReset == chunkOffset' = 0 /\ chunkRequest' = FALSE /\ chunkPending' = FALSE

\* beginrun without recording.
BeginRunOff ==
  /\ MayBegin("beginrun")
  /\ run' = 0
  /\ lastIndex' = 0
  /\ ChunkReset
  /\ info' = 0
  /\ Inserted("beginrun", 0, TRUE) \/ Refused("begin")
  /\ UNCHANGED <<lastRun, writing, offset, params, cached, pc, dgram, fd,
                 disk, dead>>

\* The files are opened, counters and chunks reset whether that worked or not.
\* No file of an earlier run is closed here.
OpenFiles(r) ==
  /\ MayBegin("beginrun")
  /\ r = lastRun + 1 /\ r <= MaxRun
  /\ run' = r /\ lastRun' = r
  /\ offset' = 0
  /\ lastIndex' = 0
  /\ ChunkReset
  /\ info' = 0
  /\ UNCHANGED <<cached, pc, dgram, queued, files, dead>>

\* beginrun with recording.
BeginRun(r) ==
  /\ OpenFiles(r)
  /\ fd' = <<r, 0>> /\ params' = <<r, 0>>
  /\ smd' = << >> /\ reported' = reported \cup {<<r, 0>>}
  /\ writing' = TRUE
  /\ Inserted("beginrun", r, TRUE) \/ Refused("begin")

\* The data file or the small data file cannot be opened.
BeginRunFails(r) ==
  /\ OpenFiles(r)
  /\ \/ fd' = BadFile /\ UNCHANGED reported
     \/ fd' = <<r, 0>> /\ reported' = reported \cup {<<r, 0>>}
  /\ Refused("open")
  /\ UNCHANGED <<params, smd, writing>>

ChunkSize == offset - chunkOffset

\* Slip: the number that goes into the Enable is read too early.
AdvanceChunkIdLate ==
  \/ /\ ~chunkPending
     /\ chunkPending' = TRUE /\ chunkRequest' = TRUE
     /\ params' = <<params[1], params[2] + 1>>
     /\ info' = params[2]
  \/ /\ chunkPending
     /\ info' = 0
     /\ UNCHANGED <<chunkPending, chunkRequest, params>>

\* advanceChunkId(), with what enable() does if it returned true: the next
\* chunk is numbered and its name goes into the Enable.
AdvanceChunkId ==
  \/ /\ ~chunkPending
     /\ chunkPending' = TRUE /\ chunkRequest' = TRUE
     /\ params' = <<params[1], params[2] + 1>>
     /\ info' = params[2] + 1
  \/ /\ chunkPending
     /\ info' = 0
     /\ UNCHANGED <<chunkPending, chunkRequest, params>>

LargeChunk == ChunkSize > Thresh \div 2

\* enable: if the chunk is large there will be a new one after this Enable.
Enable ==
  /\ MayBegin("enable")
  /\ \/ /\ writing /\ LargeChunk
        /\ AdvanceChunkId
     \/ /\ ~(writing /\ LargeChunk)
        /\ info' = 0
        /\ UNCHANGED <<chunkPending, chunkRequest, params>>
  /\ Inserted("enable", run, FALSE) \/ Refused("enable")
  /\ UNCHANGED <<run, lastRun, lastIndex, writing, offset, chunkOffset, cached,
                 pc, dgram, fd, disk, dead>>

\* The transitions whose phase 1 leaves the recording alone.
Other(t) ==
  /\ t \in {"beginstep", "disable", "endstep", "endrun", "unconfigure"}
  /\ MayBegin(t)
  /\ info' = 0
  /\ Inserted(t, run, FALSE)
  /\ UNCHANGED <<run, lastRun, lastIndex, writing, chunk, cached, pc, dgram,
                 fd, disk, dead>>

\* handleReset(): unconfigure() joins the receiver thread, which finishes the
\* datagram in hand; what is still in the stream is discarded.  The files stay
\* open.
Reset ==
  /\ dead = "none" /\ pc = "idle"
  /\ state # "connected" /\ sent < MaxSent
  /\ IF writing THEN Fault("reset") ELSE NoFault
  /\ state' = "connected" /\ op' = "none" /\ sent' = sent + 1
  /\ stream' = << >>
  /\ UNCHANGED <<run, lastRun, events, counter, lastIndex, writing, chunk,
                 info, cached, pc, dgram, fd, disk, dead>>

\* The timing system triggers a readout.
Trigger(t) ==
  /\ dead = "none"
  /\ t \in {"l1accept", "slowupdate"}
  /\ state = "running" /\ op = "none" /\ events < MaxEvents
  /\ Len(stream) < Depth
  /\ events' = events + 1 /\ counter' = counter + 1
  /\ stream' = Append(stream, Dgram(t, run, counter'))
  /\ UNCHANGED <<faults, state, op, run, lastRun, sent, lastIndex, writing, chunk, info,
                 cached, pc, dgram, fd, disk, dead>>

-----------------------------------------------------------------------------
(***************************************************************************)
(* The receiver thread: EbReceiver::process()                              *)
(***************************************************************************)

\* A datagram out of order ends the process.
JumpingIndex ==
  /\ dead = "none" /\ pc = "idle" /\ stream # << >>
  /\ Head(stream).index # lastIndex + 1
  /\ dead' = "jumping index"
  /\ UNCHANGED <<control, stream, faults, lastIndex, writing, chunk, info, cached, pc,
                 dgram, fd, disk>>

\* An event finds the chunk full: control is asked for a disable and enable.
RequestsChunk(d) ==
  writing /\ ~chunkRequest /\ d.tid = "l1accept" /\ ChunkSize > Thresh

\* The answer to phase 2 goes out before anything is written.  Control takes
\* it, unless another client's does not come.  The datagram has the chunk info
\* that phase 1 has put into the transition's xtc.
Process ==
  /\ dead = "none" /\ pc = "idle" /\ stream # << >>
  /\ LET d == Head(stream) IN
     /\ d.index = lastIndex + 1
     /\ lastIndex' = d.index
     /\ dgram' = [d EXCEPT !.chunk = IF d.tid = "enable" THEN info ELSE 0]
     /\ cached' = IF d.tid = "configure" THEN d ELSE cached
     /\ offset' = IF d.tid = "beginrun" THEN 0 ELSE offset
     /\ \/ d.tid # op /\ NoFault /\ UNCHANGED <<op, state>>
        \/ d.tid = op /\ NoFault /\ op' = "none" /\ state' = Arcs[op][2]
        \/ /\ d.tid = op /\ op # "beginrun" /\ Fault("phase2")
           /\ op' = "none" /\ UNCHANGED state
  /\ stream' = Tail(stream)
  /\ pc' = "write"
  /\ UNCHANGED <<run, lastRun, sent, events, counter, writing, chunkOffset,
                 chunkRequest, chunkPending, params, info, fd, disk, dead>>

\* _writeDgram() of a series of datagrams, the first at offset o: to the
\* buffers of the data file, and for each an entry in the small data with its
\* place in the chunk.
Write(ds, o) ==
  /\ queued' = queued \o ds
  /\ smd' = smd \o [i \in DOMAIN ds |-> [at |-> o + i - 1 - chunkOffset, dg |-> ds[i]]]
  /\ offset' = o + Len(ds)

Buffered(d) == [d EXCEPT !.file = fd]

\* The cached Configure goes before a BeginRun.
ToWrite(d) == IF d.tid = "beginrun" THEN <<Buffered(cached), Buffered(d)>>
                                    ELSE <<Buffered(d)>>

\* Slip: Enable does not reopen the files.
NextPcNoReopen(d) == IF d.tid = "endrun" THEN "close" ELSE "idle"

\* What follows the writing of d.
NextPc(d) == CASE d.tid = "enable" /\ chunkRequest -> "reopen"
               [] d.tid = "endrun" -> "close"
               [] OTHER -> "idle"

\* Written, if files are open and, for an event, if the trigger says so.
WriteDgram ==
  /\ dead = "none" /\ pc = "write"
  /\ chunkRequest' = (chunkRequest \/ RequestsChunk(dgram))
  /\ \/ /\ writing
        /\ Write(ToWrite(dgram), IF dgram.tid = "beginrun" THEN 0 ELSE offset)
        /\ pc' = NextPc(dgram)
     \/ /\ ~writing \/ dgram.tid = "l1accept"
        /\ pc' = "idle"
        /\ UNCHANGED <<queued, smd, offset>>
  /\ UNCHANGED <<control, stream, faults, lastIndex, writing, chunkOffset, chunkPending,
                 params, info, cached, dgram, fd, files, reported, dead>>

\* What is buffered goes to the file that is open.
Flushed == IF fd \in Files THEN [files EXCEPT ![fd] = @ \o queued] ELSE files

\* Slip: the offset of the chunk stays that of the last one.
ChunkStartKept == chunkOffset

ChunkStart == offset

\* reopenFiles(): close() waits until the buffers are written, if a file is open.
\* After an open() that failed it leaves them as they are.
Reopen ==
  /\ dead = "none" /\ pc = "reopen"
  /\ files' = Flushed /\ queued' = IF fd \in Files THEN << >> ELSE queued
  /\ chunkRequest' = FALSE
  /\ chunkOffset' = ChunkStart
  /\ \/ /\ fd' = params /\ NoFault
        /\ reported' = reported \cup {params}
        /\ chunkPending' = FALSE
     \/ /\ fd' = BadFile /\ Fault("reopen")
        /\ UNCHANGED <<reported, chunkPending>>
  /\ pc' = "idle"
  /\ UNCHANGED <<control, stream, lastIndex, writing, offset, params, info,
                 cached, dgram, smd, dead>>

\* closeFiles(): recording ends ...
CloseFiles ==
  /\ dead = "none" /\ pc = "close"
  /\ writing' = FALSE
  /\ pc' = "closing"
  /\ UNCHANGED <<control, stream, faults, lastIndex, chunk, info, cached, dgram, fd,
                 disk, dead>>

\* Slip: the file is closed with data still in the buffers.
AllWrittenOrNot == TRUE

AllWritten == fd \in Files => queued = << >>

\* ... and whatever file is open is closed, once the buffers are empty.  If none
\* is, after an open() that failed, close() does not wait for them.
Closed ==
  /\ dead = "none" /\ pc = "closing" /\ AllWritten
  /\ fd' = NoFile
  /\ pc' = "idle"
  /\ UNCHANGED <<control, stream, faults, lastIndex, writing, chunk, info, cached,
                 dgram, disk, dead>>

-----------------------------------------------------------------------------
(***************************************************************************)
(* The writer thread: BufferedFileWriterMT::run()                          *)
(***************************************************************************)

\* The full buffers, those older than 2 s and those that are flushed are
\* written to the file that is open.  What was handed over while none was may be
\* written only after close() has set m_fd to 0: it is lost, if it can be.
Drain ==
  /\ dead = "none" /\ queued # << >>
  /\ fd # BadFile
  /\ files' = Flushed /\ queued' = << >>
  /\ UNCHANGED <<control, stream, faults, lastIndex, writing, chunk, info, cached, pc,
                 dgram, fd, smd, reported, dead>>

\* Without a file write() fails, which ends the process.
WriteFails ==
  /\ dead = "none" /\ queued # << >>
  /\ fd \notin Files
  /\ dead' = "file writing failed"
  /\ UNCHANGED <<control, stream, faults, lastIndex, writing, chunk, info, cached, pc,
                 dgram, fd, disk>>

Next ==
  \/ Configure
  \/ BeginRunOff
  \/ \E r \in Runs : BeginRun(r)
  \/ \E r \in Runs : BeginRunFails(r)
  \/ Enable
  \/ \E t \in DOMAIN Arcs : Other(t)
  \/ Reset
  \/ \E t \in {"l1accept", "slowupdate"} : Trigger(t)
  \/ JumpingIndex
  \/ Process
  \/ WriteDgram
  \/ Reopen
  \/ CloseFiles
  \/ Closed
  \/ Drain
  \/ WriteFails

Spec == Init /\ [][Next]_vars

-----------------------------------------------------------------------------
(***************************************************************************)
(* Properties                                                              *)
(***************************************************************************)

Dgrams == [tid : DOMAIN Arcs \cup {"l1accept", "slowupdate", "none"},
           run : Runs, index : 0 .. MaxSent + MaxEvents, chunk : 0 .. MaxSent,
           file : Files \cup {NoFile, BadFile}]

\* The type of the state.  No chunk starts behind what was written: the
\* difference that DrpBase::chunkSize() takes of unsigned numbers is not negative.
TypeOK ==
  /\ state \in {Arcs[t][1] : t \in DOMAIN Arcs}
  /\ op \in DOMAIN Arcs \cup {"none"}
  /\ run \in Runs /\ lastRun \in Runs
  /\ sent \in 0 .. MaxSent /\ events \in 0 .. MaxEvents
  /\ counter \in 0 .. MaxSent + MaxEvents
  /\ stream \in Seq(Dgrams) /\ faults \in 0 .. MaxFaults
  /\ lastIndex \in 0 .. MaxSent + MaxEvents
  /\ writing \in BOOLEAN /\ chunkRequest \in BOOLEAN
  /\ chunkPending \in BOOLEAN /\ cached \in Dgrams
  /\ offset \in Nat /\ chunkOffset \in Nat /\ ChunkSize \in Nat
  /\ params \in (0 .. MaxRun) \X (0 .. MaxSent)
  /\ info \in 0 .. MaxSent
  /\ pc \in {"idle", "write", "reopen", "close", "closing"}
  /\ dgram \in Dgrams
  /\ fd \in Files \cup {NoFile, BadFile}
  /\ queued \in Seq(Dgrams)
  /\ \A f \in Files : files[f] \in Seq(Dgrams)
  /\ \A i \in DOMAIN smd : smd[i].at \in Int /\ smd[i].dg \in Dgrams
  /\ reported \subseteq Files
  /\ dead \in {"none", "jumping index", "file writing failed"}

\* What file f holds, or will once the buffers are written.
Held(f) == files[f] \o (IF f = fd THEN queued ELSE << >>)

\* A file begins with what was buffered after a chunk could not be opened. close()
\* does not wait for such datagrams, so the next file may get them.
Spoilt(h) == h # << >> /\ h[1].file = BadFile

\* Datagram d was buffered for file f, and is of its run.
Own(f, d) == d.file = f /\ (d.run = f[1] \/ d.tid = "configure")

\* Whatever is in the buffers when files are opened, closed and changed goes to
\* the file that was open when it was buffered.  The files of a run hold its
\* datagrams and no others, the first of them the Configure and the BeginRun, and
\* every file that holds data was reported.  Only what was buffered after a chunk
\* could not be opened (FileWriter::close() then does not flush) goes astray, and
\* only to the front of a file.
FilesHoldTheirRun ==
  \A f \in Files : files[f] # << >> =>
    /\ f \in reported
    /\ \A i \in DOMAIN files[f] :
         \/ Own(f, files[f][i])
         \/ \A j \in 1 .. i : files[f][j].file = BadFile
    /\ ~Spoilt(files[f]) =>
         /\ \A i \in DOMAIN files[f] :
              IF f[2] = 0 /\ i = 1 THEN files[f][i].tid = "configure"
                                  ELSE files[f][i].run = f[1]
         /\ f[2] = 0 /\ Len(files[f]) > 1 => files[f][2].tid = "beginrun"

\* "request new chunk after this Enable dgram is written" (DrpBase::enable()):
\* the last datagram of the chunk before is the Enable that names this one, by
\* which a reader of the files finds it.
ChunksChained ==
  \A r \in 1 .. MaxRun, c \in 1 .. MaxSent :
    files[<<r, c>>] # << >> =>
      LET previous == files[<<r, c - 1>>]
      IN /\ previous # << >>
         /\ previous[Len(previous)].tid = "enable"
         /\ previous[Len(previous)].chunk = c

\* The offset that the small data give for a datagram is its place in the
\* chunk it was written to, in every file that does not begin with what was
\* buffered after a chunk could not be opened.
OffsetsFindDgrams ==
  \A i \in DOMAIN smd :
    LET e == smd[i]
        f == e.dg.file
    IN f \in Files /\ ~Spoilt(Held(f)) =>
         e.at + 1 \in DOMAIN Held(f) /\ Held(f)[e.at + 1] = e.dg

\* Once an Enable is dealt with no chunk is asked for or pending, and the chunk
\* is small enough: a chance to start a new one is never missed, even if the
\* request for it is of an earlier attempt.
ChunkTurned ==
  [][/\ pc \in {"write", "reopen"} /\ pc' = "idle"
     /\ dgram.tid = "enable" /\ writing /\ fd' # BadFile
     => ~chunkPending' /\ ~chunkRequest' /\ ChunkSize' <= Thresh \div 2 + 1]_vars
=============================================================================
