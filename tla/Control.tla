------------------------------- MODULE Control -------------------------------
(***************************************************************************)
(* The DAQ control process, CollectionManager of                           *)
(* psdaq/psdaq/control/control.py, and what it drives: the clients (DRPs,  *)
(* TEBs, MEBs: psdaq/psdaq/service/Collection.cc and their handlers), the  *)
(* timing system (XPM, by EPICS PVs) and the run logbook.                  *)
(*                                                                         *)
(* A transition is performed in two phases.  Phase 1 is a message to every *)
(* active client, answered with the message's ID.  Phase 2 is a transition *)
(* put into the timing stream; the clients that take the stream answer     *)
(* with its pulse ID when it comes out at their end.  The main thread of   *)
(* control does one transition at a time; a thread sends it slow update    *)
(* requests, and a fast thread serves setrecord at any moment.             *)
(***************************************************************************)
EXTENDS Naturals, Sequences, FiniteSets

CONSTANTS
  Drps,        \* detector readout processes
  Tebs,        \* trigger event builders
  Mebs,        \* monitoring event builders
  Firsts,      \* the state at the start: "reset", or "configured"
  Records,     \* the recording setting is changed in the course of things
  Goals,       \* states an operator asks for with setstate
  PutFaults,   \* how a PV put can fail: subset of {"refused", "late"}
  MaxSent,     \* bound on the phase 1 messages
  MaxSlow,     \* bound on the stream's length when a slow update goes into it
  MaxFaults    \* bound on early timeouts, repeated rollcalls, errors, failed
               \* puts and chunk requests

Clients == Drps \cup Tebs \cup Mebs
Timed   == Drps \cup Mebs   \* those that answer phase 2

States == {"reset", "unallocated", "allocated", "connected", "configured",
           "starting", "paused", "running"}

ASSUME ControlAssumption ==
  /\ Drps \cap Tebs = {} /\ Drps \cap Mebs = {} /\ Tebs \cap Mebs = {}
  /\ Firsts \subseteq {"reset", "configured"} /\ Records \in BOOLEAN
  /\ Goals \subseteq States
  /\ PutFaults \subseteq {"refused", "late"}
  /\ MaxSent \in Nat /\ MaxSlow \in Nat /\ MaxFaults \in Nat

VARIABLES
  state,      \* state of collectMachine
  goal,       \* target of handle_setstate, "chunk" in handle_chunkrequest
  op,         \* transition whose condition is running, or "none"
  phase,      \* phase it waits in: 0, 1 or 2
  known,      \* self.ids: clients that answered the rollcall
  active,     \* those with the active flag set
  ids,        \* clients confirm_response still waits for
  ref,        \* msg_id that wait_for_answers goes by, NoId if any
  slow,       \* slow_update_enabled
  recording,  \* recording
  fast,       \* handle_setrecord has passed its check
  slowReq,    \* the slow update thread's request is on front_rep
  sent,       \* ID of the last phase 1 message
  l0,         \* the XPM lets triggers through
  stream,     \* transitions put into the timing stream
  run,        \* the logbook has a run open
  inbox,      \* [Clients -> Seq]: messages on a client's SUB socket
  back,       \* [Clients -> Seq]: a client's messages on back_pull
  partition,  \* clients subscribed to "partition"
  handled,    \* [Clients -> message]: the last one a client has handled
  seen,       \* [Clients -> Nat]: place in the stream a client has come to
  asked,      \* DRPs with m_chunkRequest set
  faults      \* what MaxFaults bounds, so far

manager == <<state, goal, op, phase, known, active, ids, ref, slow>>
threads == <<recording, fast, slowReq>>
world   == <<l0, stream, run>>
client  == <<inbox, back, partition, handled, seen, asked>>
vars    == <<manager, threads, sent, world, client, faults>>

NoId    == <<0, 0>>
AsyncId == <<0, 1>>   \* the "0" that clients put on asynchronous messages

\* The machine of ControlDef.states: the way up and the way down.
Levels == <<"unallocated", "allocated", "connected", "configured", "starting",
            "paused", "running">>
Ups    == <<"alloc", "connect", "configure", "beginrun", "beginstep", "enable">>
Downs  == <<"dealloc", "disconnect", "unconfigure", "endrun", "endstep",
            "disable">>

level(s) == CHOOSE i \in DOMAIN Levels : Levels[i] = s

\* The transitions the machine allows in a state, with where they lead.
Legal(s) ==
  {<<"reset", "reset">>}
  \cup (IF s \in {"reset", "unallocated"}
          THEN {<<"rollcall", "unallocated">>} ELSE {})
  \cup {<<Ups[i], Levels[i + 1]>> : i \in {j \in DOMAIN Ups : Levels[j] = s}}
  \cup {<<Downs[i], Levels[i]>> : i \in {j \in DOMAIN Downs : Levels[j + 1] = s}}

\* The transitions with a phase 2.
TwoPhase == {"configure", "unconfigure", "beginrun", "endrun", "beginstep",
             "endstep", "enable", "disable"}

\* next_dict.
NextTransition(s, g) ==
  CASE g = "reset" -> "reset"
    [] g # "reset" /\ s = "reset" -> "rollcall"
    [] OTHER -> IF level(g) > level(s) THEN Ups[level(s)]
                                       ELSE Downs[level(s) - 1]

\* Control starts in reset, with the triggers as they were left.  To look
\* further into runs within the bounds, the histories that brought all
\* clients to configured, and the recording setting to either value, are left
\* out.
Init ==
  /\ state \in Firsts /\ goal = "none" /\ op = "none" /\ phase = 0
  /\ known = (IF state = "reset" THEN {} ELSE Clients) /\ active = known
  /\ ids = {} /\ ref = NoId
  /\ slow = FALSE /\ fast = "idle" /\ slowReq = FALSE
  /\ recording \in (IF state = "reset" THEN {FALSE} ELSE BOOLEAN)
  /\ sent = 0
  /\ l0 \in (IF state = "reset" THEN BOOLEAN ELSE {FALSE})
  /\ stream = << >>
  /\ run = FALSE
  /\ inbox = [c \in Clients |-> << >>]
  /\ back = [c \in Clients |-> << >>]
  /\ partition = known
  /\ handled = [c \in Clients |->
        [key |-> IF state = "reset" THEN "reset" ELSE "configure", id |-> 0]]
  /\ seen = [c \in Clients |-> 0]
  /\ asked = {}
  /\ faults = 0

-----------------------------------------------------------------------------
(***************************************************************************)
(* Definitions whose comment begins with "Slip:" are wrong on purpose.     *)
(* They are used only to show that the properties notice such a slip.      *)
(***************************************************************************)

(***************************************************************************)
(* Pieces of the conditions                                                *)
(***************************************************************************)

Fault == faults < MaxFaults /\ faults' = faults + 1

\* back_pub.send_multipart(): the next message, to the given clients.
Publish(key, to) ==
  /\ sent < MaxSent
  /\ sent' = sent + 1
  /\ inbox' = [c \in Clients |->
                 IF c \in to THEN Append(inbox[c], [key |-> key, id |-> sent + 1])
                             ELSE inbox[c]]

\* The condition returns False: handle_setstate and handle_chunkrequest stop.
Fail == op' = "none" /\ goal' = "none" /\ phase' = 0 /\ ref' = NoId /\ ids' = {}

\* It returns True: the state changes, and the loop of handle_setstate goes on
\* unless this was the goal; after its disable, handle_chunkrequest enables.
Succeed(t) ==
  LET next == CHOOSE s \in States : <<t, s>> \in Legal(state)
  IN /\ state' = next
     /\ goal' = IF next = goal \/ (goal = "chunk" /\ t = "enable")
                  THEN "none" ELSE goal
     /\ op' = "none" /\ phase' = 0 /\ ref' = NoId /\ ids' = {}

\* A PV put that is checked: done, or reported as failed, and then a late
\* put has its effect all the same.
Put(l) == l0' = l /\ UNCHANGED faults
PutFails(l) ==
  /\ Fault
  /\ \/ "refused" \in PutFaults /\ l0' = l0
     \/ "late" \in PutFaults /\ l0' = l

Idle == op = "none" /\ goal = "none"

\* What the main thread may start: what it was asked for, or the next
\* transition on the way to the goal.
Starts(t) ==
  /\ op = "none"
  /\ \E s \in States : <<t, s>> \in Legal(state)
  /\ \/ goal = "none"
     \/ goal = "chunk" /\ t = (IF state = "running" THEN "disable" ELSE "enable")
     \/ goal \in States /\ t = NextTransition(state, goal)

\* Phase 1 is on its way to the clients, of whom some are waited for.
Wait1(t, to) ==
  /\ Publish(t, to)
  /\ op' = t /\ phase' = 1 /\ ref' = <<1, sent + 1>> /\ ids' = active

-----------------------------------------------------------------------------
(***************************************************************************)
(* Transitions: from the start to phase 1                                  *)
(***************************************************************************)

\* How many transitions it takes from s to g: a bound, not to stop half way.
Distance(s, g) ==
  CASE g = "reset" -> 1
    [] g # "reset" /\ s = "reset" -> level(g)
    [] OTHER -> IF level(g) > level(s) THEN level(g) - level(s)
                                       ELSE level(s) - level(g)

\* handle_setstate, for a state other than this one.
SetState(g) ==
  /\ Idle
  /\ g # state
  /\ sent + Distance(state, g) <= MaxSent
  /\ goal' = g
  /\ UNCHANGED <<state, op, phase, known, active, ids, ref, slow, threads, sent,
                 world, client, faults>>

\* condition_reset: triggers off if running, slow updates off, all clients
\* told.  A put that fails is only logged.
Reset ==
  /\ Starts("reset")
  /\ \/ state = "running" /\ (Put(FALSE) \/ PutFails(FALSE))
     \/ state # "running" /\ UNCHANGED <<l0, faults>>
  /\ Publish("reset", Clients)
  /\ slow' = FALSE
  /\ Succeed("reset")
  /\ known' = {} /\ active' = {}
  /\ UNCHANGED <<threads, stream, run, back, partition, handled, seen, asked>>

\* condition_rollcall: ask all, with the same message each second, and wait
\* for whoever answers.
Rollcall ==
  /\ Starts("rollcall")
  /\ Publish("rollcall", Clients)
  /\ op' = "rollcall" /\ phase' = 1 /\ ref' = <<1, sent + 1>> /\ ids' = Clients
  /\ known' = {} /\ active' = {}
  /\ UNCHANGED <<state, goal, slow, threads, world, back, partition, handled,
                 seen, asked, faults>>

RollcallAgain ==
  /\ op = "rollcall" /\ ids # {}
  /\ Fault
  /\ inbox' = [c \in Clients |->
                 Append(inbox[c], [key |-> "rollcall", id |-> sent])]
  /\ UNCHANGED <<manager, threads, sent, world, back, partition, handled, seen,
                 asked>>

\* Slip: clients that did not answer the rollcall can be selected.
SelectPlatformUnknown ==
  /\ Idle
  /\ state = "unallocated"
  /\ active' \in SUBSET Clients \ {active}
  /\ UNCHANGED <<state, goal, op, phase, known, ids, ref, slow, threads, sent,
                 world, client, faults>>

\* handle_selectplatform: any subset is made active.
SelectPlatform ==
  /\ Idle
  /\ state = "unallocated"
  /\ active' \in SUBSET known \ {active}
  /\ UNCHANGED <<state, goal, op, phase, known, ids, ref, slow, threads, sent,
                 world, client, faults>>

\* condition_alloc: on "all", but only the active clients listen to it.
Alloc ==
  /\ Starts("alloc")
  /\ Wait1("alloc", active)
  /\ UNCHANGED <<state, goal, known, active, slow, threads, world, back,
                 partition, handled, seen, asked, faults>>

\* The transitions that begin with their phase 1 message.
Plain(t) ==
  /\ t \in {"dealloc", "disconnect", "configure", "unconfigure", "beginstep",
            "endstep", "enable"}
  /\ Starts(t)
  /\ Wait1(t, partition)
  /\ UNCHANGED <<state, goal, known, active, slow, threads, world, back,
                 partition, handled, seen, asked, faults>>

\* condition_connect: the master PV of each group first.
Connect ==
  /\ Starts("connect")
  /\ \/ Wait1("connect", partition) /\ UNCHANGED <<goal, faults>>
     \/ Fault /\ Fail /\ UNCHANGED <<sent, inbox>>
  /\ UNCHANGED <<state, known, active, slow, threads, world, back, partition,
                 handled, seen, asked>>

\* condition_beginrun: a run in the logbook first, if recording.
BeginRun ==
  /\ Starts("beginrun")
  /\ \/ Wait1("beginrun", partition) /\ run' = (run \/ recording)
        /\ UNCHANGED <<goal, faults>>
     \/ Fault /\ Fail /\ UNCHANGED <<run, sent, inbox>>
  /\ UNCHANGED <<state, known, active, slow, threads, l0, stream, back,
                 partition, handled, seen, asked>>

\* condition_endrun: the run in the logbook is ended first, if recording; an
\* error of the logbook is only reported.
EndRun ==
  /\ Starts("endrun")
  /\ Wait1("endrun", partition)
  /\ \/ run' = (run /\ ~recording) /\ UNCHANGED faults
     \/ recording /\ Fault /\ UNCHANGED run
  /\ UNCHANGED <<state, goal, known, active, slow, threads, l0, stream, back,
                 partition, handled, seen, asked>>

\* Slip: triggers are left on until the transition is over.
DisableLate ==
  /\ Starts("disable")
  /\ slow' = FALSE
  /\ Wait1("disable", partition)
  /\ UNCHANGED <<state, goal, known, active, threads, l0, stream, run, back,
                 partition, handled, seen, asked, faults>>

\* condition_disable: "order matters": triggers off, then slow updates.
Disable ==
  /\ Starts("disable")
  /\ \/ /\ Put(FALSE) /\ slow' = FALSE
        /\ Wait1("disable", partition) /\ UNCHANGED goal
     \/ PutFails(FALSE) /\ Fail /\ UNCHANGED <<slow, sent, inbox>>
  /\ UNCHANGED <<state, known, active, threads, stream, run, back, partition,
                 handled, seen, asked>>

-----------------------------------------------------------------------------
(***************************************************************************)
(* Transitions: the answers                                                *)
(***************************************************************************)

\* Slip: an answer counts whatever message it is to.
MatchesAny(m) == TRUE

\* wait_for_answers takes a message that has the ID it goes by; with none,
\* the first message sets it.
Matches(m) == ref = NoId \/ m.id = ref

Take(c) ==
  /\ back[c] # << >>
  /\ back' = [back EXCEPT ![c] = Tail(@)]

\* confirm_response, phase 1 or 2: the next message from a client.  An error
\* message is let through and ends the wait with 0, its sender, missing.  So
\* does an answer with an error, with none missing: condition_common checks
\* the answers then, get_phase2_replies does not.  A client that answers the
\* rollcall is active or not as the active detectors file has it.
Collect(c) ==
  /\ phase # 0 /\ ids # {}
  /\ Take(c)
  /\ LET m == Head(back[c])
         counts == m.kind # "error" /\ Matches(m)
     IN \/ /\ counts /\ (m.kind # "failed" \/ phase = 2)
           /\ ids' = CASE m.kind = "failed" -> {}
                       [] m.kind = "chunk" -> ids
                       [] OTHER -> ids \ {c}
           /\ ref' = m.id
           /\ known' = IF op = "rollcall" THEN known \cup {c} ELSE known
           /\ \/ op = "rollcall" /\ active' \in {active, active \cup {c}}
              \/ op # "rollcall" /\ UNCHANGED active
           /\ UNCHANGED <<goal, op, phase>>
        \/ /\ ~counts /\ (m.kind # "error" \/ op = "rollcall")
           /\ UNCHANGED <<goal, op, phase, known, active, ids, ref>>
        \/ /\ \/ counts /\ m.kind = "failed" /\ phase = 1
              \/ m.kind = "error" /\ op # "rollcall"
           /\ Fail
           /\ UNCHANGED <<known, active>>
  /\ UNCHANGED <<state, slow, threads, sent, world, inbox, partition, handled,
                 seen, asked, faults>>

\* The second that wait_for_answers waits is over in phase 2: the next call
\* goes by the ID of another first message.
NewReference ==
  /\ phase = 2 /\ ids # {} /\ ref # NoId
  /\ ref' = NoId
  /\ UNCHANGED <<state, goal, op, phase, known, active, ids, slow, threads, sent,
                 world, client, faults>>

\* Nothing is on its way that could still be an answer.
Silent ==
  \A c \in Clients : /\ inbox[c] = << >> /\ back[c] = << >>
                     /\ c \in Timed \cap partition => seen[c] = Len(stream)

\* Slip: the wait for the answers to a message has no end.
TimeoutPhase2Only ==
  /\ phase = 2 /\ ids # {}
  /\ IF Silent THEN UNCHANGED faults ELSE Fault
  /\ Fail
  /\ UNCHANGED <<state, known, active, slow, threads, sent, world, client>>

\* confirm_response gives up on some clients.  The rollcall goes on with
\* those it has.
Timeout ==
  /\ phase # 0 /\ ids # {}
  /\ IF Silent THEN UNCHANGED faults ELSE Fault
  /\ IF op = "rollcall" THEN Succeed(op) ELSE Fail /\ UNCHANGED state
  /\ UNCHANGED <<known, active, slow, threads, sent, world, client>>

\* All have answered the message of a transition without a phase 2.  dealloc
\* then clears PVs.
Done1 ==
  /\ phase = 1 /\ ids = {} /\ op \notin TwoPhase \cup {"alloc"}
  /\ \/ Succeed(op) /\ UNCHANGED faults
     \/ op = "dealloc" /\ Fault /\ Fail /\ UNCHANGED state
  /\ UNCHANGED <<known, active, slow, threads, sent, world, client>>

\* Slip: the triggers stay as they are.
DoneAllocKeepingTriggers ==
  /\ phase = 1 /\ ids = {} /\ op = "alloc"
  /\ active \cap Drps # {} /\ active \cap Tebs # {}
  /\ Succeed(op)
  /\ UNCHANGED <<known, active, slow, threads, sent, world, client, faults>>

\* alloc needs a DRP, then the triggers off, then other puts and a TEB.
DoneAlloc ==
  /\ phase = 1 /\ ids = {} /\ op = "alloc"
  /\ LET drp == active \cap Drps # {}
         teb == active \cap Tebs # {}
     IN \/ drp /\ teb /\ Put(FALSE) /\ Succeed(op)
        \/ ~drp /\ Fail /\ UNCHANGED <<state, l0, faults>>
        \/ drp /\ PutFails(FALSE) /\ Fail /\ UNCHANGED state
        \/ drp /\ ~teb /\ Put(FALSE) /\ Fail /\ UNCHANGED state
        \/ drp /\ Fault /\ l0' = FALSE /\ Fail /\ UNCHANGED state
  /\ UNCHANGED <<known, active, slow, threads, sent, stream, run, client>>

\* Phase 1 is complete: the transition goes into the timing stream.  (Before
\* configure and beginrun goes a ClearReadout, which no client answers.)
Insert ==
  /\ phase = 1 /\ ids = {} /\ op \in TwoPhase
  /\ stream' = Append(stream, op)
  /\ phase' = 2 /\ ref' = NoId /\ ids' = active \cap Timed
  /\ UNCHANGED <<state, goal, op, known, active, slow, threads, sent, l0, run,
                 client, faults>>

\* Phase 2 is complete.  enable lets the triggers through, then the state
\* changes and slow updates are enabled.
Done2 ==
  /\ phase = 2 /\ ids = {}
  /\ \/ op = "enable" /\ Put(TRUE) /\ Succeed(op) /\ slow' = TRUE
     \/ op = "enable" /\ PutFails(TRUE) /\ Fail /\ UNCHANGED <<state, slow>>
     \/ op # "enable" /\ Succeed(op) /\ UNCHANGED <<l0, slow, faults>>
  /\ UNCHANGED <<known, active, threads, sent, stream, run, client>>

-----------------------------------------------------------------------------
(***************************************************************************)
(* The main loop's other work, and the other threads                       *)
(***************************************************************************)

\* service_status: front_rep has nothing.  Only a chunk request matters, and
\* only when running.
ServiceStatus(c) ==
  /\ Idle /\ ~slowReq
  /\ Take(c)
  /\ \/ /\ Head(back[c]).kind = "chunk" /\ state = "running"
        /\ sent + 2 <= MaxSent
        /\ goal' = "chunk"
     \/ /\ ~(Head(back[c]).kind = "chunk" /\ state = "running")
        /\ UNCHANGED goal
  /\ UNCHANGED <<state, op, phase, known, active, ids, ref, slow, threads, sent,
                 world, inbox, partition, handled, seen, asked, faults>>

\* slow_update_func: the flag is set, a request is sent.
SlowRequest ==
  /\ slow /\ ~slowReq
  /\ slowReq' = TRUE
  /\ UNCHANGED <<manager, recording, fast, sent, world, client, faults>>

\* Slip: the flag is not looked at again.
SlowAllowedAnyhow == state = "running"

\* The request is dropped if slow updates have been disabled since.
SlowAllowed == slow /\ state = "running"

\* service_requests, slowupdate: put into the timing stream, or not.
SlowUpdate ==
  /\ Idle /\ slowReq
  /\ slowReq' = FALSE
  /\ \/ /\ SlowAllowed /\ Len(stream) < MaxSlow
        /\ stream' = Append(stream, "slowupdate") /\ UNCHANGED faults
     \/ SlowAllowed /\ Fault /\ UNCHANGED stream
     \/ ~SlowAllowed /\ UNCHANGED <<stream, faults>>
  /\ UNCHANGED <<manager, recording, fast, sent, l0, run, client>>

\* handle_setrecord in the fast thread: the state is checked, ...
CheckRecord ==
  /\ Records /\ fast = "idle"
  /\ state \notin {"starting", "paused", "running"}
  /\ fast' = "checked"
  /\ UNCHANGED <<manager, recording, slowReq, sent, world, client, faults>>

\* ... and the flag is set.
SetRecord ==
  /\ fast = "checked"
  /\ fast' = "idle"
  /\ recording' = ~recording
  /\ UNCHANGED <<manager, slowReq, sent, world, client, faults>>

-----------------------------------------------------------------------------
(***************************************************************************)
(* The clients                                                             *)
(***************************************************************************)

Reply(c, kind, id) ==
  back' = [back EXCEPT ![c] = Append(@, [kind |-> kind, id |-> id])]

\* The clients subscribed to "partition" after c has handled such a message.
Subscribed(c, key) ==
  CASE key = "alloc" -> partition \cup {c}
    [] key \in {"dealloc", "reset"} -> partition \ {c}
    [] OTHER -> partition

\* CollectionApp::run(): the handler of the next message.  A client follows
\* the timing stream from its allocation on.
Handle(c) ==
  /\ inbox[c] # << >>
  /\ LET m == Head(inbox[c])
     IN /\ inbox' = [inbox EXCEPT ![c] = Tail(@)]
        /\ handled' = [handled EXCEPT ![c] = m]
        /\ partition' = Subscribed(c, m.key)
        /\ seen' = IF m.key \in {"alloc", "reset"}
                     THEN [seen EXCEPT ![c] = Len(stream)] ELSE seen
        /\ asked' = IF m.key = "beginrun" THEN asked \ {c} ELSE asked
        /\ \/ m.key = "reset" /\ UNCHANGED <<back, faults>>
           \/ m.key # "reset" /\ Reply(c, "reply", <<1, m.id>>) /\ UNCHANGED faults
           \/ /\ m.key \in TwoPhase \cup {"connect"}
              /\ Fault /\ Reply(c, "failed", <<1, m.id>>)
  /\ UNCHANGED <<manager, threads, sent, world>>

\* EbReceiver::process(): a transition comes out of the timing stream.  With
\* enable the files are reopened if that was asked for.
Timing(c) ==
  /\ c \in Timed \cap partition /\ seen[c] < Len(stream)
  /\ seen' = [seen EXCEPT ![c] = @ + 1]
  /\ \/ stream[seen[c] + 1] = "slowupdate" /\ UNCHANGED back
     \/ /\ stream[seen[c] + 1] # "slowupdate"
        /\ Reply(c, "timing", <<2, seen[c] + 1>>)
  /\ asked' = IF stream[seen[c] + 1] = "enable" THEN asked \ {c} ELSE asked
  /\ UNCHANGED <<manager, threads, sent, world, inbox, partition, handled, faults>>

\* EbReceiver::process(): data come in, are recorded, and the file grows too
\* large.
ChunkRequest(c) ==
  /\ run /\ c \in (Drps \cap partition) \ asked
  /\ seen[c] # 0 /\ stream[seen[c]] \in {"enable", "slowupdate"}
  /\ asked' = asked \cup {c}
  /\ Fault
  /\ Reply(c, "chunk", AsyncId)
  /\ UNCHANGED <<manager, threads, sent, world, inbox, partition, handled, seen>>

\* An asynchronous error message.
AsyncError(c) ==
  /\ Fault
  /\ Reply(c, "error", AsyncId)
  /\ UNCHANGED <<manager, threads, sent, world, inbox, partition, handled, seen,
                 asked>>

-----------------------------------------------------------------------------
\* The transitions the main thread starts.
Start ==
  \/ Reset
  \/ Rollcall
  \/ Alloc
  \/ \E t \in TwoPhase \cup {"dealloc", "disconnect"} : Plain(t)
  \/ Connect
  \/ BeginRun
  \/ EndRun
  \/ Disable

\* What it does until the transition is over.
Finish ==
  \/ RollcallAgain
  \/ \E c \in Clients : Collect(c)
  \/ NewReference
  \/ Timeout
  \/ Done1
  \/ DoneAlloc
  \/ Insert
  \/ Done2

Next ==
  \/ Start
  \/ Finish
  \/ \E g \in Goals : SetState(g)
  \/ SelectPlatform
  \/ \E c \in Clients : ServiceStatus(c)
  \/ SlowRequest
  \/ SlowUpdate
  \/ CheckRecord
  \/ SetRecord
  \/ \E c \in Clients : Handle(c)
  \/ \E c \in Clients : Timing(c)
  \/ \E c \in Clients : ChunkRequest(c)
  \/ \E c \in Clients : AsyncError(c)

Spec == Init /\ [][Next]_vars

\* The main thread goes on with what it has begun, its timers run out, and
\* the clients serve their sockets and read the timing stream.
Fairness ==
  /\ WF_vars(goal # "none" /\ Start)
  /\ WF_vars(Finish)
  /\ \A c \in Clients : WF_vars(Handle(c)) /\ WF_vars(Timing(c))

FairSpec == Spec /\ Fairness

-----------------------------------------------------------------------------
(***************************************************************************)
(* Properties                                                              *)
(***************************************************************************)

Message == [key : TwoPhase \cup {"reset", "rollcall", "alloc", "dealloc",
                                 "connect", "disconnect"},
            id : 0 .. MaxSent]
Answer == [kind : {"reply", "failed", "timing", "chunk", "error"},
           id : (0 .. 2) \X Nat]

\* The type of the state.  Every active client is one the rollcall has found.
TypeOK ==
  /\ state \in States
  /\ goal \in States \cup {"none", "chunk"}
  /\ op \in TwoPhase \cup {"none", "rollcall", "alloc", "dealloc", "connect",
                            "disconnect"}
  /\ phase \in 0 .. 2
  /\ known \subseteq Clients /\ active \subseteq known
  /\ ids \subseteq Clients
  /\ ref \in (0 .. 2) \X Nat
  /\ slow \in BOOLEAN /\ recording \in BOOLEAN /\ slowReq \in BOOLEAN
  /\ fast \in {"idle", "checked"}
  /\ sent \in 0 .. MaxSent
  /\ l0 \in BOOLEAN /\ run \in BOOLEAN
  /\ stream \in Seq(TwoPhase \cup {"slowupdate"})
  /\ inbox \in [Clients -> Seq(Message)]
  /\ back \in [Clients -> Seq(Answer)]
  /\ partition \subseteq Clients
  /\ handled \in [Clients -> Message]
  /\ seen \in [Clients -> Nat]
  /\ asked \subseteq Clients
  /\ faults \in 0 .. MaxFaults

Inserts == Len(stream') > Len(stream) /\ stream'[Len(stream')] # "slowupdate"

\* A transition goes into the timing stream only when every active client has
\* handled its phase 1 message: late answers to earlier messages never count
\* (the msg_id that condition_common waits for).
InsertedWhenHandled ==
  [][Inserts => \A c \in active : handled[c] = [key |-> op, id |-> sent]]_vars

\* Triggers are off when a transition goes into the timing stream: enable
\* turns them on after, disable turns them off before ("order matters").
QuietTransitions == [][Inserts => ~l0]_vars

\* Triggers are on only in running, when the stream and all clients are
\* enabled; or in reset and unallocated, when the XPM was not reached or was
\* left on.
TriggersNeedEnable ==
  l0 => \/ state \in {"reset", "unallocated"}
        \/ /\ state = "running"
           /\ stream[Len(stream)] \in {"enable", "slowupdate"}
           /\ \A c \in active : handled[c].key = "enable"

\* A slow update is in the stream only between enable and disable, whatever
\* the slow update thread had read when it sent its request.
SlowUpdatesEnabled ==
  \A i \in DOMAIN stream :
    stream[i] = "slowupdate" =>
      i > 1 /\ stream[i - 1] \in {"enable", "slowupdate"}

\* handle_setstate comes to an end, at its goal or with an error, and so does
\* handle_chunkrequest.
RequestsEnd == goal # "none" ~> goal = "none"
=============================================================================
