---------------------------- MODULE ControlProofs ----------------------------
(***************************************************************************)
(* Proofs about control and its clients, for any clients, goals and bounds *)
(* and whichever puts fail.  What is proved of the triggers assumes that   *)
(* no put that was reported as failed takes effect later.                  *)
(***************************************************************************)
EXTENDS Control, TLAPS

-----------------------------------------------------------------------------
(***************************************************************************)
(* The inductive invariant                                                 *)
(***************************************************************************)

\* The condition that is running: one that the state allows.  In phase 1 it
\* goes by the ID of its own message.
OpInv ==
  /\ phase = 0 <=> op = "none"
  /\ phase = 2 => op \in TwoPhase
  /\ op # "none" => \E s \in States : <<op, s>> \in Legal(state)
  /\ phase = 1 => ref = <<1, sent>>

\* m comes after k, or is the same rollcall over again.
After(m, k) == m.id > k.id \/ (m = k /\ m.key = "rollcall")

\* A client's messages are in order, behind the one it has handled, and those
\* with the last ID are of the transition that is running.
InboxInv ==
  \A c \in Clients :
    /\ handled[c].id <= sent
    /\ op # "none" /\ handled[c].id = sent => handled[c].key = op
    /\ \A i \in DOMAIN inbox[c] :
         /\ inbox[c][i].id <= sent
         /\ op # "none" /\ inbox[c][i].id = sent => inbox[c][i].key = op
         /\ After(inbox[c][i], handled[c])
         /\ \A j \in DOMAIN inbox[c] : i < j => After(inbox[c][j], inbox[c][i])

\* A client answers only what it has handled.
BackInv ==
  \A c \in Clients : \A i \in DOMAIN back[c] :
    back[c][i].id[1] = 1 => back[c][i].id[2] <= handled[c].id

\* The active clients that are no longer waited for in phase 1 have handled
\* its message, and no other one since.
PhaseInv ==
  phase # 0 /\ op # "rollcall" =>
    \A c \in active \ (IF phase = 1 THEN ids ELSE {}) :
      handled[c] = [key |-> op, id |-> sent]

\* What went into the timing stream last.
Last == stream[Len(stream)]

\* The stream takes triggers and slow updates.
Enabled == stream # << >> /\ Last \in {"enable", "slowupdate"}

\* In phase 2 the transition is what went into the stream last.
StreamInv == phase = 2 => stream # << >> /\ Last = op

\* Slow updates are enabled from the end of enable to the start of disable.
SlowInv == slow => state = "running" /\ op = "none" /\ Enabled

IInv ==
  /\ TypeOK /\ OpInv /\ InboxInv /\ BackInv /\ PhaseInv /\ StreamInv /\ SlowInv
  /\ SlowUpdatesEnabled

\* Between the end of enable and the start of disable, and no client has
\* handled anything since.
Triggered ==
  /\ state = "running" /\ op = "none" /\ Enabled
  /\ \A c \in active : handled[c] = [key |-> "enable", id |-> sent]

TrigInv == l0 => state \in {"reset", "unallocated"} \/ Triggered

-----------------------------------------------------------------------------
(***************************************************************************)
(* The machine                                                             *)
(***************************************************************************)

\* ControlDef.states read off row by row: where a transition is allowed and
\* where it leads.
LEMMA LegalTable ==
  ASSUME NEW t, NEW s, NEW u
  PROVE  <<t, u>> \in Legal(s) <=>
           \/ t = "reset" /\ u = "reset"
           \/ t = "rollcall" /\ s \in {"reset", "unallocated"} /\ u = "unallocated"
           \/ t = "alloc" /\ s = "unallocated" /\ u = "allocated"
           \/ t = "connect" /\ s = "allocated" /\ u = "connected"
           \/ t = "configure" /\ s = "connected" /\ u = "configured"
           \/ t = "beginrun" /\ s = "configured" /\ u = "starting"
           \/ t = "beginstep" /\ s = "starting" /\ u = "paused"
           \/ t = "enable" /\ s = "paused" /\ u = "running"
           \/ t = "dealloc" /\ s = "allocated" /\ u = "unallocated"
           \/ t = "disconnect" /\ s = "connected" /\ u = "allocated"
           \/ t = "unconfigure" /\ s = "configured" /\ u = "connected"
           \/ t = "endrun" /\ s = "starting" /\ u = "configured"
           \/ t = "endstep" /\ s = "paused" /\ u = "starting"
           \/ t = "disable" /\ s = "running" /\ u = "paused"
<1>1. /\ DOMAIN Ups = 1 .. 6 /\ DOMAIN Downs = 1 .. 6
      /\ \A j \in 1 .. 6 : j = 1 \/ j = 2 \/ j = 3 \/ j = 4 \/ j = 5 \/ j = 6
  BY DEF Ups, Downs
<1>2. <<t, u>> \in {<<Ups[i], Levels[i + 1]>> : i \in {j \in DOMAIN Ups : Levels[j] = s}}
      <=> \E i \in 1 .. 6 : t = Ups[i] /\ u = Levels[i + 1] /\ s = Levels[i]
  BY <1>1
<1>3. <<t, u>> \in {<<Downs[i], Levels[i]>> : i \in {j \in DOMAIN Downs : Levels[j + 1] = s}}
      <=> \E i \in 1 .. 6 : t = Downs[i] /\ u = Levels[i] /\ s = Levels[i + 1]
  BY <1>1
<1>4. (\E i \in 1 .. 6 : t = Ups[i] /\ u = Levels[i + 1] /\ s = Levels[i])
      <=> \/ t = "alloc" /\ s = "unallocated" /\ u = "allocated"
          \/ t = "connect" /\ s = "allocated" /\ u = "connected"
          \/ t = "configure" /\ s = "connected" /\ u = "configured"
          \/ t = "beginrun" /\ s = "configured" /\ u = "starting"
          \/ t = "beginstep" /\ s = "starting" /\ u = "paused"
          \/ t = "enable" /\ s = "paused" /\ u = "running"
  BY <1>1 DEF Ups, Levels
<1>5. (\E i \in 1 .. 6 : t = Downs[i] /\ u = Levels[i] /\ s = Levels[i + 1])
      <=> \/ t = "dealloc" /\ s = "allocated" /\ u = "unallocated"
          \/ t = "disconnect" /\ s = "connected" /\ u = "allocated"
          \/ t = "unconfigure" /\ s = "configured" /\ u = "connected"
          \/ t = "endrun" /\ s = "starting" /\ u = "configured"
          \/ t = "endstep" /\ s = "paused" /\ u = "starting"
          \/ t = "disable" /\ s = "running" /\ u = "paused"
  BY <1>1 DEF Downs, Levels
<1> QED
  BY <1>2, <1>3, <1>4, <1>5 DEF Legal

\* A condition that returns True leads where the table says.
LEMMA SucceedNext ==
  ASSUME NEW t, \E s \in States : <<t, s>> \in Legal(state), Succeed(t)
  PROVE  /\ state' \in States /\ <<t, state'>> \in Legal(state)
         /\ goal' \in {goal, "none"}
         /\ op' = "none" /\ phase' = 0 /\ ref' = NoId /\ ids' = {}
BY DEF Succeed

-----------------------------------------------------------------------------
(***************************************************************************)
(* Types                                                                   *)
(***************************************************************************)

\* The keys of phase 1 messages.
Keys == TwoPhase \cup {"reset", "rollcall", "alloc", "dealloc", "connect",
                       "disconnect"}

LEMMA PublishType ==
  ASSUME TypeOK, NEW key \in Keys, NEW to, Publish(key, to)
  PROVE  /\ sent' = sent + 1 /\ sent' \in 0 .. MaxSent
         /\ inbox' \in [Clients -> Seq(Message)]
<1>1. sent' = sent + 1 /\ sent' \in 0 .. MaxSent
  BY ControlAssumption DEF TypeOK, Publish, ControlAssumption
<1>2. [key |-> key, id |-> sent + 1] \in Message
  BY <1>1 DEF Message, Keys, Publish
<1> QED
  BY <1>1, <1>2 DEF TypeOK, Publish

LEMMA Wait1Type ==
  ASSUME TypeOK, NEW t \in Keys \ {"reset"}, NEW to, Wait1(t, to)
  PROVE  /\ sent' \in 0 .. MaxSent
         /\ inbox' \in [Clients -> Seq(Message)]
         /\ op' = t /\ phase' \in 0 .. 2 /\ ref' \in (0 .. 2) \X Nat
         /\ ids' \subseteq Clients
<1>1. Publish(t, to)
  BY DEF Wait1
<1>2. sent' = sent + 1 /\ sent' \in 0 .. MaxSent /\ inbox' \in [Clients -> Seq(Message)]
  BY <1>1, PublishType
<1> QED
  BY <1>2, ControlAssumption DEF Wait1, TypeOK, ControlAssumption

LEMMA FailType ==
  ASSUME Fail
  PROVE  /\ op' = "none" /\ goal' = "none" /\ phase' = 0
         /\ ref' \in (0 .. 2) \X Nat /\ ids' = {}
BY DEF Fail, NoId

LEMMA SucceedType ==
  ASSUME TypeOK, NEW t, \E s \in States : <<t, s>> \in Legal(state), Succeed(t)
  PROVE  /\ state' \in States
         /\ goal' \in States \cup {"none", "chunk"}
         /\ op' = "none" /\ phase' = 0
         /\ ref' \in (0 .. 2) \X Nat /\ ids' = {}
<1>1. /\ state' \in States /\ goal' \in {goal, "none"}
      /\ op' = "none" /\ phase' = 0 /\ ref' = NoId /\ ids' = {}
  BY SucceedNext
<1> QED
  BY <1>1 DEF TypeOK, NoId

LEMMA ReplyType ==
  ASSUME TypeOK, NEW c \in Clients, NEW kind, NEW id, Reply(c, kind, id),
         kind \in {"reply", "failed", "timing", "chunk", "error"},
         id \in (0 .. 2) \X Nat
  PROVE  back' \in [Clients -> Seq(Answer)]
<1>1. [kind |-> kind, id |-> id] \in Answer
  BY DEF Answer
<1> QED
  BY <1>1 DEF TypeOK, Reply

LEMMA TakeType ==
  ASSUME TypeOK, NEW c \in Clients, Take(c)
  PROVE  /\ back' \in [Clients -> Seq(Answer)]
         /\ Head(back[c]) \in Answer
BY DEF TypeOK, Take

LEMMA FaultType ==
  ASSUME TypeOK, Fault
  PROVE  faults' \in 0 .. MaxFaults
BY ControlAssumption DEF TypeOK, Fault, ControlAssumption

LEMMA PutType ==
  ASSUME TypeOK, NEW l \in BOOLEAN, Put(l) \/ PutFails(l)
  PROVE  /\ l0' \in BOOLEAN /\ faults' \in 0 .. MaxFaults
<1>1. faults' \in 0 .. MaxFaults
  BY FaultType DEF TypeOK, Put, PutFails
<1>2. l0' \in BOOLEAN
  BY Zenon DEF TypeOK, Put, PutFails
<1> QED BY <1>1, <1>2

LEMMA InitType == Init => TypeOK
<1> SUFFICES ASSUME Init PROVE TypeOK
  OBVIOUS
<1>1. /\ slow \in BOOLEAN /\ recording \in BOOLEAN /\ slowReq \in BOOLEAN
      /\ l0 \in BOOLEAN /\ run \in BOOLEAN
  <2>1. recording \in BOOLEAN
    BY Zenon DEF Init
  <2>2. l0 \in BOOLEAN
    BY Zenon DEF Init
  <2> QED BY <2>1, <2>2, Zenon DEF Init
<1>2. handled \in [Clients -> Message]
  BY ControlAssumption DEF Init, Message, TwoPhase, ControlAssumption
<1>3. /\ inbox \in [Clients -> Seq(Message)] /\ back \in [Clients -> Seq(Answer)]
      /\ seen \in [Clients -> Nat] /\ stream \in Seq(TwoPhase \cup {"slowupdate"})
  BY DEF Init
<1>4. state \in States /\ ref \in (0 .. 2) \X Nat
  BY ControlAssumption DEF Init, States, NoId, ControlAssumption
<1> QED
  BY <1>1, <1>2, <1>3, <1>4, ControlAssumption DEF Init, TypeOK, ControlAssumption

-----------------------------------------------------------------------------
LEMMA TypeNext ==
  ASSUME TypeOK, OpInv, [Next]_vars
  PROVE  TypeOK'
<1> USE DEF manager, threads, world, client
<1>1. CASE Reset
  <2>1. sent' \in 0 .. MaxSent /\ inbox' \in [Clients -> Seq(Message)]
    BY <1>1, PublishType DEF Reset, Keys
  <2>2. /\ state' \in States /\ goal' \in States \cup {"none", "chunk"}
        /\ op' = "none" /\ phase' = 0 /\ ref' \in (0 .. 2) \X Nat /\ ids' = {}
    BY <1>1, SucceedType DEF Reset, Starts
  <2>3. l0' \in BOOLEAN /\ faults' \in 0 .. MaxFaults
    BY <1>1, PutType DEF Reset, TypeOK
  <2>4. /\ slow' = FALSE /\ known' = {} /\ active' = {}
        /\ UNCHANGED <<threads, stream, run, back, partition, handled, seen, asked>>
    BY <1>1 DEF Reset
  <2>5. /\ slow' \in BOOLEAN /\ recording' \in BOOLEAN /\ slowReq' \in BOOLEAN
        /\ run' \in BOOLEAN
    BY <2>4, Zenon DEF TypeOK
  <2> QED
    BY <2>1, <2>2, <2>3, <2>4, <2>5 DEF TypeOK
<1>2. CASE Rollcall
  <2>1. sent' = sent + 1 /\ sent' \in 0 .. MaxSent /\ inbox' \in [Clients -> Seq(Message)]
    BY <1>2, PublishType DEF Rollcall, Keys
  <2> QED
    BY <1>2, <2>1, ControlAssumption DEF Rollcall, TypeOK, ControlAssumption
<1>3. CASE Alloc
  <2>1. /\ sent' \in 0 .. MaxSent /\ inbox' \in [Clients -> Seq(Message)]
        /\ op' = "alloc" /\ phase' \in 0 .. 2 /\ ref' \in (0 .. 2) \X Nat
        /\ ids' \subseteq Clients
    BY <1>3, Wait1Type DEF Alloc, Keys
  <2> QED
    BY <1>3, <2>1 DEF Alloc, TypeOK
<1>4. ASSUME NEW t \in TwoPhase \cup {"dealloc", "disconnect"}, Plain(t)
      PROVE  TypeOK'
  <2>1. /\ sent' \in 0 .. MaxSent /\ inbox' \in [Clients -> Seq(Message)]
        /\ op' = t /\ phase' \in 0 .. 2 /\ ref' \in (0 .. 2) \X Nat
        /\ ids' \subseteq Clients
    BY <1>4, Wait1Type DEF Plain, Keys, TwoPhase
  <2> QED
    BY <1>4, <2>1 DEF Plain, TypeOK
<1>5. CASE Connect
  <2>1. CASE Wait1("connect", partition) /\ UNCHANGED <<goal, faults>>
    <3>1. /\ sent' \in 0 .. MaxSent /\ inbox' \in [Clients -> Seq(Message)]
          /\ op' = "connect" /\ phase' \in 0 .. 2 /\ ref' \in (0 .. 2) \X Nat
          /\ ids' \subseteq Clients
      BY <2>1, Wait1Type DEF Keys
    <3> QED
      BY <1>5, <2>1, <3>1 DEF Connect, TypeOK
  <2>2. CASE Fault /\ Fail /\ UNCHANGED <<sent, inbox>>
    BY <1>5, <2>2, FaultType, FailType, SMTT(30) DEF Connect, TypeOK
  <2> QED
    BY <1>5, <2>1, <2>2 DEF Connect
<1>6. CASE BeginRun
  <2>1. CASE /\ Wait1("beginrun", partition) /\ run' = (run \/ recording)
             /\ UNCHANGED <<goal, faults>>
    <3>1. /\ sent' \in 0 .. MaxSent /\ inbox' \in [Clients -> Seq(Message)]
          /\ op' = "beginrun" /\ phase' \in 0 .. 2 /\ ref' \in (0 .. 2) \X Nat
          /\ ids' \subseteq Clients
      BY <2>1, Wait1Type DEF Keys, TwoPhase
    <3>2. run' \in BOOLEAN
      BY <2>1
    <3> QED
      BY <1>6, <2>1, <3>1, <3>2 DEF BeginRun, TypeOK, TwoPhase
  <2>2. CASE Fault /\ Fail /\ UNCHANGED <<run, sent, inbox>>
    BY <1>6, <2>2, FaultType, FailType DEF BeginRun, TypeOK
  <2> QED
    BY <1>6, <2>1, <2>2 DEF BeginRun
<1>7. CASE EndRun
  <2>1. /\ sent' \in 0 .. MaxSent /\ inbox' \in [Clients -> Seq(Message)]
        /\ op' = "endrun" /\ phase' \in 0 .. 2 /\ ref' \in (0 .. 2) \X Nat
        /\ ids' \subseteq Clients
    BY <1>7, Wait1Type DEF EndRun, Keys, TwoPhase
  <2>2. run' \in BOOLEAN
    BY <1>7, Zenon DEF EndRun, TypeOK
  <2>3. faults' \in 0 .. MaxFaults
    BY <1>7, FaultType DEF EndRun, TypeOK
  <2> QED
    BY <1>7, <2>1, <2>2, <2>3 DEF EndRun, TypeOK, TwoPhase
<1>8. CASE Disable
  <2>1. l0' \in BOOLEAN /\ faults' \in 0 .. MaxFaults
    BY <1>8, PutType DEF Disable
  <2>2. CASE slow' = FALSE /\ Wait1("disable", partition) /\ UNCHANGED goal
    <3>1. /\ sent' \in 0 .. MaxSent /\ inbox' \in [Clients -> Seq(Message)]
          /\ op' = "disable" /\ phase' \in 0 .. 2 /\ ref' \in (0 .. 2) \X Nat
          /\ ids' \subseteq Clients
      BY <2>2, Wait1Type DEF Keys, TwoPhase
    <3> QED
      BY <1>8, <2>1, <2>2, <3>1 DEF Disable, TypeOK, TwoPhase
  <2>3. CASE Fail /\ UNCHANGED <<slow, sent, inbox>>
    BY <1>8, <2>1, <2>3, FailType DEF Disable, TypeOK
  <2> QED
    BY <1>8, <2>2, <2>3 DEF Disable
<1>9. CASE RollcallAgain
  <2>1. [key |-> "rollcall", id |-> sent] \in Message
    BY DEF TypeOK, Message
  <2>2. inbox' \in [Clients -> Seq(Message)]
    BY <1>9, <2>1 DEF RollcallAgain, TypeOK
  <2> QED
    BY <1>9, <2>2, FaultType DEF RollcallAgain, TypeOK
<1>10. ASSUME NEW c \in Clients, Collect(c)
       PROVE  TypeOK'
  <2>1. back' \in [Clients -> Seq(Answer)] /\ Head(back[c]) \in Answer
    BY <1>10, TakeType DEF Collect
  <2>2. CASE Fail /\ UNCHANGED <<known, active>>
    BY <1>10, <2>1, <2>2, FailType, SMTT(30) DEF Collect, TypeOK
  <2>3. CASE UNCHANGED <<goal, op, phase, known, active, ids, ref>>
    BY <1>10, <2>1, <2>3, SMTT(30) DEF Collect, TypeOK
  <2>4. CASE /\ ids' = CASE Head(back[c]).kind = "failed" -> {}
                         [] Head(back[c]).kind = "chunk" -> ids
                         [] OTHER -> ids \ {c}
             /\ ref' = Head(back[c]).id
             /\ known' = IF op = "rollcall" THEN known \cup {c} ELSE known
             /\ \/ op = "rollcall" /\ active' \in {active, active \cup {c}}
                \/ op # "rollcall" /\ UNCHANGED active
             /\ UNCHANGED <<goal, op, phase>>
    <3>1. ids' \subseteq Clients /\ known' \subseteq Clients /\ active' \subseteq known'
      BY <2>4 DEF TypeOK
    <3>2. ref' \in (0 .. 2) \X Nat
      BY <2>1, <2>4 DEF Answer
    <3> QED
      BY <1>10, <2>1, <2>4, <3>1, <3>2, SMTT(30) DEF Collect, TypeOK
  <2> QED
    BY <1>10, <2>2, <2>3, <2>4 DEF Collect
<1>11. CASE NewReference
  BY <1>11 DEF NewReference, TypeOK, NoId
<1>12. CASE Timeout
  <2>1. faults' \in 0 .. MaxFaults
    BY <1>12, FaultType DEF Timeout, TypeOK
  <2>2. op # "none"
    BY <1>12 DEF Timeout, OpInv
  <2>3. CASE Succeed(op)
    <3>1. /\ state' \in States /\ goal' \in States \cup {"none", "chunk"}
          /\ op' = "none" /\ phase' = 0 /\ ref' \in (0 .. 2) \X Nat /\ ids' = {}
      BY <2>2, <2>3, SucceedType DEF OpInv
    <3> QED
      BY <1>12, <2>1, <3>1 DEF Timeout, TypeOK
  <2>4. CASE Fail /\ UNCHANGED state
    BY <1>12, <2>1, <2>4, FailType DEF Timeout, TypeOK
  <2> QED
    BY <1>12, <2>3, <2>4 DEF Timeout
<1>13. CASE Done1
  <2>1. faults' \in 0 .. MaxFaults
    BY <1>13, FaultType DEF Done1, TypeOK
  <2>2. op # "none"
    BY <1>13 DEF Done1, OpInv
  <2>3. CASE Succeed(op)
    <3>1. /\ state' \in States /\ goal' \in States \cup {"none", "chunk"}
          /\ op' = "none" /\ phase' = 0 /\ ref' \in (0 .. 2) \X Nat /\ ids' = {}
      BY <2>2, <2>3, SucceedType DEF OpInv
    <3> QED
      BY <1>13, <2>1, <3>1 DEF Done1, TypeOK
  <2>4. CASE Fail /\ UNCHANGED state
    BY <1>13, <2>1, <2>4, FailType DEF Done1, TypeOK
  <2> QED
    BY <1>13, <2>3, <2>4 DEF Done1
<1>14. CASE DoneAlloc
  <2>1. l0' \in BOOLEAN /\ faults' \in 0 .. MaxFaults
    BY <1>14, FaultType, PutType DEF DoneAlloc, TypeOK
  <2>2. op # "none"
    BY <1>14 DEF DoneAlloc
  <2>3. CASE Succeed(op)
    <3>1. /\ state' \in States /\ goal' \in States \cup {"none", "chunk"}
          /\ op' = "none" /\ phase' = 0 /\ ref' \in (0 .. 2) \X Nat /\ ids' = {}
      BY <2>2, <2>3, SucceedType DEF OpInv
    <3> QED
      BY <1>14, <2>1, <3>1 DEF DoneAlloc, TypeOK
  <2>4. CASE Fail /\ UNCHANGED state
    BY <1>14, <2>1, <2>4, FailType DEF DoneAlloc, TypeOK
  <2> QED
    BY <1>14, <2>3, <2>4 DEF DoneAlloc
<1>15. CASE Insert
  <2>1. stream' \in Seq(TwoPhase \cup {"slowupdate"})
    BY <1>15 DEF Insert, TypeOK
  <2> QED
    BY <1>15, <2>1 DEF Insert, TypeOK, NoId
<1>16. CASE Done2
  <2>1. l0' \in BOOLEAN /\ faults' \in 0 .. MaxFaults
    BY <1>16, PutType DEF Done2, TypeOK
  <2>2. op # "none"
    BY <1>16 DEF Done2, OpInv
  <2>3. slow' \in BOOLEAN
    BY <1>16, Zenon DEF Done2, TypeOK
  <2>4. CASE Succeed(op)
    <3>1. /\ state' \in States /\ goal' \in States \cup {"none", "chunk"}
          /\ op' = "none" /\ phase' = 0 /\ ref' \in (0 .. 2) \X Nat /\ ids' = {}
      BY <2>2, <2>4, SucceedType DEF OpInv
    <3> QED
      BY <1>16, <2>1, <2>3, <3>1 DEF Done2, TypeOK
  <2>5. CASE Fail /\ UNCHANGED state
    BY <1>16, <2>1, <2>3, <2>5, FailType DEF Done2, TypeOK
  <2> QED
    BY <1>16, <2>4, <2>5 DEF Done2
<1>17. ASSUME NEW g \in Goals, SetState(g)
       PROVE  TypeOK'
  BY <1>17, ControlAssumption DEF SetState, TypeOK, ControlAssumption
<1>18. CASE SelectPlatform
  BY <1>18 DEF SelectPlatform, TypeOK
<1>19. ASSUME NEW c \in Clients, ServiceStatus(c)
       PROVE  TypeOK'
  BY <1>19, TakeType DEF ServiceStatus, TypeOK
<1>20. CASE SlowRequest
  BY <1>20 DEF SlowRequest, TypeOK
<1>21. CASE SlowUpdate
  <2>1. stream' \in Seq(TwoPhase \cup {"slowupdate"})
    <3>1. stream \in Seq(TwoPhase \cup {"slowupdate"})
      BY DEF TypeOK
    <3>2. stream' = Append(stream, "slowupdate") \/ stream' = stream
      BY <1>21 DEF SlowUpdate
    <3> QED
      BY <3>1, <3>2
  <2> QED
    BY <1>21, <2>1, FaultType, ZenonT(30) DEF SlowUpdate, TypeOK
<1>22. CASE CheckRecord \/ SetRecord
  <2>1. recording' \in BOOLEAN
    BY <1>22, Zenon DEF CheckRecord, SetRecord, TypeOK
  <2> QED
    BY <1>22, <2>1 DEF CheckRecord, SetRecord, TypeOK
<1>23. ASSUME NEW c \in Clients, Handle(c)
       PROVE  TypeOK'
  <2> DEFINE m == Head(inbox[c])
  <2>1. m \in Message /\ inbox' \in [Clients -> Seq(Message)]
    BY <1>23 DEF Handle, TypeOK
  <2>2. handled' \in [Clients -> Message]
    BY <1>23, <2>1 DEF Handle, TypeOK
  <2>3. partition' \subseteq Clients /\ asked' \subseteq Clients
    BY <1>23 DEF Handle, Subscribed, TypeOK
  <2>4. seen' \in [Clients -> Nat]
    BY <1>23 DEF Handle, TypeOK
  <2>5. <<1, m.id>> \in (0 .. 2) \X Nat
    BY <2>1, ControlAssumption DEF Message, ControlAssumption
  <2>6. back' \in [Clients -> Seq(Answer)] /\ faults' \in 0 .. MaxFaults
    BY <1>23, <2>5, ReplyType, FaultType DEF Handle, TypeOK
  <2> QED
    BY <1>23, <2>1, <2>2, <2>3, <2>4, <2>6, SMTT(30) DEF Handle, TypeOK
<1>24. ASSUME NEW c \in Clients, Timing(c)
       PROVE  TypeOK'
  <2>1. seen' \in [Clients -> Nat] /\ <<2, seen[c] + 1>> \in (0 .. 2) \X Nat
    BY <1>24 DEF Timing, TypeOK
  <2>2. back' \in [Clients -> Seq(Answer)]
    BY <1>24, <2>1, ReplyType DEF Timing, TypeOK
  <2> QED
    BY <1>24, <2>1, <2>2, SMTT(30) DEF Timing, TypeOK
<1>25. ASSUME NEW c \in Clients, ChunkRequest(c) \/ AsyncError(c)
       PROVE  TypeOK'
  <2>1. back' \in [Clients -> Seq(Answer)] /\ faults' \in 0 .. MaxFaults
    BY <1>25, ReplyType, FaultType DEF ChunkRequest, AsyncError, AsyncId
  <2> QED
    BY <1>25, <2>1 DEF ChunkRequest, AsyncError, TypeOK
<1>26. CASE UNCHANGED vars
  BY <1>26 DEF vars, TypeOK
<1> QED
  BY <1>1, <1>2, <1>3, <1>4, <1>5, <1>6, <1>7, <1>8, <1>9, <1>10, <1>11, <1>12,
     <1>13, <1>14, <1>15, <1>16, <1>17, <1>18, <1>19, <1>20, <1>21, <1>22, <1>23,
     <1>24, <1>25, <1>26 DEF Next, Start, Finish

-----------------------------------------------------------------------------
(***************************************************************************)
(* The transition that is running                                          *)
(***************************************************************************)

LEMMA Wait1Op ==
  ASSUME TypeOK, NEW t \in Keys \ {"reset"}, NEW to, Starts(t), Wait1(t, to),
         UNCHANGED state
  PROVE  OpInv' /\ op' # "none" /\ phase' = 1 /\ ids' = active /\ sent' = sent + 1
<1>1. t # "none"
  BY DEF Keys, TwoPhase
<1>2. /\ op' = t /\ phase' = 1 /\ ref' = <<1, sent + 1>> /\ ids' = active
      /\ sent' = sent + 1
  BY DEF Wait1, Publish
<1> QED
  BY <1>1, <1>2 DEF OpInv, Starts

\* After the end of a condition there is nothing to go by.
LEMMA OverOp ==
  ASSUME op' = "none", phase' = 0
  PROVE  OpInv'
BY DEF OpInv

LEMMA OpNext ==
  ASSUME TypeOK, OpInv, [Next]_vars
  PROVE  OpInv'
<1> USE DEF manager, threads, world, client
<1>1. CASE Reset
  BY <1>1, OverOp DEF Reset, Succeed
<1>2. CASE Rollcall
  <2>1. sent' = sent + 1
    BY <1>2 DEF Rollcall, Publish
  <2> QED
    BY <1>2, <2>1 DEF Rollcall, Starts, OpInv
<1>3. CASE Alloc
  BY <1>3, Wait1Op DEF Alloc, Keys
<1>4. ASSUME NEW t \in TwoPhase \cup {"dealloc", "disconnect"}, Plain(t)
      PROVE  OpInv'
  BY <1>4, Wait1Op DEF Plain, Keys, TwoPhase
<1>5. CASE Connect
  BY <1>5, Wait1Op, OverOp DEF Connect, Keys, Fail
<1>6. CASE BeginRun
  BY <1>6, Wait1Op, OverOp DEF BeginRun, Keys, TwoPhase, Fail
<1>7. CASE EndRun
  BY <1>7, Wait1Op DEF EndRun, Keys, TwoPhase
<1>8. CASE Disable
  BY <1>8, Wait1Op, OverOp DEF Disable, Keys, TwoPhase, Fail
<1>9. CASE RollcallAgain
  BY <1>9 DEF RollcallAgain, OpInv
<1>10. ASSUME NEW c \in Clients, Collect(c)
       PROVE  OpInv'
  <2>1. CASE Fail
    BY <2>1, OverOp DEF Fail
  <2>2. CASE UNCHANGED <<goal, op, phase, known, active, ids, ref>>
    BY <1>10, <2>2 DEF Collect, OpInv
  <2>3. CASE Matches(Head(back[c])) /\ ref' = Head(back[c]).id /\ UNCHANGED <<goal, op, phase>>
    <3>1. phase = 1 => ref' = ref
      BY <2>3 DEF Matches, OpInv, NoId
    <3> QED
      BY <1>10, <2>3, <3>1 DEF Collect, OpInv
  <2> QED
    BY <1>10, <2>1, <2>2, <2>3 DEF Collect
<1>11. CASE NewReference
  BY <1>11 DEF NewReference, OpInv
<1>12. CASE Timeout
  BY <1>12, OverOp DEF Timeout, Succeed, Fail
<1>13. CASE Done1
  BY <1>13, OverOp DEF Done1, Succeed, Fail
<1>14. CASE DoneAlloc
  BY <1>14, OverOp DEF DoneAlloc, Succeed, Fail
<1>15. CASE Insert
  <2>1. op \in TwoPhase /\ op # "none" /\ phase' = 2 /\ UNCHANGED <<op, state>>
    BY <1>15 DEF Insert, OpInv
  <2> QED
    BY <2>1 DEF OpInv
<1>16. CASE Done2
  BY <1>16, OverOp DEF Done2, Succeed, Fail
<1>17. ASSUME NEW g \in Goals, SetState(g)
       PROVE  OpInv'
  BY <1>17 DEF SetState, OpInv
<1>18. CASE SelectPlatform
  BY <1>18 DEF SelectPlatform, OpInv
<1>19. ASSUME NEW c \in Clients, ServiceStatus(c)
       PROVE  OpInv'
  BY <1>19 DEF ServiceStatus, OpInv
<1>20. CASE SlowRequest \/ SlowUpdate
  BY <1>20 DEF SlowRequest, SlowUpdate, OpInv
<1>21. CASE CheckRecord \/ SetRecord
  BY <1>21 DEF CheckRecord, SetRecord, OpInv
<1>22. ASSUME NEW c \in Clients,
              Handle(c) \/ Timing(c) \/ ChunkRequest(c) \/ AsyncError(c)
       PROVE  OpInv'
  BY <1>22 DEF Handle, Timing, ChunkRequest, AsyncError, OpInv
<1>23. CASE UNCHANGED vars
  BY <1>23 DEF vars, OpInv
<1> QED
  BY <1>1, <1>2, <1>3, <1>4, <1>5, <1>6, <1>7, <1>8, <1>9, <1>10, <1>11, <1>12,
     <1>13, <1>14, <1>15, <1>16, <1>17, <1>18, <1>19, <1>20, <1>21, <1>22, <1>23
     DEF Next, Start, Finish

-----------------------------------------------------------------------------
(***************************************************************************)
(* Messages to the clients                                                 *)
(***************************************************************************)

LEMMA PublishInbox ==
  ASSUME TypeOK, InboxInv, NEW key \in Keys, NEW to, Publish(key, to),
         UNCHANGED handled, op' \in {key, "none"}
  PROVE  InboxInv'
<1> SUFFICES ASSUME NEW c \in Clients
             PROVE  /\ handled[c].id <= sent'
                    /\ op' # "none" /\ handled[c].id = sent' => handled[c].key = op'
                    /\ \A i \in DOMAIN inbox'[c] :
                         /\ inbox'[c][i].id <= sent'
                         /\ op' # "none" /\ inbox'[c][i].id = sent' => inbox'[c][i].key = op'
                         /\ After(inbox'[c][i], handled[c])
                         /\ \A j \in DOMAIN inbox'[c] : i < j => After(inbox'[c][j], inbox'[c][i])
  BY DEF InboxInv
<1>1. sent' = sent + 1 /\ sent \in Nat
  BY ControlAssumption DEF Publish, TypeOK, ControlAssumption
<1>2. inbox[c] \in Seq(Message) /\ handled[c] \in Message
  BY DEF TypeOK
<1>3. \A m \in Message : m.id \in Nat
  BY ControlAssumption DEF Message, ControlAssumption
<1>4. handled[c].id \in Nat /\ handled[c].id <= sent
  BY <1>2, <1>3 DEF InboxInv
<1>5. \A i \in DOMAIN inbox[c] : /\ inbox[c][i].id \in Nat /\ inbox[c][i].id <= sent
                                 /\ After(inbox[c][i], handled[c])
  BY <1>2, <1>3 DEF InboxInv
<1>6. \A i, j \in DOMAIN inbox[c] : i < j => After(inbox[c][j], inbox[c][i])
  BY DEF InboxInv
<1>7. CASE c \notin to
  <2>1. inbox'[c] = inbox[c]
    BY <1>7 DEF Publish
  <2> QED
    BY <1>1, <1>4, <1>5, <1>6, <2>1
<1>8. CASE c \in to
  <2> DEFINE m == [key |-> key, id |-> sent + 1]
  <2>1. inbox'[c] = Append(inbox[c], m)
    BY <1>8 DEF Publish
  <2>2. m.id = sent + 1 /\ m.key = key
    OBVIOUS
  <2> HIDE DEF m
  <2>3. /\ DOMAIN inbox'[c] = 1 .. Len(inbox[c]) + 1
        /\ DOMAIN inbox[c] = 1 .. Len(inbox[c]) /\ Len(inbox[c]) \in Nat
        /\ inbox'[c][Len(inbox[c]) + 1] = m
        /\ \A i \in DOMAIN inbox[c] : inbox'[c][i] = inbox[c][i]
    BY <1>2, <2>1
  <2>4. \A i \in DOMAIN inbox'[c] : i \in DOMAIN inbox[c] \/ i = Len(inbox[c]) + 1
    BY <2>3
  <2>5. After(m, handled[c]) /\ \A i \in DOMAIN inbox[c] : After(m, inbox[c][i])
    BY <1>1, <1>4, <1>5, <2>2 DEF After
  <2>6. \A i \in DOMAIN inbox'[c] :
          /\ inbox'[c][i].id <= sent'
          /\ op' # "none" /\ inbox'[c][i].id = sent' => inbox'[c][i].key = op'
          /\ After(inbox'[c][i], handled[c])
    BY <1>1, <1>5, <2>2, <2>3, <2>4, <2>5, SMTT(30)
  <2>7. \A i, j \in DOMAIN inbox'[c] : i < j => After(inbox'[c][j], inbox'[c][i])
    BY <1>6, <2>3, <2>4, <2>5
  <2> QED
    BY <1>1, <1>4, <2>6, <2>7
<1> QED
  BY <1>7, <1>8

\* The rollcall that is sent again comes after the same rollcall.
LEMMA AgainInbox ==
  ASSUME TypeOK, InboxInv, RollcallAgain
  PROVE  InboxInv'
<1>1. op = "rollcall" /\ UNCHANGED <<op, sent, handled>>
  BY DEF RollcallAgain, manager
<1> SUFFICES ASSUME NEW c \in Clients
             PROVE  \A i \in DOMAIN inbox'[c] :
                      /\ inbox'[c][i].id <= sent
                      /\ inbox'[c][i].id = sent => inbox'[c][i].key = op
                      /\ After(inbox'[c][i], handled[c])
                      /\ \A j \in DOMAIN inbox'[c] : i < j => After(inbox'[c][j], inbox'[c][i])
  BY <1>1 DEF InboxInv
<1> DEFINE m == [key |-> "rollcall", id |-> sent]
<1>2. inbox[c] \in Seq(Message) /\ handled[c] \in Message /\ sent \in Nat
  BY ControlAssumption DEF TypeOK, ControlAssumption
<1>3. \A k \in Message : k.id \in Nat /\ (k.id = sent /\ k.key = "rollcall" => k = m)
  BY ControlAssumption DEF Message, ControlAssumption
<1>4. inbox'[c] = Append(inbox[c], m) /\ m.id = sent /\ m.key = "rollcall"
  BY DEF RollcallAgain
<1> HIDE DEF m
<1>5. \A k \in Message : k.id <= sent /\ (k.id = sent => k.key = "rollcall") => After(m, k)
  BY <1>2, <1>3, <1>4 DEF After
<1>6. After(m, handled[c])
  BY <1>1, <1>2, <1>5 DEF InboxInv
<1>7. \A i \in DOMAIN inbox[c] : After(m, inbox[c][i])
  BY <1>1, <1>2, <1>5 DEF InboxInv
<1>8. /\ DOMAIN inbox'[c] = 1 .. Len(inbox[c]) + 1
      /\ DOMAIN inbox[c] = 1 .. Len(inbox[c]) /\ Len(inbox[c]) \in Nat
      /\ inbox'[c][Len(inbox[c]) + 1] = m
      /\ \A i \in DOMAIN inbox[c] : inbox'[c][i] = inbox[c][i]
  BY <1>2, <1>4
<1>9. \A i \in DOMAIN inbox'[c] : i \in DOMAIN inbox[c] \/ i = Len(inbox[c]) + 1
  BY <1>8
<1>10. \A i \in DOMAIN inbox[c] :
         /\ inbox[c][i].id <= sent
         /\ inbox[c][i].id = sent => inbox[c][i].key = op
         /\ After(inbox[c][i], handled[c])
         /\ \A j \in DOMAIN inbox[c] : i < j => After(inbox[c][j], inbox[c][i])
  BY <1>1 DEF InboxInv
<1>11. \A i \in DOMAIN inbox'[c] :
         /\ inbox'[c][i].id <= sent
         /\ inbox'[c][i].id = sent => inbox'[c][i].key = op
         /\ After(inbox'[c][i], handled[c])
  BY <1>1, <1>2, <1>4, <1>6, <1>8, <1>9, <1>10
<1>12. \A i, j \in DOMAIN inbox'[c] : i < j => After(inbox'[c][j], inbox'[c][i])
  BY <1>7, <1>8, <1>9, <1>10
<1> QED
  BY <1>11, <1>12

\* What a client handles next is behind what it has handled, and what is left
\* is behind that.
LEMMA HandleInbox ==
  ASSUME TypeOK, InboxInv, NEW c \in Clients, Handle(c)
  PROVE  /\ InboxInv' /\ handled[c].id <= handled'[c].id
         /\ After(handled'[c], handled[c])
         /\ \A b \in Clients \ {c} : handled'[b] = handled[b]
<1>1. UNCHANGED <<op, sent>>
  BY DEF Handle, manager
<1>2. /\ inbox[c] \in Seq(Message) /\ inbox[c] # << >> /\ handled[c] \in Message
      /\ inbox'[c] = Tail(inbox[c]) /\ handled'[c] = inbox[c][1]
      /\ \A b \in Clients \ {c} : inbox'[b] = inbox[b] /\ handled'[b] = handled[b]
  BY DEF Handle, TypeOK
<1>3. /\ DOMAIN inbox[c] = 1 .. Len(inbox[c]) /\ Len(inbox[c]) \in Nat \ {0}
      /\ DOMAIN inbox'[c] = 1 .. Len(inbox[c]) - 1
      /\ \A i \in DOMAIN inbox'[c] : inbox'[c][i] = inbox[c][i + 1]
  BY <1>2
<1>4. 1 \in DOMAIN inbox[c] /\ \A i \in DOMAIN inbox'[c] : i + 1 \in DOMAIN inbox[c] /\ 1 < i + 1
  BY <1>3
<1>5. \A i \in DOMAIN inbox[c] :
        /\ inbox[c][i].id <= sent
        /\ op # "none" /\ inbox[c][i].id = sent => inbox[c][i].key = op
        /\ After(inbox[c][i], handled[c])
        /\ \A j \in DOMAIN inbox[c] : i < j => After(inbox[c][j], inbox[c][i])
  BY DEF InboxInv
<1>6. \A i \in DOMAIN inbox'[c] :
        /\ inbox'[c][i].id <= sent
        /\ op # "none" /\ inbox'[c][i].id = sent => inbox'[c][i].key = op
        /\ After(inbox'[c][i], handled'[c])
  BY <1>2, <1>3, <1>4, <1>5
<1>7. \A i, j \in DOMAIN inbox'[c] : i < j => After(inbox'[c][j], inbox'[c][i])
  BY <1>3, <1>4, <1>5, SMTT(30)
<1>8. /\ handled'[c].id <= sent
      /\ op # "none" /\ handled'[c].id = sent => handled'[c].key = op
      /\ After(handled'[c], handled[c])
  BY <1>2, <1>4, <1>5
<1>9. inbox[c][1].id \in Nat /\ handled[c].id \in Nat
  <2>1. inbox[c][1] \in Message
    BY <1>2, <1>4
  <2>2. \A m \in Message : m.id \in Nat
    BY ControlAssumption DEF Message, ControlAssumption
  <2> QED
    BY <1>2, <2>1, <2>2
<1>10. handled[c].id <= handled'[c].id
  BY <1>2, <1>8, <1>9 DEF After
<1>11. InboxInv'
  <2> SUFFICES ASSUME NEW b \in Clients
               PROVE  /\ handled'[b].id <= sent
                      /\ op # "none" /\ handled'[b].id = sent => handled'[b].key = op
                      /\ \A i \in DOMAIN inbox'[b] :
                           /\ inbox'[b][i].id <= sent
                           /\ op # "none" /\ inbox'[b][i].id = sent => inbox'[b][i].key = op
                           /\ After(inbox'[b][i], handled'[b])
                           /\ \A j \in DOMAIN inbox'[b] :
                                i < j => After(inbox'[b][j], inbox'[b][i])
    BY <1>1 DEF InboxInv
  <2>1. CASE b = c
    BY <1>6, <1>7, <1>8, <2>1
  <2>2. CASE b # c
    BY <1>2, <2>2 DEF InboxInv
  <2> QED
    BY <2>1, <2>2
<1> QED
  BY <1>2, <1>8, <1>10, <1>11

LEMMA KeptInbox ==
  ASSUME InboxInv, UNCHANGED <<inbox, handled, sent>>, op' \in {op, "none"}
  PROVE  InboxInv'
BY DEF InboxInv

LEMMA InboxNext ==
  ASSUME TypeOK, OpInv, InboxInv, [Next]_vars
  PROVE  InboxInv'
<1> USE DEF manager, threads, world, client
<1>1. CASE Reset
  BY <1>1, PublishInbox DEF Reset, Succeed, Keys
<1>2. CASE Rollcall
  BY <1>2, PublishInbox DEF Rollcall, Keys
<1>3. CASE Alloc
  BY <1>3, PublishInbox DEF Alloc, Wait1, Keys
<1>4. ASSUME NEW t \in TwoPhase \cup {"dealloc", "disconnect"}, Plain(t)
      PROVE  InboxInv'
  BY <1>4, PublishInbox DEF Plain, Wait1, Keys
<1>5. CASE Connect
  BY <1>5, PublishInbox, KeptInbox DEF Connect, Wait1, Keys, Fail
<1>6. CASE BeginRun
  BY <1>6, PublishInbox, KeptInbox DEF BeginRun, Wait1, Keys, TwoPhase, Fail
<1>7. CASE EndRun
  BY <1>7, PublishInbox DEF EndRun, Wait1, Keys, TwoPhase
<1>8. CASE Disable
  BY <1>8, PublishInbox, KeptInbox DEF Disable, Wait1, Keys, TwoPhase, Fail
<1>9. CASE RollcallAgain
  BY <1>9, AgainInbox
<1>10. ASSUME NEW c \in Clients, Collect(c) \/ ServiceStatus(c)
       PROVE  InboxInv'
  <2>1. UNCHANGED <<inbox, handled, sent>> /\ op' \in {op, "none"}
    BY <1>10 DEF Collect, ServiceStatus, Fail
  <2> QED
    BY <2>1, KeptInbox
<1>11. CASE NewReference \/ Insert
  BY <1>11, KeptInbox DEF NewReference, Insert
<1>12. CASE Timeout
  BY <1>12, KeptInbox DEF Timeout, Succeed, Fail
<1>13. CASE Done1
  BY <1>13, KeptInbox DEF Done1, Succeed, Fail
<1>14. CASE DoneAlloc
  BY <1>14, KeptInbox DEF DoneAlloc, Succeed, Fail
<1>15. CASE Done2
  BY <1>15, KeptInbox DEF Done2, Succeed, Fail
<1>16. ASSUME NEW g \in Goals, SetState(g)
       PROVE  InboxInv'
  BY <1>16, KeptInbox DEF SetState
<1>17. CASE SelectPlatform \/ SlowRequest \/ SlowUpdate \/ CheckRecord \/ SetRecord
  BY <1>17, KeptInbox DEF SelectPlatform, SlowRequest, SlowUpdate, CheckRecord, SetRecord
<1>18. ASSUME NEW c \in Clients, Handle(c)
       PROVE  InboxInv'
  BY <1>18, HandleInbox
<1>19. ASSUME NEW c \in Clients, Timing(c) \/ ChunkRequest(c) \/ AsyncError(c)
       PROVE  InboxInv'
  BY <1>19, KeptInbox DEF Timing, ChunkRequest, AsyncError
<1>20. CASE UNCHANGED vars
  BY <1>20, KeptInbox DEF vars
<1> QED
  BY <1>1, <1>2, <1>3, <1>4, <1>5, <1>6, <1>7, <1>8, <1>9, <1>10, <1>11, <1>12,
     <1>13, <1>14, <1>15, <1>16, <1>17, <1>18, <1>19, <1>20
     DEF Next, Start, Finish

-----------------------------------------------------------------------------
(***************************************************************************)
(* Answers of the clients                                                  *)
(***************************************************************************)

LEMMA AnswerId ==
  ASSUME NEW s \in Seq(Answer), NEW i \in DOMAIN s
  PROVE  s[i].id[2] \in Nat
<1>1. s[i] \in Answer
  OBVIOUS
<1> QED
  BY <1>1 DEF Answer

\* An answer is to what the client has handled, or to no phase 1 message.
LEMMA ReplyBack ==
  ASSUME TypeOK, BackInv, NEW c \in Clients, NEW kind, NEW id, Reply(c, kind, id),
         \A b \in Clients : handled'[b].id \in Nat /\ handled[b].id <= handled'[b].id,
         id[1] = 1 => id[2] <= handled'[c].id
  PROVE  BackInv'
<1> SUFFICES ASSUME NEW b \in Clients, NEW i \in DOMAIN back'[b], back'[b][i].id[1] = 1
             PROVE  back'[b][i].id[2] <= handled'[b].id
  BY DEF BackInv
<1>1. back[b] \in Seq(Answer) /\ handled[b] \in Message
  BY DEF TypeOK
<1>2. handled[b].id \in Nat
  BY <1>1, ControlAssumption DEF Message, ControlAssumption
<1>3. \A j \in DOMAIN back[b] :
        /\ back[b][j].id[2] \in Nat
        /\ back[b][j].id[1] = 1 => back[b][j].id[2] <= handled[b].id
  BY <1>1, AnswerId DEF BackInv
<1>4. CASE i \in DOMAIN back[b] /\ back'[b][i] = back[b][i]
  BY <1>2, <1>3, <1>4
<1>5. CASE b = c /\ back'[b][i] = [kind |-> kind, id |-> id]
  BY <1>5
<1>6. CASE b # c
  BY <1>4, <1>6 DEF Reply, TypeOK
<1>7. CASE b = c
  <2>1. back'[b] = Append(back[b], [kind |-> kind, id |-> id])
    BY <1>7 DEF Reply, TypeOK
  <2> QED
    BY <1>1, <1>4, <1>5, <1>7, <2>1
<1> QED
  BY <1>6, <1>7

LEMMA TakeBack ==
  ASSUME TypeOK, BackInv, NEW c \in Clients, Take(c), UNCHANGED handled
  PROVE  BackInv'
<1> SUFFICES ASSUME NEW b \in Clients, NEW i \in DOMAIN back'[b], back'[b][i].id[1] = 1
             PROVE  back'[b][i].id[2] <= handled[b].id
  BY DEF BackInv
<1>1. CASE b # c
  BY <1>1 DEF Take, TypeOK, BackInv
<1>2. CASE b = c
  <2>1. back[b] \in Seq(Answer) /\ back[b] # << >> /\ back'[b] = Tail(back[b])
    BY <1>2 DEF Take, TypeOK
  <2>2. i + 1 \in DOMAIN back[b] /\ back'[b][i] = back[b][i + 1]
    BY <2>1
  <2> QED
    BY <2>2 DEF BackInv
<1> QED
  BY <1>1, <1>2

LEMMA KeptBack ==
  ASSUME BackInv, UNCHANGED <<back, handled>>
  PROVE  BackInv'
BY DEF BackInv

LEMMA HandleBack ==
  ASSUME TypeOK, TypeOK', InboxInv, BackInv, NEW c \in Clients, Handle(c)
  PROVE  BackInv'
<1>1. handled'[c] = Head(inbox[c])
  BY DEF Handle, TypeOK
<1>2. \A b \in Clients : handled[b] \in Message /\ handled'[b] \in Message
  BY DEF TypeOK
<1>3. \A b \in Clients : handled[b].id \in Nat /\ handled'[b].id \in Nat
  BY <1>2, ControlAssumption DEF Message, ControlAssumption
<1>4. \A b \in Clients : handled[b].id <= handled'[b].id
  BY <1>3, HandleInbox
<1>5. CASE UNCHANGED back
  <2>1. \A b \in Clients : back[b] \in Seq(Answer)
    BY DEF TypeOK
  <2>2. \A b \in Clients : \A i \in DOMAIN back[b] : back[b][i].id[2] \in Nat
    BY <2>1, AnswerId
  <2> QED
    BY <1>3, <1>4, <1>5, <2>2 DEF BackInv
<1>6. ASSUME NEW kind, Reply(c, kind, <<1, Head(inbox[c]).id>>)
      PROVE  BackInv'
  BY <1>1, <1>3, <1>4, <1>6, ReplyBack
<1> QED
  BY <1>5, <1>6 DEF Handle

LEMMA BackNext ==
  ASSUME TypeOK, TypeOK', InboxInv, BackInv, [Next]_vars
  PROVE  BackInv'
<1> USE DEF manager, threads, world, client
<1>1. CASE Start
  BY <1>1, KeptBack DEF Start, Reset, Rollcall, Alloc, Plain, Connect, BeginRun,
     EndRun, Disable
<1>2. CASE RollcallAgain \/ NewReference \/ Timeout \/ Done1 \/ DoneAlloc \/ Insert \/ Done2
  BY <1>2, KeptBack DEF RollcallAgain, NewReference, Timeout, Done1, DoneAlloc,
     Insert, Done2
<1>3. ASSUME NEW c \in Clients, Collect(c) \/ ServiceStatus(c)
      PROVE  BackInv'
  <2>1. Take(c) /\ UNCHANGED handled
    BY <1>3 DEF Collect, ServiceStatus
  <2> QED
    BY <2>1, TakeBack
<1>4. ASSUME NEW g \in Goals, SetState(g)
      PROVE  BackInv'
  BY <1>4, KeptBack DEF SetState
<1>5. CASE SelectPlatform \/ SlowRequest \/ SlowUpdate \/ CheckRecord \/ SetRecord
  BY <1>5, KeptBack DEF SelectPlatform, SlowRequest, SlowUpdate, CheckRecord, SetRecord
<1>6. ASSUME NEW c \in Clients, Handle(c)
      PROVE  BackInv'
  BY <1>6, HandleBack
<1>7. ASSUME NEW c \in Clients, Timing(c) \/ ChunkRequest(c) \/ AsyncError(c)
      PROVE  BackInv'
  <2>1. UNCHANGED handled
    BY <1>7 DEF Timing, ChunkRequest, AsyncError
  <2>2. \A b \in Clients : handled'[b].id \in Nat /\ handled[b].id <= handled'[b].id
    <3>1. \A m \in Message : m.id \in Nat
      BY ControlAssumption DEF Message, ControlAssumption
    <3>2. \A b \in Clients : handled[b] \in Message
      BY DEF TypeOK
    <3> QED
      BY <2>1, <3>1, <3>2
  <2>3. UNCHANGED back \/ \E kind, id : Reply(c, kind, id) /\ id[1] # 1
    BY <1>7 DEF Timing, ChunkRequest, AsyncError, AsyncId
  <2> QED
    BY <2>1, <2>2, <2>3, ReplyBack, KeptBack
<1>8. CASE UNCHANGED vars
  BY <1>8, KeptBack DEF vars
<1> QED
  BY <1>1, <1>2, <1>3, <1>4, <1>5, <1>6, <1>7, <1>8 DEF Next, Finish

-----------------------------------------------------------------------------
(***************************************************************************)
(* Who has handled the message of phase 1                                  *)
(***************************************************************************)

\* A client that has handled the last message sent handles no other one.
LEMMA HandledLast ==
  ASSUME TypeOK, TypeOK', InboxInv, NEW b \in Clients, Handle(b), NEW c \in Clients,
         handled[c].id = sent
  PROVE  handled'[c] = handled[c]
<1>1. CASE b # c
  BY <1>1, HandleInbox
<1>2. CASE b = c
  <2>1. After(handled'[c], handled[c]) /\ InboxInv'
    BY <1>2, HandleInbox
  <2>2. handled'[c].id <= sent
    BY <2>1 DEF InboxInv, Handle
  <2>3. handled'[c] \in Message /\ \A m \in Message : m.id \in Nat
    BY ControlAssumption DEF TypeOK, Message, ControlAssumption
  <2>4. handled'[c].id \in Nat /\ sent \in Nat
    BY <2>3, ControlAssumption DEF TypeOK, ControlAssumption
  <2> QED
    BY <2>1, <2>2, <2>4 DEF After
<1> QED
  BY <1>1, <1>2

\* An answer that counts in phase 1 is the answer to its message.
LEMMA AnsweredHandled ==
  ASSUME TypeOK, OpInv, InboxInv, BackInv, NEW c \in Clients,
         phase = 1, back[c] # << >>, Matches(Head(back[c]))
  PROVE  handled[c] = [key |-> op, id |-> sent]
<1>1. back[c] \in Seq(Answer) /\ 1 \in DOMAIN back[c] /\ Head(back[c]) = back[c][1]
  BY DEF TypeOK
<1>2. back[c][1].id = <<1, sent>>
  BY <1>1 DEF Matches, OpInv, NoId
<1>3. sent <= handled[c].id
  BY <1>1, <1>2 DEF BackInv
<1>4. handled[c] \in Message /\ sent \in Nat /\ op # "none"
  BY ControlAssumption DEF TypeOK, OpInv, ControlAssumption
<1>5. handled[c].id = sent
  BY <1>3, <1>4, ControlAssumption DEF InboxInv, Message, ControlAssumption
<1>6. handled[c].key = op
  BY <1>4, <1>5 DEF InboxInv
<1> QED
  BY <1>4, <1>5, <1>6 DEF Message

LEMMA KeptPhase ==
  ASSUME PhaseInv, UNCHANGED <<phase, op, active, ids, handled, sent>>
  PROVE  PhaseInv'
BY DEF PhaseInv

LEMMA OverPhase ==
  ASSUME phase' = 0
  PROVE  PhaseInv'
BY DEF PhaseInv

\* At the start of phase 1 all the active clients are waited for.
LEMMA Wait1Phase ==
  ASSUME NEW t, NEW to, Wait1(t, to), UNCHANGED active
  PROVE  PhaseInv'
BY DEF Wait1, PhaseInv

LEMMA PhaseNext ==
  ASSUME TypeOK, TypeOK', OpInv, InboxInv, BackInv, PhaseInv, [Next]_vars
  PROVE  PhaseInv'
<1> USE DEF manager, threads, world, client
<1>1. CASE Reset
  BY <1>1, OverPhase DEF Reset, Succeed
<1>2. CASE Rollcall
  BY <1>2 DEF Rollcall, PhaseInv
<1>3. CASE Alloc \/ EndRun
  BY <1>3, Wait1Phase DEF Alloc, EndRun
<1>4. ASSUME NEW t, Plain(t)
      PROVE  PhaseInv'
  BY <1>4, Wait1Phase DEF Plain
<1>5. CASE Connect \/ BeginRun \/ Disable
  BY <1>5, Wait1Phase, OverPhase DEF Connect, BeginRun, Disable, Fail
<1>6. CASE RollcallAgain
  BY <1>6, KeptPhase DEF RollcallAgain
<1>7. ASSUME NEW c \in Clients, Collect(c)
      PROVE  PhaseInv'
  <2>1. CASE Fail
    BY <2>1, OverPhase DEF Fail
  <2>2. CASE UNCHANGED <<goal, op, phase, known, active, ids, ref>>
    BY <1>7, <2>2, KeptPhase DEF Collect
  <2>3. CASE /\ Head(back[c]).kind # "failed" \/ phase = 2
             /\ Matches(Head(back[c]))
             /\ ids' = CASE Head(back[c]).kind = "failed" -> {}
                         [] Head(back[c]).kind = "chunk" -> ids
                         [] OTHER -> ids \ {c}
             /\ op = "rollcall" \/ UNCHANGED active
             /\ UNCHANGED <<goal, op, phase>>
    <3>1. UNCHANGED <<handled, sent>> /\ back[c] # << >>
      BY <1>7 DEF Collect, Take
    <3>2. CASE phase = 2 /\ op # "rollcall"
      BY <2>3, <3>1, <3>2 DEF PhaseInv
    <3>3. CASE phase = 1 /\ op # "rollcall"
      <4>1. handled[c] = [key |-> op, id |-> sent]
        BY <2>3, <3>1, <3>3, AnsweredHandled
      <4>2. ids \ {c} \subseteq ids'
        BY <2>3, <3>3
      <4> QED
        BY <2>3, <3>1, <3>3, <4>1, <4>2 DEF PhaseInv
    <3>4. CASE op = "rollcall"
      BY <2>3, <3>4 DEF PhaseInv
    <3>5. phase \in {1, 2}
      BY <1>7 DEF Collect, TypeOK
    <3> QED
      BY <3>2, <3>3, <3>4, <3>5
  <2> QED
    BY <1>7, <2>1, <2>2, <2>3 DEF Collect
<1>8. CASE NewReference
  BY <1>8, KeptPhase DEF NewReference
<1>9. CASE Timeout \/ Done1 \/ DoneAlloc \/ Done2
  BY <1>9, OverPhase DEF Timeout, Done1, DoneAlloc, Done2, Succeed, Fail
<1>10. CASE Insert
  BY <1>10 DEF Insert, PhaseInv
<1>11. ASSUME NEW g \in Goals, SetState(g)
       PROVE  PhaseInv'
  BY <1>11, KeptPhase DEF SetState
<1>12. CASE SelectPlatform
  BY <1>12 DEF SelectPlatform, Idle, OpInv, PhaseInv
<1>13. CASE SlowRequest \/ SlowUpdate \/ CheckRecord \/ SetRecord
  BY <1>13, KeptPhase DEF SlowRequest, SlowUpdate, CheckRecord, SetRecord
<1>14. ASSUME NEW c \in Clients, Handle(c)
       PROVE  PhaseInv'
  <2>1. UNCHANGED <<phase, op, active, ids, sent>>
    BY <1>14 DEF Handle
  <2> SUFFICES ASSUME phase # 0, op # "rollcall",
                      NEW b \in active \ (IF phase = 1 THEN ids ELSE {})
               PROVE  handled'[b] = [key |-> op, id |-> sent]
    BY <2>1 DEF PhaseInv
  <2>2. handled[b] = [key |-> op, id |-> sent] /\ b \in Clients
    BY DEF PhaseInv, TypeOK
  <2> QED
    BY <1>14, <2>2, HandledLast
<1>15. ASSUME NEW c \in Clients,
              ServiceStatus(c) \/ Timing(c) \/ ChunkRequest(c) \/ AsyncError(c)
       PROVE  PhaseInv'
  BY <1>15, KeptPhase DEF ServiceStatus, Timing, ChunkRequest, AsyncError
<1>16. CASE UNCHANGED vars
  BY <1>16, KeptPhase DEF vars
<1> QED
  BY <1>1, <1>2, <1>3, <1>4, <1>5, <1>6, <1>7, <1>8, <1>9, <1>10, <1>11, <1>12,
     <1>13, <1>14, <1>15, <1>16 DEF Next, Start, Finish

-----------------------------------------------------------------------------
(***************************************************************************)
(* The timing stream                                                       *)
(***************************************************************************)

LEMMA AppendLast ==
  ASSUME TypeOK, NEW t \in TwoPhase \cup {"slowupdate"}, stream' = Append(stream, t)
  PROVE  /\ stream' # << >> /\ Last' = t
         /\ Len(stream) \in Nat /\ Len(stream') = Len(stream) + 1
         /\ DOMAIN stream = 1 .. Len(stream) /\ DOMAIN stream' = 1 .. Len(stream) + 1
         /\ \A i \in DOMAIN stream : stream'[i] = stream[i]
BY DEF TypeOK, Last

\* Only Insert and SlowUpdate change the stream.
LEMMA StreamSteps ==
  ASSUME [Next]_vars
  PROVE  Insert \/ SlowUpdate \/ UNCHANGED stream
<1> USE DEF manager, threads, world, client
<1>1. ASSUME Start PROVE UNCHANGED stream
  BY <1>1 DEF Start, Reset, Rollcall, Alloc, Plain, Connect, BeginRun, EndRun, Disable
<1>2. ASSUME Finish PROVE Insert \/ UNCHANGED stream
  BY <1>2 DEF Finish, RollcallAgain, Collect, NewReference, Timeout, Done1,
     DoneAlloc, Done2
<1>3. ASSUME NEW c \in Clients,
             \/ ServiceStatus(c) \/ Handle(c) \/ Timing(c) \/ ChunkRequest(c)
             \/ AsyncError(c)
      PROVE  UNCHANGED stream
  BY <1>3 DEF ServiceStatus, Handle, Timing, ChunkRequest, AsyncError
<1> QED
  BY <1>1, <1>2, <1>3 DEF Next, SetState, SelectPlatform, SlowRequest, CheckRecord,
     SetRecord, vars

LEMMA StreamNext ==
  ASSUME TypeOK, OpInv, OpInv', StreamInv, [Next]_vars
  PROVE  StreamInv'
<1> USE DEF manager, threads, world, client
<1>1. CASE Insert
  <2>1. stream' = Append(stream, op) /\ op \in TwoPhase /\ op' = op
    BY <1>1 DEF Insert
  <2> QED
    BY <2>1, AppendLast DEF StreamInv
<1>2. CASE SlowUpdate
  BY <1>2 DEF SlowUpdate, Idle, OpInv, StreamInv
<1>3. ASSUME UNCHANGED stream, ~Insert, phase' = 2
      PROVE  phase = 2 /\ op' = op
  <2>1. op' # "none"
    BY <1>3 DEF OpInv
  <2>2. CASE Start
    BY <1>3, <2>1, <2>2 DEF Start, Reset, Succeed, Rollcall, Alloc, Plain, Wait1, Connect,
       Fail, BeginRun, EndRun, Disable
  <2>3. CASE Finish
    BY <1>3, <2>1, <2>3 DEF Finish, RollcallAgain, Collect, NewReference, Timeout, Done1,
       DoneAlloc, Done2, Succeed, Fail
  <2>4. CASE \E c \in Clients :
               \/ ServiceStatus(c) \/ Handle(c) \/ Timing(c) \/ ChunkRequest(c)
               \/ AsyncError(c)
    BY <1>3, <2>4 DEF ServiceStatus, Handle, Timing, ChunkRequest, AsyncError
  <2> QED
    BY <1>3, <2>2, <2>3, <2>4 DEF Next, SetState, SelectPlatform, SlowRequest,
       SlowUpdate, CheckRecord, SetRecord, vars
<1>4. CASE UNCHANGED stream /\ ~Insert
  BY <1>3, <1>4 DEF StreamInv, Last
<1> QED
  BY <1>1, <1>2, <1>4, StreamSteps

\* Slow updates go on only in running, from which disable and reset lead away:
\* any other transition is started without them.
LEMMA StartsQuiet ==
  ASSUME NEW t, Starts(t), t # "reset", t # "disable"
  PROVE  state # "running"
BY LegalTable DEF Starts

\* Whatever goes on with a transition finds one running.
LEMMA FinishRuns ==
  ASSUME OpInv, Finish
  PROVE  op # "none"
<1>1. ASSUME NEW c \in Clients, Collect(c) PROVE phase # 0
  BY <1>1 DEF Collect
<1>2. ASSUME NewReference \/ Timeout \/ Done1 \/ DoneAlloc \/ Insert \/ Done2
      PROVE  phase # 0
  <2>1. ASSUME NewReference \/ Timeout PROVE phase # 0
    BY <2>1 DEF NewReference, Timeout
  <2>2. ASSUME Done1 \/ DoneAlloc \/ Insert PROVE phase = 1
    BY <2>2 DEF Done1, DoneAlloc, Insert
  <2>3. ASSUME Done2 PROVE phase = 2
    BY <2>3 DEF Done2
  <2> QED
    BY <1>2, <2>1, <2>2, <2>3
<1>3. ASSUME RollcallAgain PROVE op = "rollcall"
  BY <1>3 DEF RollcallAgain
<1> QED
  BY <1>1, <1>2, <1>3 DEF OpInv, Finish

LEMMA SlowNext ==
  ASSUME TypeOK, TypeOK', OpInv, StreamInv, SlowInv, SlowUpdatesEnabled, [Next]_vars
  PROVE  SlowInv' /\ SlowUpdatesEnabled'
<1> USE DEF manager, threads, world, client
<1>1. CASE Insert
  <2>1. stream' = Append(stream, op) /\ op \in TwoPhase /\ op' = op /\ slow' = slow
    BY <1>1 DEF Insert
  <2>2. op # "slowupdate" /\ op # "none"
    BY <2>1 DEF TwoPhase
  <2>3. ~slow'
    BY <2>1, <2>2 DEF SlowInv
  <2>4. SlowUpdatesEnabled'
    BY <2>1, <2>2, AppendLast DEF SlowUpdatesEnabled, Last
  <2> QED
    BY <2>3, <2>4 DEF SlowInv
<1>2. CASE SlowUpdate
  <2>1. UNCHANGED <<slow, state, op>>
    BY <1>2 DEF SlowUpdate
  <2>2. CASE UNCHANGED stream
    BY <2>1, <2>2 DEF SlowInv, SlowUpdatesEnabled, Enabled, Last
  <2>3. CASE slow /\ stream' = Append(stream, "slowupdate")
    <3>1. Enabled'
      BY <2>3, AppendLast DEF Enabled
    <3>2. stream # << >> /\ stream[Len(stream)] \in {"enable", "slowupdate"}
      BY <2>3 DEF SlowInv, Enabled, Last
    <3>3. Len(stream) # 0
      BY <3>2 DEF TypeOK
    <3>4. SlowUpdatesEnabled'
      BY <2>3, <3>2, <3>3, AppendLast DEF SlowUpdatesEnabled
    <3> QED
      BY <2>1, <2>3, <3>1, <3>4 DEF SlowInv
  <2> QED
    BY <1>2, <2>2, <2>3 DEF SlowUpdate, SlowAllowed
<1>3. ASSUME UNCHANGED stream, ~Insert, ~SlowUpdate
      PROVE  SlowInv' /\ SlowUpdatesEnabled'
  <2>1. SlowUpdatesEnabled'
    BY <1>3 DEF SlowUpdatesEnabled
  <2>2. Enabled => Enabled'
    BY <1>3 DEF Enabled, Last
  <2>3. CASE UNCHANGED <<slow, state, op>>
    BY <2>1, <2>2, <2>3 DEF SlowInv
  <2>4. CASE ~slow'
    BY <2>1, <2>4 DEF SlowInv
  <2>5. CASE Start
    <3>1. CASE Reset
      BY <2>4, <3>1 DEF Reset
    <3>2. CASE Disable
      BY <2>3, <2>4, <3>2 DEF Disable, Fail, Starts
    <3>3. ASSUME NEW t, Starts(t), t # "reset", t # "disable", UNCHANGED slow
          PROVE  SlowInv' /\ SlowUpdatesEnabled'
      BY <2>4, <3>3, StartsQuiet DEF SlowInv
    <3> QED
      BY <2>5, <3>1, <3>2, <3>3 DEF Start, Rollcall, Alloc, Plain, Connect, BeginRun, EndRun
  <2>6. CASE Finish
    <3>1. op # "none"
      BY <2>6, FinishRuns
    <3>2. CASE UNCHANGED slow
      BY <2>4, <3>1, <3>2 DEF SlowInv
    <3>3. CASE Done2
      <4>1. CASE op = "enable" /\ Succeed(op)
        <5>1. state' = "running" /\ op' = "none"
          <6>1. \E s \in States : <<op, s>> \in Legal(state)
            BY <3>1 DEF OpInv
          <6>2. <<op, state'>> \in Legal(state) /\ op' = "none"
            BY <4>1, <6>1, SucceedNext
          <6> QED
            BY <4>1, <6>2, LegalTable
        <5>2. Enabled
          BY <3>3, <4>1 DEF Done2, StreamInv, Enabled
        <5> QED
          BY <2>1, <2>2, <5>1, <5>2 DEF SlowInv
      <4>2. CASE UNCHANGED slow
        BY <3>2, <4>2
      <4> QED
        BY <3>3, <4>1, <4>2 DEF Done2
    <3> QED
      BY <2>6, <1>3, <3>2, <3>3 DEF Finish, RollcallAgain, Collect, NewReference, Timeout,
         Done1, DoneAlloc
  <2>7. CASE \E c \in Clients :
               \/ ServiceStatus(c) \/ Handle(c) \/ Timing(c) \/ ChunkRequest(c)
               \/ AsyncError(c)
    BY <2>3, <2>7 DEF ServiceStatus, Handle, Timing, ChunkRequest, AsyncError
  <2>8. CASE (\E g \in Goals : SetState(g)) \/ SelectPlatform \/ SlowRequest
             \/ CheckRecord \/ SetRecord
    BY <2>3, <2>8 DEF SetState, SelectPlatform, SlowRequest, CheckRecord, SetRecord
  <2> QED
    BY <1>3, <2>3, <2>5, <2>6, <2>7, <2>8 DEF Next, vars
<1> QED
  BY <1>1, <1>2, <1>3, StreamSteps

-----------------------------------------------------------------------------
(***************************************************************************)
(* The triggers, if no failed put takes effect late                        *)
(***************************************************************************)

LEMMA KeptTriggered ==
  ASSUME Triggered, UNCHANGED <<state, stream, active, handled, sent>>, op' = "none"
  PROVE  Triggered'
BY DEF Triggered, Enabled, Last

\* Where triggers are not on in running, the state they are on in is left
\* alone.
LEMMA KeptTrig ==
  ASSUME TrigInv, op # "none" \/ state # "running", UNCHANGED state, ~l0' \/ l0' = l0
  PROVE  TrigInv'
BY DEF TrigInv, Triggered

LEMMA TrigNext ==
  ASSUME "late" \notin PutFaults, TypeOK, TypeOK', OpInv, InboxInv, PhaseInv,
         StreamInv, TrigInv, [Next]_vars
  PROVE  TrigInv'
<1> USE DEF manager, threads, world, client
<1>1. CASE Reset
  <2>1. <<"reset", state'>> \in Legal(state)
    BY <1>1, SucceedNext DEF Reset, Starts
  <2> QED
    BY <2>1, LegalTable DEF TrigInv
<1>2. CASE Disable
  <2>1. CASE Put(FALSE)
    BY <2>1 DEF Put, TrigInv
  <2>2. CASE PutFails(FALSE) /\ Fail /\ UNCHANGED <<slow, sent, inbox>>
    <3>1. l0' = l0 /\ op' = "none" /\ UNCHANGED <<state, stream, active, handled, sent>>
      BY <1>2, <2>2 DEF Disable, PutFails, Fail
    <3> QED
      BY <3>1, KeptTriggered DEF TrigInv
  <2> QED
    BY <1>2, <2>1, <2>2 DEF Disable
<1>3. CASE Start /\ ~Reset /\ ~Disable
  <2>1. \E t : Starts(t) /\ t # "reset" /\ t # "disable"
    BY <1>3 DEF Start, Rollcall, Alloc, Plain, Connect, BeginRun, EndRun
  <2>2. UNCHANGED <<state, l0>>
    BY <1>3 DEF Start, Rollcall, Alloc, Plain, Connect, BeginRun, EndRun
  <2> QED
    BY <2>1, <2>2, StartsQuiet, KeptTrig
<1>4. CASE Finish
  <2>1. op # "none" /\ \E s \in States : <<op, s>> \in Legal(state)
    BY <1>4, FinishRuns DEF OpInv
  <2>2. ASSUME Succeed(op), l0, l0' = l0, op # "alloc"
        PROVE  TrigInv'
    <3>1. state \in {"reset", "unallocated"}
      BY <2>1, <2>2 DEF TrigInv, Triggered
    <3>2. <<op, state'>> \in Legal(state)
      BY <2>1, <2>2, SucceedNext
    <3>3. state' \in {"reset", "unallocated"}
      BY <2>2, <3>1, <3>2, LegalTable
    <3> QED
      BY <3>3 DEF TrigInv
  <2>3. ASSUME UNCHANGED state, ~l0' \/ l0' = l0
        PROVE  TrigInv'
    BY <2>1, <2>3, KeptTrig
  <2>4. CASE RollcallAgain \/ NewReference \/ Insert
    BY <2>3, <2>4 DEF RollcallAgain, NewReference, Insert
  <2>5. CASE \E c \in Clients : Collect(c)
    BY <2>3, <2>5 DEF Collect
  <2>6. CASE Timeout
    <3>1. l0' = l0 /\ ((op = "rollcall" /\ Succeed(op)) \/ UNCHANGED state)
      BY <2>6 DEF Timeout
    <3> QED
      BY <2>2, <2>3, <3>1 DEF TrigInv
  <2>7. CASE Done1
    <3>1. l0' = l0 /\ op # "alloc" /\ (Succeed(op) \/ UNCHANGED state)
      BY <2>7 DEF Done1
    <3> QED
      BY <2>2, <2>3, <3>1 DEF TrigInv
  <2>8. CASE DoneAlloc
    <3>1. ~l0' \/ (l0' = l0 /\ UNCHANGED state)
      BY <2>8 DEF DoneAlloc, Put, PutFails
    <3> QED
      BY <2>3, <3>1 DEF TrigInv
  <2>9. CASE Done2
    <3>1. phase = 2 /\ op \in TwoPhase /\ op # "rollcall"
      BY <2>9 DEF Done2, OpInv, TwoPhase
    <3>2. CASE op = "enable" /\ Put(TRUE) /\ Succeed(op)
      <4>1. <<op, state'>> \in Legal(state) /\ op' = "none"
        BY <2>1, <3>2, SucceedNext
      <4>2. state' = "running"
        BY <3>2, <4>1, LegalTable
      <4>3. Enabled' /\ UNCHANGED <<active, handled, sent>>
        BY <2>9, <3>1, <3>2 DEF Done2, StreamInv, Enabled, Last
      <4>4. \A c \in active : handled[c] = [key |-> "enable", id |-> sent]
        BY <3>1, <3>2 DEF PhaseInv
      <4> QED
        BY <4>1, <4>2, <4>3, <4>4 DEF TrigInv, Triggered
    <3>3. CASE PutFails(TRUE) /\ UNCHANGED state
      <4>1. l0' = l0
        BY <3>3 DEF PutFails
      <4> QED
        BY <2>3, <3>3, <4>1
    <3>4. CASE Succeed(op) /\ UNCHANGED l0
      <4>1. op # "alloc"
        BY <3>1 DEF TwoPhase
      <4> QED
        BY <2>2, <3>4, <4>1 DEF TrigInv
    <3> QED
      BY <2>9, <3>2, <3>3, <3>4 DEF Done2
  <2> QED
    BY <1>4, <2>4, <2>5, <2>6, <2>7, <2>8, <2>9 DEF Finish
<1>5. CASE SelectPlatform
  BY <1>5 DEF SelectPlatform, TrigInv
<1>6. CASE SlowUpdate
  <2>1. UNCHANGED <<l0, state, op, active, handled, sent>>
    BY <1>6 DEF SlowUpdate
  <2>2. stream' = stream \/ stream' = Append(stream, "slowupdate")
    BY <1>6 DEF SlowUpdate
  <2>3. Enabled => Enabled'
    BY <2>2, AppendLast DEF Enabled, Last
  <2> QED
    BY <2>1, <2>3 DEF TrigInv, Triggered
<1>7. ASSUME NEW c \in Clients, Handle(c)
      PROVE  TrigInv'
  <2>1. UNCHANGED <<l0, state, op, active, stream, sent>>
    BY <1>7 DEF Handle
  <2>2. ASSUME Triggered PROVE Triggered'
    <3>1. \A b \in active : b \in Clients /\ handled[b].id = sent
      BY <2>2 DEF Triggered, TypeOK
    <3>2. \A b \in active : handled'[b] = handled[b]
      BY <1>7, <3>1, HandledLast
    <3> QED
      BY <2>1, <2>2, <3>2 DEF Triggered, Enabled, Last
  <2> QED
    BY <2>1, <2>2 DEF TrigInv
<1>8. CASE UNCHANGED <<l0, state, op, active, stream, handled, sent>>
  BY <1>8 DEF TrigInv, Triggered, Enabled, Last
<1>9. ASSUME NEW c \in Clients,
             ServiceStatus(c) \/ Timing(c) \/ ChunkRequest(c) \/ AsyncError(c)
      PROVE  UNCHANGED <<l0, state, op, active, stream, handled, sent>>
  BY <1>9 DEF ServiceStatus, Timing, ChunkRequest, AsyncError
<1>10. ASSUME \/ \E g \in Goals : SetState(g)
              \/ SlowRequest \/ CheckRecord \/ SetRecord \/ UNCHANGED vars
       PROVE  UNCHANGED <<l0, state, op, active, stream, handled, sent>>
  BY <1>10 DEF SetState, SlowRequest, CheckRecord, SetRecord, vars
<1> QED
  BY <1>1, <1>2, <1>3, <1>4, <1>5, <1>6, <1>7, <1>8, <1>9, <1>10 DEF Next

-----------------------------------------------------------------------------
(***************************************************************************)
(* Theorems                                                                *)
(***************************************************************************)

LEMMA InitInv == Init => IInv /\ TrigInv
<1> SUFFICES ASSUME Init PROVE IInv /\ TrigInv
  OBVIOUS
<1>1. TypeOK
  BY InitType
<1>2. OpInv /\ BackInv /\ PhaseInv /\ StreamInv
  BY DEF Init, OpInv, BackInv, PhaseInv, StreamInv
<1>3. InboxInv
  BY DEF Init, InboxInv
<1>4. SlowInv /\ SlowUpdatesEnabled
  BY DEF Init, SlowInv, SlowUpdatesEnabled
<1>5. TrigInv
  BY ControlAssumption DEF Init, TrigInv, ControlAssumption
<1> QED
  BY <1>1, <1>2, <1>3, <1>4, <1>5 DEF IInv

\* Every step keeps the invariant, whichever puts fail and however late.
LEMMA NextInv == IInv /\ [Next]_vars => IInv'
<1> SUFFICES ASSUME IInv, [Next]_vars PROVE IInv'
  OBVIOUS
<1>1. TypeOK' /\ OpInv'
  BY TypeNext, OpNext DEF IInv
<1>2. InboxInv' /\ BackInv'
  BY <1>1, InboxNext, BackNext DEF IInv
<1>3. PhaseInv' /\ StreamInv'
  BY <1>1, PhaseNext, StreamNext DEF IInv
<1>4. SlowInv' /\ SlowUpdatesEnabled'
  BY <1>1, SlowNext DEF IInv
<1> QED
  BY <1>1, <1>2, <1>3, <1>4 DEF IInv

LEMMA Invariance == Spec => []IInv
<1> QED
  BY InitInv, NextInv, PTL DEF Spec

\* The state has its type, and only clients that answered the rollcall are
\* active, for any clients and bounds and whatever fails.
THEOREM TypeCorrect == Spec => []TypeOK
<1>1. IInv => TypeOK
  BY DEF IInv
<1> QED
  BY <1>1, Invariance, PTL

\* Slow updates are in the timing stream only between enable and disable:
\* the slow update thread's stale request is dropped by service_requests.
THEOREM SlowUpdatesBetween == Spec => []SlowUpdatesEnabled
<1>1. IInv => SlowUpdatesEnabled
  BY DEF IInv
<1> QED
  BY <1>1, Invariance, PTL

\* A transition goes into the timing stream only in Insert.
LEMMA InsertsOnly ==
  ASSUME IInv, [Next]_vars, Inserts
  PROVE  Insert
<1>1. stream \in Seq(TwoPhase \cup {"slowupdate"})
  BY DEF IInv, TypeOK
<1>2. CASE SlowUpdate
  <2>1. stream' = stream \/ stream' = Append(stream, "slowupdate")
    BY <1>2 DEF SlowUpdate
  <2> QED
    BY <1>1, <2>1 DEF Inserts
<1>3. CASE UNCHANGED stream
  BY <1>1, <1>3 DEF Inserts
<1> QED
  BY <1>2, <1>3, StreamSteps

\* condition_common's msg_id works: when a transition is put into the timing
\* stream, every active client has handled its phase 1 message and nothing
\* since, whatever answers, errors and repeated rollcalls were late.
THEOREM HandledBeforeInserted == Spec => InsertedWhenHandled
<1>1. IInv /\ [Next]_vars =>
        [Inserts => \A c \in active : handled[c] = [key |-> op, id |-> sent]]_vars
  <2> SUFFICES ASSUME IInv, [Next]_vars, Inserts, NEW c \in active
               PROVE  handled[c] = [key |-> op, id |-> sent]
    OBVIOUS
  <2>1. phase = 1 /\ ids = {} /\ op # "rollcall"
    BY InsertsOnly DEF Insert, TwoPhase
  <2> QED
    BY <2>1 DEF IInv, PhaseInv
<1> QED
  BY <1>1, Invariance, PTL DEF Spec, InsertedWhenHandled

LEMMA TrigNextInv ==
  "late" \notin PutFaults => (IInv /\ TrigInv /\ [Next]_vars => TrigInv')
<1> SUFFICES ASSUME "late" \notin PutFaults, IInv, TrigInv, [Next]_vars PROVE TrigInv'
  OBVIOUS
<1>1. IInv'
  BY NextInv
<1> QED
  BY <1>1, TrigNext DEF IInv

\* If no put that control took for failed has its effect later, triggers are
\* on only in running, with the stream and all active clients enabled (or
\* where the XPM was never reached).
THEOREM TriggersEnabled ==
  "late" \notin PutFaults => (Spec => []TriggersNeedEnable)
<1> SUFFICES ASSUME "late" \notin PutFaults PROVE Spec => []TriggersNeedEnable
  OBVIOUS
<1>1. IInv /\ TrigInv /\ [Next]_vars => TrigInv'
  BY TrigNextInv
<1>2. TrigInv => TriggersNeedEnable
  BY DEF TrigInv, Triggered, Enabled, Last, TriggersNeedEnable
<1> QED
  BY <1>1, <1>2, InitInv, Invariance, PTL DEF Spec

\* Under the same assumption the triggers are off whenever a transition goes
\* into the timing stream, as the order of condition_enable and
\* condition_disable is meant to ensure.
THEOREM TransitionsQuiet ==
  "late" \notin PutFaults => (Spec => QuietTransitions)
<1> SUFFICES ASSUME "late" \notin PutFaults PROVE Spec => QuietTransitions
  OBVIOUS
<1>1. IInv /\ TrigInv /\ [Next]_vars => TrigInv'
  BY TrigNextInv
<1>2. IInv /\ TrigInv /\ [Next]_vars => [Inserts => ~l0]_vars
  <2> SUFFICES ASSUME IInv, TrigInv, [Next]_vars, Inserts PROVE ~l0
    OBVIOUS
  <2>1. op \in TwoPhase /\ op # "none"
    BY InsertsOnly DEF Insert, TwoPhase
  <2>2. PICK s \in States : <<op, s>> \in Legal(state)
    BY <2>1 DEF IInv, OpInv
  <2>3. state \notin {"reset", "unallocated"}
    BY <2>1, <2>2, LegalTable DEF TwoPhase
  <2> QED
    BY <2>1, <2>3 DEF TrigInv, Triggered
<1> QED
  BY <1>1, <1>2, InitInv, Invariance, PTL DEF Spec, QuietTransitions
=============================================================================
