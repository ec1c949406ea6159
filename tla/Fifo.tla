-------------------------------- MODULE Fifo --------------------------------
(***************************************************************************)
(* What SPSCQueue promises: values come out once each, in the order they   *)
(* went in, at most Capacity of them are in between, none is left behind   *)
(* when the reader is told to stop, and a reader that waits gets them.     *)
(***************************************************************************)
EXTENDS Naturals, Sequences

CONSTANTS Value, Capacity

VARIABLES
  queue,     \* what is in between
  out,       \* the value that came out last
  reading    \* the reader has not been told to stop

vars == <<queue, out, reading>>

Init == queue = << >> /\ out \in Value /\ reading = TRUE

Put(v) ==
  /\ Len(queue) < Capacity
  /\ queue' = Append(queue, v)
  /\ UNCHANGED <<out, reading>>

Get ==
  /\ reading /\ queue # << >>
  /\ out' = Head(queue) /\ queue' = Tail(queue)
  /\ UNCHANGED reading

\* The reader stops, but not with values in the queue.
Stop ==
  /\ reading /\ queue = << >>
  /\ reading' = FALSE
  /\ UNCHANGED <<queue, out>>

Restart ==
  /\ ~reading
  /\ reading' = TRUE /\ queue' = << >>
  /\ UNCHANGED out

Next == (\E v \in Value : Put(v)) \/ Get \/ Stop \/ Restart

Safety == Init /\ [][Next]_vars

Spec == Safety /\ WF_vars(Get)
=============================================================================
