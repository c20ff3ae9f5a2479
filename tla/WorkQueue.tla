------------------------------ MODULE WorkQueue ------------------------------
(***************************************************************************)
(* What a threaded worker promises a plugin (src/src/worker.h): requests   *)
(* it accepts are worked on one at a time, in the order they were          *)
(* accepted, each at most once, and only while the worker is open; once it *)
(* is closed, no work is in progress.  A request can be given up, and      *)
(* closing leaves the rest of the requests undone.                         *)
(***************************************************************************)
EXTENDS Naturals, Sequences

VARIABLES
  status,    \* "new", "open", "closing" or "closed"
  queue,     \* the requests to work on, by number
  last,      \* the number of the last request accepted
  current    \* the request being worked on, or zero

vars == <<status, queue, last, current>>

Init == status = "new" /\ queue = <<>> /\ last = 0 /\ current = 0

Open ==
  /\ status = "new"
  /\ status' \in {"open", "closed"}
  /\ UNCHANGED <<queue, last, current>>

Accept ==
  /\ status = "open"
  /\ last' = last + 1
  /\ queue' = Append(queue, last + 1)
  /\ UNCHANGED <<status, current>>

Begin ==
  /\ status = "open" /\ queue # <<>> /\ current = 0
  /\ current' = Head(queue)
  /\ queue' = Tail(queue)
  /\ UNCHANGED <<status, last>>

GiveUp ==
  /\ status = "open" /\ queue # <<>> /\ current = 0
  /\ queue' = Tail(queue)
  /\ UNCHANGED <<status, last, current>>

Finish ==
  /\ current # 0
  /\ current' = 0
  /\ UNCHANGED <<status, queue, last>>

Close ==
  /\ \/ status = "open" /\ status' = "closing"
     \/ status = "closing" /\ current = 0 /\ status' = "closed"
  /\ UNCHANGED <<queue, last, current>>

Next == Open \/ Accept \/ Begin \/ GiveUp \/ Finish \/ Close

Spec == Init /\ [][Next]_vars
=============================================================================
