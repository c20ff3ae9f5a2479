------------------------------- MODULE Worker -------------------------------
(***************************************************************************)
(* The workers of a plugin (src/src/worker.c) and the three threads that   *)
(* use them:                                                               *)
(*                                                                         *)
(*   main thread    launches and stops the threaded worker                 *)
(*                  (jalv_activate, jalv_deactivate), and works at once    *)
(*                  for a plugin whose restore() schedules work            *)
(*   audio thread   schedules work from the plugin's run(), and hands it   *)
(*                  the responses (jalv_run)                               *)
(*   worker thread  worker_func                                            *)
(*                                                                         *)
(* They share the semaphore and the rings of each worker and, since both   *)
(* workers call the work() of one plugin, a lock.  The plugin is external: *)
(* it may schedule and answer as it likes.  A ring is the sequence of the  *)
(* whole packets in it, for jalv_worker_write_packet commits a size and    *)
(* its data in one transaction.                                            *)
(***************************************************************************)
EXTENDS Naturals, Sequences, SequencesExt

CONSTANTS
  Sizes,          \* sizes of a request or a response, in bytes
  RingBytes,      \* what a ring can hold; 4095 in the code
  MaxRequests,    \* bound: requests the threaded worker accepts
  MaxStateWork,   \* bound: requests of restore()
  MaxResponses    \* bound: responses of one call of work()

ASSUME WorkerAssumption ==
  /\ Sizes \subseteq Nat \ {0} /\ RingBytes \in Nat
  /\ MaxRequests \in Nat /\ MaxStateWork \in Nat /\ MaxResponses \in Nat

(* The threaded worker, and the single-threaded one for restore(). *)
Workers == {"worker", "state_worker"}

VARIABLES
  state,      \* worker->state of the threaded worker
  sem,        \* the count of worker->sem
  lock,       \* the count of the lock of work()
  requests,   \* worker->requests of the threaded worker
  responses,  \* worker->responses of each worker
  mainPc,     \* what the main thread is doing
  audioPc,    \* what the audio thread is doing
  workerPc,   \* what the worker thread is doing
  active,     \* the backend calls back
  current,    \* the request the worker thread has read into its buffer
  budget,     \* responses the call of work() may still write, by worker
  accepted,   \* history: requests accepted by the threaded worker
  stateWork,  \* history: calls of work() for restore()
  sent,       \* history: responses written, by worker
  received    \* history: responses the plugin was given, by worker

threads == <<mainPc, audioPc, workerPc, active>>
rings   == <<requests, responses>>
ghosts  == <<accepted, stateWork, sent, received>>
vars    == <<state, sem, lock, rings, threads, current, budget, ghosts>>

Packets == [number : Nat \ {0}, bytes : Sizes]

TypeOK ==
  /\ state \in {"STOPPED", "LAUNCHED", "MUST_EXIT"}
  /\ sem \in Nat /\ lock \in {0, 1}
  /\ requests \in Seq(Packets) /\ responses \in [Workers -> Seq(Packets)]
  /\ mainPc \in {"opening", "idle", "locking", "working", "deactivating",
                 "posting", "joining", "closed"}
  /\ audioPc \in {"idle", "running", "posting", "state_worker", "worker"}
  /\ workerPc \in {"none", "waiting", "woken", "locking", "working", "exited"}
  /\ active \in BOOLEAN
  /\ current \in Nat
  /\ budget \in [Workers -> 0..MaxResponses]
  /\ accepted \in 0..MaxRequests /\ stateWork \in 0..MaxStateWork
  /\ sent \in [Workers -> Nat] /\ received \in [Workers -> Nat]

Init ==
  /\ state = "STOPPED" /\ sem = 0 /\ lock = 1
  /\ requests = <<>> /\ responses = [w \in Workers |-> <<>>]
  /\ mainPc = "opening" /\ audioPc = "idle" /\ workerPc = "none"
  /\ active = FALSE /\ current = 0
  /\ budget = [w \in Workers |-> 0]
  /\ accepted = 0 /\ stateWork = 0
  /\ sent = [w \in Workers |-> 0] /\ received = [w \in Workers |-> 0]

-----------------------------------------------------------------------------
(* The rings. *)

UsedBytes(ring) == FoldLeft(LAMBDA n, packet : n + 4 + packet.bytes, 0, ring)

(* jalv_worker_write_packet has room for a size and the data, or fails. *)
Fits(ring, bytes) == UsedBytes(ring) + 4 + bytes <= RingBytes

Packet(number, bytes) == [number |-> number, bytes |-> bytes]

(* A mutant: when there is no room, the response is taken as written. *)
RespondLosing(w, bytes) ==
  /\ budget[w] > 0
  /\ budget' = [budget EXCEPT ![w] = @ - 1]
  /\ responses' = IF Fits(responses[w], bytes)
                    THEN [responses EXCEPT ![w] =
                            Append(@, Packet(sent[w] + 1, bytes))]
                    ELSE responses
  /\ sent' = [sent EXCEPT ![w] = @ + 1]
  /\ UNCHANGED <<state, sem, lock, requests, threads, current, accepted,
                 stateWork, received>>

(* jalv_worker_respond, called by the plugin during work(), which learns   *)
(* whether there was room.                                                 *)
Respond(w, bytes) ==
  /\ budget[w] > 0
  /\ budget' = [budget EXCEPT ![w] = @ - 1]
  /\ IF Fits(responses[w], bytes)
       THEN /\ responses' = [responses EXCEPT ![w] =
                               Append(@, Packet(sent[w] + 1, bytes))]
            /\ sent' = [sent EXCEPT ![w] = @ + 1]
       ELSE UNCHANGED <<responses, sent>>
  /\ UNCHANGED <<state, sem, lock, requests, threads, current, accepted,
                 stateWork, received>>

-----------------------------------------------------------------------------
(* The main thread. *)

(* jalv_activate launches the worker, whose thread begins to wait, and     *)
(* then the backend; it ignores a launch that fails.                       *)
Activate(launched) ==
  /\ mainPc = "opening"
  /\ mainPc' = "idle" /\ active' = TRUE
  /\ IF launched THEN state' = "LAUNCHED" /\ sem' = 0 /\ workerPc' = "waiting"
                 ELSE UNCHANGED <<state, sem, workerPc>>
  /\ UNCHANGED <<lock, rings, audioPc, current, budget, ghosts>>

(* restore() schedules work with the single-threaded worker, before or     *)
(* after the activation.                                                   *)
ScheduleStateWork ==
  /\ \/ mainPc = "opening"
     \/ mainPc = "idle"
  /\ stateWork < MaxStateWork
  /\ stateWork' = stateWork + 1
  /\ mainPc' = "locking"
  /\ UNCHANGED <<state, sem, lock, rings, audioPc, workerPc, active, current,
                 budget, accepted, sent, received>>

(* A mutant: does not take the lock. *)
BeginStateWorkUnlocked ==
  /\ mainPc = "locking"
  /\ mainPc' = "working"
  /\ budget' = [budget EXCEPT !["state_worker"] = MaxResponses]
  /\ UNCHANGED <<state, sem, lock, rings, audioPc, workerPc, active, current,
                 ghosts>>

(* It takes the lock and calls work() in this thread. *)
BeginStateWork ==
  /\ mainPc = "locking" /\ lock > 0
  /\ lock' = lock - 1
  /\ mainPc' = "working"
  /\ budget' = [budget EXCEPT !["state_worker"] = MaxResponses]
  /\ UNCHANGED <<state, sem, rings, audioPc, workerPc, active, current, ghosts>>

StateRespond(bytes) == mainPc = "working" /\ Respond("state_worker", bytes)

EndStateWork ==
  /\ mainPc = "working"
  /\ lock' = lock + 1
  /\ mainPc' = IF active THEN "idle" ELSE "opening"
  /\ budget' = [budget EXCEPT !["state_worker"] = 0]
  /\ UNCHANGED <<state, sem, rings, audioPc, workerPc, active, current, ghosts>>

(* jalv_deactivate stops the backend, which waits for the callback. *)
DeactivateBackend ==
  /\ mainPc = "idle" /\ audioPc = "idle"
  /\ active' = FALSE
  /\ mainPc' = "deactivating"
  /\ UNCHANGED <<state, sem, lock, rings, audioPc, workerPc, current, budget,
                 ghosts>>

(* jalv_worker_exit, after the plugin was deactivated: a launched worker   *)
(* is told to exit, woken and joined.                                      *)
RequestExit ==
  /\ mainPc = "deactivating"
  /\ IF state = "LAUNCHED" THEN state' = "MUST_EXIT" /\ mainPc' = "posting"
                           ELSE mainPc' = "closed" /\ UNCHANGED state
  /\ UNCHANGED <<sem, lock, rings, audioPc, workerPc, active, current, budget,
                 ghosts>>

(* A mutant: does not wake the worker thread. *)
PostExitForgotten ==
  /\ mainPc = "posting"
  /\ mainPc' = "joining"
  /\ UNCHANGED <<state, sem, lock, rings, audioPc, workerPc, active, current,
                 budget, ghosts>>

PostExit ==
  /\ mainPc = "posting"
  /\ sem' = sem + 1
  /\ mainPc' = "joining"
  /\ UNCHANGED <<state, lock, rings, audioPc, workerPc, active, current, budget,
                 ghosts>>

(* A mutant: does not wait for the worker thread. *)
JoinAtOnce ==
  /\ mainPc = "joining"
  /\ mainPc' = "closed"
  /\ UNCHANGED <<state, sem, lock, rings, audioPc, workerPc, active, current,
                 budget, ghosts>>

Join ==
  /\ mainPc = "joining" /\ workerPc = "exited"
  /\ mainPc' = "closed"
  /\ UNCHANGED <<state, sem, lock, rings, audioPc, workerPc, active, current,
                 budget, ghosts>>

(* The plugin and the workers are freed; the program ends. *)
Closed == mainPc = "closed" /\ UNCHANGED vars

-----------------------------------------------------------------------------
(* The audio thread. *)

BeginRun ==
  /\ active /\ audioPc = "idle"
  /\ audioPc' = "running"
  /\ UNCHANGED <<state, sem, lock, rings, mainPc, workerPc, active, current,
                 budget, ghosts>>

(* A mutant: schedules with a worker that was not launched. *)
ScheduleUnlaunched(bytes) ==
  /\ audioPc = "running"
  /\ accepted < MaxRequests
  /\ Fits(requests, bytes)
  /\ requests' = Append(requests, Packet(accepted + 1, bytes))
  /\ accepted' = accepted + 1
  /\ audioPc' = "posting"
  /\ UNCHANGED <<state, sem, lock, responses, mainPc, workerPc, active, current,
                 budget, stateWork, sent, received>>

(* jalv_worker_schedule, called by run(): a launched worker is sent the    *)
(* request if its ring has room.  Otherwise the plugin gets an error, and  *)
(* nothing changes.                                                        *)
Schedule(bytes) ==
  /\ audioPc = "running"
  /\ state = "LAUNCHED" /\ accepted < MaxRequests
  /\ Fits(requests, bytes)
  /\ requests' = Append(requests, Packet(accepted + 1, bytes))
  /\ accepted' = accepted + 1
  /\ audioPc' = "posting"
  /\ UNCHANGED <<state, sem, lock, responses, mainPc, workerPc, active, current,
                 budget, stateWork, sent, received>>

(* A mutant: does not wake the worker thread. *)
PostRequestForgotten ==
  /\ audioPc = "posting"
  /\ audioPc' = "running"
  /\ UNCHANGED <<state, sem, lock, rings, mainPc, workerPc, active, current,
                 budget, ghosts>>

PostRequest ==
  /\ audioPc = "posting"
  /\ sem' = sem + 1
  /\ audioPc' = "running"
  /\ UNCHANGED <<state, lock, rings, mainPc, workerPc, active, current, budget,
                 ghosts>>

(* A mutant: emits the responses of the threaded worker only. *)
EndRunOneWorker ==
  /\ audioPc = "running"
  /\ audioPc' = "worker"
  /\ UNCHANGED <<state, sem, lock, rings, mainPc, workerPc, active, current,
                 budget, ghosts>>

EndRun ==
  /\ audioPc = "running"
  /\ audioPc' = "state_worker"
  /\ UNCHANGED <<state, sem, lock, rings, mainPc, workerPc, active, current,
                 budget, ghosts>>

(* One turn of jalv_worker_emit_responses hands a response to the plugin.  *)
EmitResponse(w) ==
  /\ audioPc = w /\ responses[w] # <<>>
  /\ received' = [received EXCEPT ![w] = Head(responses[w]).number]
  /\ responses' = [responses EXCEPT ![w] = Tail(@)]
  /\ UNCHANGED <<state, sem, lock, requests, threads, current, budget, accepted,
                 stateWork, sent>>

(* It finds no more: the worker for restore() comes first. *)
NoMoreResponses(w) ==
  /\ audioPc = w /\ responses[w] = <<>>
  /\ audioPc' = IF w = "state_worker" THEN "worker" ELSE "idle"
  /\ UNCHANGED <<state, sem, lock, rings, mainPc, workerPc, active, current,
                 budget, ghosts>>

-----------------------------------------------------------------------------
(* The worker thread. *)

Wake ==
  /\ workerPc = "waiting" /\ sem > 0
  /\ sem' = sem - 1
  /\ workerPc' = "woken"
  /\ UNCHANGED <<state, lock, rings, mainPc, audioPc, active, current, budget,
                 ghosts>>

Exit ==
  /\ workerPc = "woken" /\ state = "MUST_EXIT"
  /\ state' = "STOPPED"
  /\ workerPc' = "exited"
  /\ UNCHANGED <<sem, lock, rings, mainPc, audioPc, active, current, budget,
                 ghosts>>

(* A mutant: without memory for the request, leaves it in the ring. *)
TakeRequestUnlessNoMemory ==
  /\ workerPc = "woken" /\ state # "MUST_EXIT"
  /\ \/ /\ requests' = Tail(requests)
        /\ workerPc' = "locking" /\ current' = Head(requests).number
     \/ /\ workerPc' = "waiting" /\ UNCHANGED <<requests, current>>
  /\ UNCHANGED <<state, sem, lock, responses, mainPc, audioPc, active, budget,
                 ghosts>>

(* It reads the request, or skips it if it has no memory for it. *)
TakeRequest ==
  /\ workerPc = "woken" /\ state # "MUST_EXIT"
  /\ requests' = Tail(requests)
  /\ \/ workerPc' = "locking" /\ current' = Head(requests).number
     \/ workerPc' = "waiting" /\ UNCHANGED current
  /\ UNCHANGED <<state, sem, lock, responses, mainPc, audioPc, active, budget,
                 ghosts>>

BeginWork ==
  /\ workerPc = "locking" /\ lock > 0
  /\ lock' = lock - 1
  /\ workerPc' = "working"
  /\ budget' = [budget EXCEPT !["worker"] = MaxResponses]
  /\ UNCHANGED <<state, sem, rings, mainPc, audioPc, active, current, ghosts>>

WorkerRespond(bytes) == workerPc = "working" /\ Respond("worker", bytes)

EndWork ==
  /\ workerPc = "working"
  /\ lock' = lock + 1
  /\ workerPc' = "waiting" /\ current' = 0
  /\ budget' = [budget EXCEPT !["worker"] = 0]
  /\ UNCHANGED <<state, sem, rings, mainPc, audioPc, active, ghosts>>

-----------------------------------------------------------------------------
(* What the user and the plugin may do, but need not. *)
Choice ==
  \/ ScheduleStateWork \/ DeactivateBackend
  \/ \E bytes \in Sizes : Schedule(bytes) \/ StateRespond(bytes)
                            \/ WorkerRespond(bytes)

Main ==
  \/ \E launched \in BOOLEAN : Activate(launched)
  \/ BeginStateWork \/ EndStateWork
  \/ RequestExit \/ PostExit \/ Join

Audio ==
  \/ BeginRun \/ PostRequest \/ EndRun
  \/ \E w \in Workers : EmitResponse(w) \/ NoMoreResponses(w)

WorkerThread == Wake \/ Exit \/ TakeRequest \/ BeginWork \/ EndWork

Next == Choice \/ Main \/ Audio \/ WorkerThread \/ Closed

(* Every thread is scheduled, the backend calls back as long as it is      *)
(* active, and run(), work() and restore() return.                         *)
Fairness == WF_vars(Main) /\ WF_vars(Audio) /\ WF_vars(WorkerThread)

Spec == Init /\ [][Next]_vars /\ Fairness

-----------------------------------------------------------------------------
(* Properties. *)

(* The plugin's work() is never called by two threads at once. *)
WorkExcluded == ~(workerPc = "working" /\ mainPc = "working")

(* One if p holds: to count who holds what. *)
One(p) == IF p THEN 1 ELSE 0

(* The semaphore stands for the requests in the ring, but for the post     *)
(* that follows a request, the one that was taken before it and the one    *)
(* that asks to exit: whoever is woken finds a whole request, or exits.    *)
SemCountsRequests ==
  /\ sem + One(workerPc = "woken") + One(audioPc = "posting")
         + One(workerPc = "exited")
       = Len(requests)
           + One(workerPc # "none" /\ mainPc \in {"joining", "closed"})
  /\ workerPc = "none" => requests = <<>>

(* The order of jalv_deactivate: the worker is asked to exit when no cycle *)
(* can schedule any more, so that jalv_worker_schedule never drops a       *)
(* request silently, and it is over when the plugin is freed.              *)
StopsInOrder ==
  /\ state = "MUST_EXIT" => ~active /\ audioPc = "idle"
  /\ mainPc = "closed" => workerPc \in {"none", "exited"} /\ lock = 1

(* What the properties above rest on, and what makes them inductive: who   *)
(* holds the lock, what state the worker is in while the main thread and   *)
(* the worker thread are where they are, and which thread can act at all.  *)
Discipline ==
  /\ lock + One(mainPc = "working") + One(workerPc = "working") = 1
  /\ ~active /\ mainPc \in {"opening", "locking", "working"} =>
       state = "STOPPED" /\ workerPc = "none"
  /\ active => mainPc \in {"idle", "locking", "working"}
  /\ mainPc = "idle" \/ audioPc # "idle" => active
  /\ state = "LAUNCHED" => active \/ mainPc = "deactivating"
  /\ state = "MUST_EXIT" => mainPc \in {"posting", "joining"}
  /\ state = "STOPPED" <=> workerPc \in {"none", "exited"}
  /\ workerPc = "none" => mainPc \notin {"posting", "joining"}
  /\ workerPc = "exited" => mainPc \in {"posting", "joining", "closed"}
  /\ mainPc = "closed" => state = "STOPPED"
  /\ audioPc = "posting" => state = "LAUNCHED"
  /\ current # 0 <=> workerPc \in {"locking", "working"}

(* Responses reach the plugin in the order they were written, each once,   *)
(* although the worker writes them during the loop that reads them.        *)
ResponsesInOrder ==
  \A w \in Workers :
    /\ received[w] + Len(responses[w]) = sent[w]
    /\ \A i \in DOMAIN responses[w] : responses[w][i].number = received[w] + i

(* The threaded worker implements the queue of module WorkQueue. *)
QueueStatus ==
  IF mainPc = "closed" THEN "closed"
  ELSE IF state = "LAUNCHED" THEN "open"
  ELSE IF mainPc \in {"posting", "joining"} THEN "closing"
  ELSE IF active \/ mainPc = "deactivating" THEN "closed" ELSE "new"

QueueNumbers == [i \in DOMAIN requests |-> requests[i].number]

Queue == INSTANCE WorkQueue WITH status <- QueueStatus, queue <- QueueNumbers,
                                 last <- accepted, current <- current

QueueSpec == Queue!Spec

(* A request that was accepted is worked on or given up, unless the worker *)
(* is stopped before.                                                      *)
Waits(n) ==
  state = "LAUNCHED" /\ (current = n \/ \E i \in DOMAIN requests : requests[i].number = n)

RequestsServed == \A n \in 1..MaxRequests : Waits(n) ~> ~Waits(n)

(* A response that was written is handed to the plugin, unless the backend *)
(* is stopped before, even of work done before it was started.             *)
ResponsesDelivered ==
  \A w \in Workers, n \in 1..(MaxRequests * MaxResponses) :
    active /\ sent[w] >= n ~> received[w] >= n \/ ~active

(* jalv_worker_exit returns, whatever the worker was doing. *)
ExitReturns == mainPc = "deactivating" ~> mainPc = "closed"

=============================================================================
