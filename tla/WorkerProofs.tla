---------------------------- MODULE WorkerProofs ----------------------------
(***************************************************************************)
(* What holds of the workers for every size of the rings, every number of  *)
(* requests and every interleaving of the three threads.                   *)
(*                                                                         *)
(* The invariant is the conjunction of the types, of Discipline (who may   *)
(* hold the lock, and which thread can act in which state of the worker)   *)
(* and of SemCountsRequests.  None stands alone: that a request is there   *)
(* when the worker thread takes one rests on the count of the semaphore,   *)
(* and that the count is right at an exit rests on the discipline.         *)
(***************************************************************************)
EXTENDS Worker, SequenceTheorems, TLAPS

USE WorkerAssumption DEF WorkerAssumption

Inv == TypeOK /\ Discipline /\ SemCountsRequests

Steps ==
  \/ \E launched \in BOOLEAN : Activate(launched)
  \/ ScheduleStateWork \/ BeginStateWork \/ EndStateWork
  \/ DeactivateBackend \/ RequestExit \/ PostExit \/ Join
  \/ BeginRun \/ PostRequest \/ EndRun
  \/ Wake \/ Exit \/ BeginWork \/ EndWork
  \/ \E w \in Workers : NoMoreResponses(w)
  \/ UNCHANGED vars

(* The steps, those that leave the rings alone together. *)
LEMMA NextCases ==
  ASSUME [Next]_vars
  PROVE  \/ Steps
         \/ \E bytes \in Sizes : Schedule(bytes)
         \/ TakeRequest
         \/ \E w \in Workers : EmitResponse(w)
         \/ mainPc = "working" /\ \E bytes \in Sizes : Respond("state_worker", bytes)
         \/ workerPc = "working" /\ \E bytes \in Sizes : Respond("worker", bytes)
BY DEF Next, Choice, Main, Audio, WorkerThread, Closed, Steps, StateRespond,
   WorkerRespond

LEMMA StepsLeaveRings ==
  ASSUME Steps
  PROVE  UNCHANGED <<rings, accepted, sent, received>>
BY DEF Steps, Activate, ScheduleStateWork, BeginStateWork, EndStateWork,
   DeactivateBackend, RequestExit, PostExit, Join, BeginRun, PostRequest, EndRun,
   Wake, Exit, BeginWork, EndWork, NoMoreResponses, vars, rings, ghosts, threads

-----------------------------------------------------------------------------
(* The worker thread never takes a request from an empty ring. *)

LEMMA RequestFound ==
  ASSUME Inv, TakeRequest
  PROVE  /\ requests # <<>> /\ Head(requests) = requests[1]
         /\ Head(requests) \in Packets
         /\ Tail(requests) \in Seq(Packets)
         /\ Len(Tail(requests)) = Len(requests) - 1
<1>1. requests \in Seq(Packets) /\ sem \in Nat /\ Len(requests) \in Nat
  BY DEF Inv, TypeOK
<1>2. workerPc = "woken" /\ state # "MUST_EXIT"
  BY DEF TakeRequest
<1>3. state = "LAUNCHED"
  BY <1>2 DEF Inv, TypeOK, Discipline
<1>4. mainPc \notin {"joining", "closed"}
  BY <1>3 DEF Inv, Discipline
<1>5. Len(requests) > 0
  <2>1. sem + 1 + One(audioPc = "posting") + 0 = Len(requests) + 0
    BY <1>2, <1>4 DEF Inv, SemCountsRequests, One
  <2> QED BY <1>1, <2>1 DEF One
<1> QED BY <1>1, <1>5

-----------------------------------------------------------------------------
(* Types. *)

LEMMA InitInv == Init => Inv
<1> SUFFICES ASSUME Init
             PROVE  Inv
  OBVIOUS
<1>1. /\ responses \in [Workers -> Seq(Packets)] /\ budget \in [Workers -> 0..MaxResponses]
      /\ sent \in [Workers -> Nat] /\ received \in [Workers -> Nat]
  BY DEF Init
<1>2. requests \in Seq(Packets) /\ accepted \in 0..MaxRequests
      /\ stateWork \in 0..MaxStateWork
  BY DEF Init
<1>3. TypeOK
  BY <1>1, <1>2 DEF Init, TypeOK
<1>4. Discipline /\ SemCountsRequests
  BY DEF Init, Discipline, SemCountsRequests, One
<1> QED BY <1>3, <1>4 DEF Inv

LEMMA TypeStep == Inv /\ [Next]_vars => TypeOK'
<1> SUFFICES ASSUME Inv, [Next]_vars
             PROVE  TypeOK'
  OBVIOUS
<1>0. TypeOK
  BY DEF Inv
<1> USE DEF threads, rings, ghosts
<1>1. CASE Steps
  <2>1. UNCHANGED <<requests, responses, accepted, sent, received>>
    BY <1>1, StepsLeaveRings
  <2>2. lock' \in {0, 1}
    BY <1>0, <1>1
       DEF Inv, TypeOK, Discipline, One, Steps, Activate, ScheduleStateWork,
           BeginStateWork, EndStateWork, DeactivateBackend, RequestExit, PostExit,
           Join, BeginRun, PostRequest, EndRun, Wake, Exit, BeginWork, EndWork,
           NoMoreResponses, vars
  <2>3. sem' \in Nat
    BY <1>0, <1>1
       DEF TypeOK, Steps, Activate, ScheduleStateWork,
           BeginStateWork, EndStateWork, DeactivateBackend, RequestExit, PostExit,
           Join, BeginRun, PostRequest, EndRun, Wake, Exit, BeginWork, EndWork,
           NoMoreResponses, vars
  <2>4. /\ state' \in {state, "STOPPED", "LAUNCHED", "MUST_EXIT"}
        /\ active' \in {active, TRUE, FALSE} /\ current' \in {current, 0}
    BY <1>1
       DEF Steps, Activate, ScheduleStateWork,
           BeginStateWork, EndStateWork, DeactivateBackend, RequestExit, PostExit,
           Join, BeginRun, PostRequest, EndRun, Wake, Exit, BeginWork, EndWork,
           NoMoreResponses, vars
  <2>5. /\ mainPc' \in {"opening", "idle", "locking", "working", "deactivating",
                       "posting", "joining", "closed"}
        /\ audioPc' \in {"idle", "running", "posting", "state_worker", "worker"}
        /\ workerPc' \in {"none", "waiting", "woken", "locking", "working", "exited"}
    <3>1. CASE \/ \E launched \in BOOLEAN : Activate(launched)
               \/ ScheduleStateWork \/ BeginStateWork \/ EndStateWork
               \/ DeactivateBackend \/ RequestExit \/ PostExit \/ Join
      BY <1>0, <3>1
         DEF TypeOK, Activate, ScheduleStateWork, BeginStateWork, EndStateWork,
             DeactivateBackend, RequestExit, PostExit, Join
    <3>2. CASE \/ BeginRun \/ PostRequest \/ EndRun
               \/ \E w \in Workers : NoMoreResponses(w)
      BY <1>0, <3>2 DEF TypeOK, BeginRun, PostRequest, EndRun, NoMoreResponses
    <3>3. CASE Wake \/ Exit \/ BeginWork \/ EndWork \/ UNCHANGED vars
      BY <1>0, <3>3 DEF TypeOK, Wake, Exit, BeginWork, EndWork, vars
    <3> QED BY <1>1, <3>1, <3>2, <3>3 DEF Steps
  <2>6. budget' \in [Workers -> 0..MaxResponses]
    <3>1. CASE BeginStateWork \/ EndStateWork \/ BeginWork \/ EndWork
      <4>1. PICK w \in Workers, n \in 0..MaxResponses : budget' = [budget EXCEPT ![w] = n]
        BY <3>1 DEF BeginStateWork, EndStateWork, BeginWork, EndWork, Workers
      <4> QED BY <1>0, <4>1 DEF TypeOK
    <3>2. CASE ~(BeginStateWork \/ EndStateWork \/ BeginWork \/ EndWork)
      <4>1. budget' = budget
        BY <1>1, <3>2
           DEF Steps, Activate, ScheduleStateWork, DeactivateBackend, RequestExit,
               PostExit, Join, BeginRun, PostRequest, EndRun, Wake, Exit,
               NoMoreResponses, vars
      <4> QED BY <1>0, <4>1 DEF TypeOK
    <3> QED BY <3>1, <3>2
  <2>7. stateWork' \in 0..MaxStateWork
    <3>1. CASE ScheduleStateWork
      BY <1>0, <3>1 DEF TypeOK, ScheduleStateWork
    <3>2. CASE ~ScheduleStateWork
      <4>1. stateWork' = stateWork
        BY <1>1, <3>2
           DEF Steps, Activate, BeginStateWork, EndStateWork, DeactivateBackend,
               RequestExit, PostExit, Join, BeginRun, PostRequest, EndRun, Wake,
               Exit, BeginWork, EndWork, NoMoreResponses, vars
      <4> QED BY <1>0, <4>1 DEF TypeOK
    <3> QED BY <3>1, <3>2
  <2>8. /\ state' \in {"STOPPED", "LAUNCHED", "MUST_EXIT"}
        /\ active' \in BOOLEAN /\ current' \in Nat
    <3>1. /\ state \in {"STOPPED", "LAUNCHED", "MUST_EXIT"}
          /\ active \in BOOLEAN /\ current \in Nat
      BY <1>0 DEF TypeOK
    <3>2. active' \in BOOLEAN
      BY <2>4, <3>1, Zenon
    <3> QED BY <2>4, <3>1, <3>2
  <2> QED BY <1>0, <2>1, <2>2, <2>3, <2>5, <2>6, <2>7, <2>8 DEF TypeOK
<1>2. ASSUME NEW bytes \in Sizes, Schedule(bytes)
      PROVE  TypeOK'
  <2>1. Packet(accepted + 1, bytes) \in Packets
    BY <1>0 DEF TypeOK, Packet, Packets
  <2> QED BY <1>0, <1>2, <2>1 DEF TypeOK, Schedule
<1>3. CASE TakeRequest
  BY <1>0, <1>3, RequestFound DEF TakeRequest, TypeOK, Packets
<1>4. ASSUME NEW w \in Workers, EmitResponse(w)
      PROVE  TypeOK'
  <2>1. responses[w] \in Seq(Packets) /\ responses[w] # <<>>
    BY <1>0, <1>4 DEF EmitResponse, TypeOK
  <2>2. Head(responses[w]) \in Packets /\ Tail(responses[w]) \in Seq(Packets)
    BY <2>1
  <2>3. Head(responses[w]).number \in Nat
    BY <2>2 DEF Packets
  <2> QED BY <1>0, <1>4, <2>2, <2>3 DEF EmitResponse, TypeOK
<1>5. ASSUME NEW w \in Workers, NEW bytes \in Sizes, Respond(w, bytes)
      PROVE  TypeOK'
  <2>1. Packet(sent[w] + 1, bytes) \in Packets
    BY <1>0 DEF TypeOK, Packet, Packets
  <2>2. Append(responses[w], Packet(sent[w] + 1, bytes)) \in Seq(Packets)
    BY <1>0, <2>1 DEF TypeOK
  <2>3. budget' \in [Workers -> 0..MaxResponses]
    BY <1>0, <1>5 DEF Respond, TypeOK
  <2>4. responses' \in [Workers -> Seq(Packets)] /\ sent' \in [Workers -> Nat]
    <3>1. CASE Fits(responses[w], bytes)
      <4>1. /\ responses' = [responses EXCEPT ![w] =
                               Append(@, Packet(sent[w] + 1, bytes))]
            /\ sent' = [sent EXCEPT ![w] = @ + 1]
        BY <1>5, <3>1 DEF Respond
      <4> QED BY <1>0, <2>2, <4>1 DEF TypeOK
    <3>2. CASE ~Fits(responses[w], bytes)
      BY <1>0, <1>5, <3>2 DEF Respond, TypeOK
    <3> QED BY <3>1, <3>2
  <2>5. UNCHANGED <<state, sem, lock, requests, threads, current, accepted,
                    stateWork, received>>
    BY <1>5 DEF Respond
  <2> QED BY <1>0, <2>3, <2>4, <2>5 DEF TypeOK
<1> QED
  BY <1>1, <1>2, <1>3, <1>4, <1>5, NextCases DEF Workers

-----------------------------------------------------------------------------
(* The discipline of the threads, and the count of the semaphore. *)

LEMMA RingStepsKeepThreads ==
  ASSUME \/ \E w \in Workers : EmitResponse(w)
         \/ \E w \in Workers, bytes \in Sizes : Respond(w, bytes)
  PROVE  UNCHANGED <<state, sem, lock, requests, mainPc, audioPc, workerPc, active,
                     current, accepted>>
BY DEF EmitResponse, Respond, threads

LEMMA DisciplineStep == Inv /\ [Next]_vars => Discipline'
<1> SUFFICES ASSUME Inv, [Next]_vars
             PROVE  Discipline'
  OBVIOUS
<1>0. TypeOK /\ Discipline
  BY DEF Inv
<1>1. CASE Steps
  BY <1>0, <1>1
     DEF TypeOK, Discipline, One, Steps, Activate, ScheduleStateWork,
         BeginStateWork, EndStateWork, DeactivateBackend, RequestExit, PostExit,
         Join, BeginRun, PostRequest, EndRun, Wake, Exit, BeginWork, EndWork,
         NoMoreResponses, vars, threads
<1>2. ASSUME NEW bytes \in Sizes, Schedule(bytes)
      PROVE  Discipline'
  BY <1>0, <1>2 DEF Schedule, Discipline
<1>3. CASE TakeRequest
  <2>1. Head(requests).number \in Nat \ {0}
    BY <1>3, RequestFound DEF Packets
  <2> QED BY <1>0, <1>3, <2>1 DEF TakeRequest, TypeOK, Discipline, One
<1>4. CASE \/ \E w \in Workers : EmitResponse(w)
           \/ \E w \in Workers, bytes \in Sizes : Respond(w, bytes)
  BY <1>0, <1>4, RingStepsKeepThreads DEF Discipline
<1> QED
  BY <1>1, <1>2, <1>3, <1>4, NextCases DEF Workers

LEMMA SemStep == Inv /\ [Next]_vars => SemCountsRequests'
<1> SUFFICES ASSUME Inv, [Next]_vars
             PROVE  SemCountsRequests'
  OBVIOUS
<1>0. TypeOK /\ Discipline /\ SemCountsRequests /\ Len(requests) \in Nat /\ sem \in Nat
  BY DEF Inv, TypeOK
<1>1. CASE Steps
  <2>1. requests' = requests
    BY <1>1, StepsLeaveRings DEF rings
  <2>2. CASE \E launched \in BOOLEAN : Activate(launched)
    BY <1>0, <2>1, <2>2 DEF TypeOK, Discipline, SemCountsRequests, One, Activate
  <2>3. CASE \/ ScheduleStateWork \/ BeginStateWork \/ EndStateWork
             \/ DeactivateBackend \/ RequestExit \/ Join
    BY <1>0, <2>1, <2>3
       DEF TypeOK, Discipline, SemCountsRequests, One, ScheduleStateWork,
           BeginStateWork, EndStateWork, DeactivateBackend, RequestExit, Join
  <2>4. CASE \/ BeginRun \/ EndRun \/ \E w \in Workers : NoMoreResponses(w)
             \/ BeginWork \/ EndWork
    <3>1. UNCHANGED <<mainPc, sem>>
          /\ (workerPc' = "woken" <=> workerPc = "woken")
          /\ (workerPc' = "exited" <=> workerPc = "exited")
          /\ (workerPc' = "none" <=> workerPc = "none")
          /\ (audioPc' = "posting" <=> audioPc = "posting")
      BY <2>4, <1>0 DEF BeginRun, EndRun, NoMoreResponses, BeginWork, EndWork, Workers
    <3> QED BY <1>0, <2>1, <3>1 DEF SemCountsRequests, One
  <2>5. CASE PostExit
    BY <1>0, <2>1, <2>5 DEF Discipline, SemCountsRequests, One, PostExit
  <2>6. CASE PostRequest
    BY <1>0, <2>1, <2>6 DEF SemCountsRequests, One, PostRequest
  <2>7. CASE Wake
    BY <1>0, <2>1, <2>7 DEF SemCountsRequests, One, Wake
  <2>8. CASE Exit
    BY <1>0, <2>1, <2>8 DEF SemCountsRequests, One, Exit
  <2>9. CASE UNCHANGED vars
    BY <1>0, <2>9 DEF SemCountsRequests, One, vars, threads, rings
  <2> QED BY <1>1, <2>2, <2>3, <2>4, <2>5, <2>6, <2>7, <2>8, <2>9 DEF Steps
<1>2. ASSUME NEW bytes \in Sizes, Schedule(bytes)
      PROVE  SemCountsRequests'
  <2>1. Len(requests') = Len(requests) + 1
    BY <1>0, <1>2 DEF Schedule, TypeOK
  <2>2. workerPc # "none"
    BY <1>0, <1>2 DEF Schedule, Discipline
  <2> QED BY <1>0, <1>2, <2>1, <2>2 DEF Schedule, TypeOK, SemCountsRequests, One
<1>3. CASE TakeRequest
  <2>1. Len(requests') = Len(requests) - 1 /\ workerPc' \in {"locking", "waiting"}
    BY <1>3, RequestFound DEF TakeRequest
  <2>2. UNCHANGED <<sem, mainPc, audioPc>> /\ workerPc = "woken"
    BY <1>3 DEF TakeRequest
  <2>3. sem + 1 + One(audioPc = "posting") = Len(requests)
                                               + One(mainPc \in {"joining", "closed"})
    BY <1>0, <2>2 DEF SemCountsRequests, TypeOK, One
  <2>4. sem \in Nat /\ One(audioPc = "posting") \in Nat
        /\ One(mainPc \in {"joining", "closed"}) \in Nat
        /\ sem' \in Nat /\ Len(requests') \in Nat
    BY <1>0, <1>3, <2>2, RequestFound DEF TakeRequest, TypeOK, One
  <2>5. sem' + One(audioPc' = "posting") = Len(requests')
                                             + One(mainPc' \in {"joining", "closed"})
    BY <1>0, <2>1, <2>2, <2>3, <2>4
  <2>6. /\ One(workerPc' = "woken") = 0 /\ One(workerPc' = "exited") = 0
        /\ One(workerPc' # "none" /\ mainPc' \in {"joining", "closed"})
             = One(mainPc' \in {"joining", "closed"})
        /\ One(audioPc' = "posting") \in Nat
    BY <2>1 DEF One
  <2> QED BY <2>1, <2>4, <2>5, <2>6 DEF SemCountsRequests
<1>4. CASE \/ \E w \in Workers : EmitResponse(w)
           \/ \E w \in Workers, bytes \in Sizes : Respond(w, bytes)
  BY <1>0, <1>4, RingStepsKeepThreads DEF SemCountsRequests
<1> QED
  BY <1>1, <1>2, <1>3, <1>4, NextCases DEF Workers

LEMMA InvStep == Inv /\ [Next]_vars => Inv'
BY TypeStep, DisciplineStep, SemStep DEF Inv

(* The workers keep their types, the threads their discipline, and         *)
(* whoever is woken by the semaphore finds a request or exits.             *)
THEOREM InvHolds == Spec => [](TypeOK /\ Discipline /\ SemCountsRequests)
BY InitInv, InvStep, PTL DEF Inv, Spec

(* Every variable keeps its type: above all, the lock of work() is never   *)
(* released twice.                                                         *)
THEOREM WorkerTypes == Spec => []TypeOK
BY InvHolds, PTL

(* The three threads keep to their parts: the lock has one holder at most, *)
(* the worker exists while it may be used, and only jalv_deactivate can be *)
(* under way once the worker was told to exit.                             *)
THEOREM DisciplineHolds == Spec => []Discipline
BY InvHolds, PTL

(* The work() of the plugin is never called by two threads at once. *)
THEOREM WorkIsExcluded == Spec => []WorkExcluded
<1>1. Inv => WorkExcluded
  BY DEF Inv, TypeOK, Discipline, One, WorkExcluded
<1> QED BY <1>1, InitInv, InvStep, PTL DEF Spec

(* jalv_deactivate stops the threads in an order that drops no request     *)
(* silently, and leaves no work in progress.                               *)
THEOREM StopsAreOrderly == Spec => []StopsInOrder
<1>1. Inv => StopsInOrder
  BY DEF Inv, TypeOK, Discipline, One, StopsInOrder
<1> QED BY <1>1, InitInv, InvStep, PTL DEF Spec

-----------------------------------------------------------------------------
(* Responses are numbered, and the ring holds those between the last one   *)
(* received and the last one sent.                                         *)

LEMMA ResponsesStep == Inv /\ ResponsesInOrder /\ [Next]_vars => ResponsesInOrder'
<1> SUFFICES ASSUME Inv, ResponsesInOrder, [Next]_vars
             PROVE  ResponsesInOrder'
  OBVIOUS
<1>0. ASSUME NEW v \in Workers
      PROVE  /\ responses[v] \in Seq(Packets) /\ Len(responses[v]) \in Nat
             /\ DOMAIN responses[v] = 1..Len(responses[v])
             /\ sent[v] \in Nat /\ received[v] \in Nat
             /\ received[v] + Len(responses[v]) = sent[v]
             /\ \A i \in 1..Len(responses[v]) : responses[v][i].number = received[v] + i
  <2>1. responses[v] \in Seq(Packets) /\ sent[v] \in Nat /\ received[v] \in Nat
    BY DEF Inv, TypeOK
  <2> QED BY <2>1 DEF ResponsesInOrder
<1>1. CASE UNCHANGED <<responses, sent, received>>
  BY <1>1 DEF ResponsesInOrder
<1>2. ASSUME NEW w \in Workers, EmitResponse(w)
      PROVE  ResponsesInOrder'
  <2>1. /\ responses' = [responses EXCEPT ![w] = Tail(@)] /\ sent' = sent
        /\ received' = [received EXCEPT ![w] = Head(responses[w]).number]
        /\ responses[w] # <<>>
    BY <1>2 DEF EmitResponse
  <2>2. /\ DOMAIN responses = Workers /\ DOMAIN received = Workers
    BY DEF Inv, TypeOK
  <2>3. /\ Len(responses[w]) > 0 /\ Head(responses[w]) = responses[w][1]
        /\ DOMAIN Tail(responses[w]) = 1..(Len(responses[w]) - 1)
        /\ Len(Tail(responses[w])) = Len(responses[w]) - 1
        /\ \A i \in 1..(Len(responses[w]) - 1) :
             Tail(responses[w])[i] = responses[w][i + 1]
    BY <1>0, <2>1
  <2>4. received'[w] = received[w] + 1 /\ responses'[w] = Tail(responses[w])
    BY <1>0, <2>1, <2>2, <2>3
  <2>5. received'[w] + Len(responses'[w]) = sent'[w]
    <3>1. /\ Len(responses[w]) \in Nat /\ received[w] \in Nat
          /\ received[w] + Len(responses[w]) = sent[w]
      BY <1>0
    <3>2. Len(responses'[w]) = Len(responses[w]) - 1
      BY <2>3, <2>4
    <3> QED BY <2>1, <2>4, <3>1, <3>2
  <2>6. ASSUME NEW i \in DOMAIN responses'[w]
        PROVE  responses'[w][i].number = received'[w] + i
    <3>1. i \in 1..(Len(responses[w]) - 1) /\ i + 1 \in 1..Len(responses[w])
      BY <1>0, <2>3, <2>4
    <3>2. responses'[w][i] = responses[w][i + 1]
      BY <2>3, <2>4, <3>1
    <3>3. responses[w][i + 1].number = received[w] + (i + 1)
      BY <1>0, <3>1
    <3> QED BY <1>0, <2>4, <3>1, <3>2, <3>3
  <2>7. ASSUME NEW v \in Workers, v # w
        PROVE  UNCHANGED <<responses[v], received[v], sent[v]>>
    BY <2>1, <2>2, <2>7
  <2> QED BY <1>0, <2>5, <2>6, <2>7 DEF ResponsesInOrder
<1>3. ASSUME NEW w \in Workers, NEW bytes \in Sizes, Respond(w, bytes),
             Fits(responses[w], bytes)
      PROVE  ResponsesInOrder'
  <2> DEFINE packet == Packet(sent[w] + 1, bytes)
  <2>1. /\ responses' = [responses EXCEPT ![w] = Append(@, packet)]
        /\ sent' = [sent EXCEPT ![w] = @ + 1] /\ received' = received
    BY <1>3 DEF Respond
  <2>2. DOMAIN responses = Workers /\ DOMAIN sent = Workers
    BY DEF Inv, TypeOK
  <2>3. packet \in Packets /\ packet.number = sent[w] + 1
    BY <1>0 DEF Packet, Packets
  <2> HIDE DEF packet
  <2>4. responses'[w] = Append(responses[w], packet) /\ sent'[w] = sent[w] + 1
    BY <2>1, <2>2
  <2>5. /\ Len(responses'[w]) = Len(responses[w]) + 1
        /\ DOMAIN responses'[w] = 1..(Len(responses[w]) + 1)
        /\ \A i \in 1..Len(responses[w]) : responses'[w][i] = responses[w][i]
        /\ responses'[w][Len(responses[w]) + 1] = packet
    BY <1>0, <2>3, <2>4
  <2>6. received'[w] + Len(responses'[w]) = sent'[w]
    BY <1>0, <2>1, <2>4, <2>5
  <2>7. ASSUME NEW i \in DOMAIN responses'[w]
        PROVE  responses'[w][i].number = received'[w] + i
    <3>1. CASE i \in 1..Len(responses[w])
      BY <1>0, <2>1, <2>5, <3>1
    <3>2. CASE i = Len(responses[w]) + 1
      BY <1>0, <2>1, <2>3, <2>5, <3>2
    <3> QED BY <1>0, <2>5, <3>1, <3>2
  <2>8. ASSUME NEW v \in Workers, v # w
        PROVE  UNCHANGED <<responses[v], received[v], sent[v]>>
    BY <2>1, <2>2, <2>8
  <2> QED BY <1>0, <2>6, <2>7, <2>8 DEF ResponsesInOrder
<1>4. ASSUME NEW w \in Workers, NEW bytes \in Sizes, Respond(w, bytes),
             ~Fits(responses[w], bytes)
      PROVE  UNCHANGED <<responses, sent, received>>
  BY <1>4 DEF Respond
<1>5. ASSUME Steps \/ TakeRequest \/ \E bytes \in Sizes : Schedule(bytes)
      PROVE  UNCHANGED <<responses, sent, received>>
  BY <1>5, StepsLeaveRings DEF TakeRequest, Schedule, rings, ghosts
<1> QED
  BY <1>1, <1>2, <1>3, <1>4, <1>5, NextCases DEF Workers

(* The plugin is given every response once, in the order of writing. *)
THEOREM ResponsesAreOrdered == Spec => []ResponsesInOrder
<1>1. Init => ResponsesInOrder
  BY DEF Init, ResponsesInOrder
<1> QED BY <1>1, InitInv, InvStep, ResponsesStep, PTL DEF Spec

-----------------------------------------------------------------------------
(* The threaded worker implements the queue. *)

LEMMA QueueInit == Init => Queue!Init
BY DEF Init, Queue!Init, QueueStatus, QueueNumbers

(* Numbers are added to the queue and taken from it as packets are.        *)
LEMMA QueueAppend ==
  ASSUME Inv, NEW packet \in Packets, requests' = Append(requests, packet)
  PROVE  QueueNumbers' = Append(QueueNumbers, packet.number)
<1>1. requests \in Seq(Packets) /\ Len(requests) \in Nat
      /\ DOMAIN requests = 1..Len(requests)
  BY DEF Inv, TypeOK
<1>2. /\ DOMAIN requests' = 1..(Len(requests) + 1)
      /\ \A i \in 1..Len(requests) : requests'[i] = requests[i]
      /\ requests'[Len(requests) + 1] = packet
  BY <1>1
<1>3. \A r \in Packets : r.number \in Nat
  BY DEF Packets
<1>4. QueueNumbers \in Seq(Nat) /\ Len(QueueNumbers) = Len(requests)
  BY <1>1, <1>3 DEF QueueNumbers
<1>5. /\ DOMAIN Append(QueueNumbers, packet.number) = 1..(Len(requests) + 1)
      /\ \A i \in 1..Len(requests) :
           Append(QueueNumbers, packet.number)[i] = QueueNumbers[i]
      /\ Append(QueueNumbers, packet.number)[Len(requests) + 1] = packet.number
  BY <1>1, <1>3, <1>4
<1>6. Append(QueueNumbers, packet.number)
        = [i \in 1..(Len(requests) + 1) |-> Append(QueueNumbers, packet.number)[i]]
  BY <1>4, <1>5
<1>7. \A i \in 1..(Len(requests) + 1) :
        requests'[i].number = Append(QueueNumbers, packet.number)[i]
  <2>1. ASSUME NEW i \in 1..Len(requests)
        PROVE  requests'[i].number = Append(QueueNumbers, packet.number)[i]
    BY <1>1, <1>2, <1>5 DEF QueueNumbers
  <2> QED BY <1>1, <1>2, <1>5, <2>1
<1> QED BY <1>2, <1>6, <1>7 DEF QueueNumbers

LEMMA QueueTail ==
  ASSUME Inv, requests # <<>>, requests' = Tail(requests)
  PROVE  /\ QueueNumbers # <<>> /\ Head(QueueNumbers) = Head(requests).number
         /\ QueueNumbers' = Tail(QueueNumbers)
<1>1. requests \in Seq(Packets) /\ Len(requests) \in Nat /\ Len(requests) > 0
      /\ DOMAIN requests = 1..Len(requests) /\ Head(requests) = requests[1]
  BY DEF Inv, TypeOK
<1>2. /\ DOMAIN requests' = 1..(Len(requests) - 1)
      /\ \A i \in 1..(Len(requests) - 1) : requests'[i] = requests[i + 1]
  BY <1>1
<1>3. \A r \in Packets : r.number \in Nat
  BY DEF Packets
<1>4. QueueNumbers \in Seq(Nat) /\ Len(QueueNumbers) = Len(requests)
      /\ \A i \in 1..Len(requests) : QueueNumbers[i] = requests[i].number
  BY <1>1, <1>3 DEF QueueNumbers
<1>5. QueueNumbers # <<>> /\ Head(QueueNumbers) = requests[1].number
  BY <1>1, <1>4
<1>6. /\ Tail(QueueNumbers) \in Seq(Nat)
      /\ DOMAIN Tail(QueueNumbers) = 1..(Len(requests) - 1)
      /\ \A i \in 1..(Len(requests) - 1) : Tail(QueueNumbers)[i] = QueueNumbers[i + 1]
  BY <1>1, <1>4
<1>7. Tail(QueueNumbers) = [i \in 1..(Len(requests) - 1) |-> Tail(QueueNumbers)[i]]
  BY <1>6, LenProperties
<1>8. \A i \in 1..(Len(requests) - 1) :
        requests'[i].number = Tail(QueueNumbers)[i]
  BY <1>1, <1>2, <1>4, <1>6
<1> QED BY <1>1, <1>2, <1>5, <1>7, <1>8 DEF QueueNumbers

LEMMA QueueStep == Inv /\ [Next]_vars => [Queue!Next]_Queue!vars
<1> SUFFICES ASSUME Inv, [Next]_vars
             PROVE  Queue!Next \/ UNCHANGED Queue!vars
  OBVIOUS
<1>0. TypeOK /\ Discipline
  BY DEF Inv
<1> DEFINE SameRing == UNCHANGED <<QueueNumbers, accepted>>
<1>1. CASE Steps
  <2>1. requests' = requests /\ accepted' = accepted
    BY <1>1, StepsLeaveRings DEF rings
  <2>2. SameRing
    BY <2>1 DEF QueueNumbers
  <2> HIDE DEF SameRing
  <2>3. ASSUME NEW launched \in BOOLEAN, Activate(launched)
        PROVE  Queue!Open
    <3>1. QueueStatus = "new" /\ current' = current
      BY <1>0, <2>3 DEF Activate, Discipline, QueueStatus
    <3>2. QueueStatus' \in {"open", "closed"}
      BY <1>0, <2>3 DEF Activate, Discipline, QueueStatus
    <3> QED BY <2>2, <3>1, <3>2 DEF Queue!Open, SameRing
  <2>4. ASSUME \/ ScheduleStateWork \/ BeginStateWork \/ EndStateWork
               \/ DeactivateBackend \/ PostExit
               \/ BeginRun \/ PostRequest \/ EndRun \/ Wake \/ Exit \/ BeginWork
               \/ \E w \in Workers : NoMoreResponses(w)
               \/ UNCHANGED vars
        PROVE  UNCHANGED Queue!vars
    <3>1. current' = current
      BY <2>4 DEF ScheduleStateWork, BeginStateWork, EndStateWork,
         DeactivateBackend, PostExit, BeginRun, PostRequest, EndRun, Wake, Exit,
         BeginWork, NoMoreResponses, vars
    <3>2. QueueStatus' = QueueStatus
      <4>1. CASE \/ ScheduleStateWork \/ BeginStateWork \/ EndStateWork
                 \/ DeactivateBackend \/ PostExit
        BY <1>0, <4>1 DEF ScheduleStateWork, BeginStateWork, EndStateWork,
           DeactivateBackend, PostExit, Discipline, QueueStatus
      <4>2. CASE Exit
        BY <1>0, <4>2 DEF Exit, Discipline, QueueStatus
      <4>3. CASE \/ BeginRun \/ PostRequest \/ EndRun \/ Wake \/ BeginWork
                 \/ \E w \in Workers : NoMoreResponses(w)
                 \/ UNCHANGED vars
        BY <4>3 DEF BeginRun, PostRequest, EndRun, Wake, BeginWork,
           NoMoreResponses, vars, threads, QueueStatus
      <4> QED BY <2>4, <4>1, <4>2, <4>3
    <3> QED BY <2>2, <3>1, <3>2 DEF Queue!vars, SameRing
  <2>5. ASSUME RequestExit
        PROVE  Queue!Close \/ UNCHANGED Queue!vars
    <3>1. CASE state = "LAUNCHED"
      <4>1. QueueStatus = "open" /\ QueueStatus' = "closing" /\ current' = current
        BY <2>5, <3>1 DEF RequestExit, QueueStatus
      <4> QED BY <2>2, <4>1 DEF Queue!Close, SameRing
    <3>2. CASE state # "LAUNCHED"
      <4>1. QueueStatus = "closed" /\ QueueStatus' = "closed" /\ current' = current
        BY <2>5, <3>2 DEF RequestExit, QueueStatus
      <4> QED BY <2>2, <4>1 DEF Queue!vars, SameRing
    <3> QED BY <3>1, <3>2
  <2>6. ASSUME Join
        PROVE  Queue!Close
    <3>1. QueueStatus = "closing" /\ QueueStatus' = "closed"
      BY <1>0, <2>6 DEF Join, Discipline, QueueStatus
    <3>2. current = 0 /\ current' = current
      BY <1>0, <2>6 DEF Join, Discipline
    <3> QED BY <2>2, <3>1, <3>2 DEF Queue!Close, SameRing
  <2>7. ASSUME EndWork
        PROVE  Queue!Finish
    <3>1. QueueStatus' = QueueStatus /\ current # 0 /\ current' = 0
      BY <1>0, <2>7 DEF EndWork, Discipline, QueueStatus
    <3> QED BY <2>2, <3>1 DEF Queue!Finish, SameRing
  <2> QED BY <1>1, <2>3, <2>4, <2>5, <2>6, <2>7 DEF Steps, Queue!Next
<1>2. ASSUME NEW bytes \in Sizes, Schedule(bytes)
      PROVE  Queue!Accept
  <2>1. Packet(accepted + 1, bytes) \in Packets
        /\ Packet(accepted + 1, bytes).number = accepted + 1
    BY <1>0 DEF TypeOK, Packet, Packets
  <2>2. QueueNumbers' = Append(QueueNumbers, accepted + 1)
    BY <1>2, <2>1, QueueAppend DEF Schedule
  <2>3. QueueStatus = "open" /\ QueueStatus' = QueueStatus
    BY <1>0, <1>2 DEF Schedule, Discipline, QueueStatus
  <2> QED BY <1>2, <2>2, <2>3 DEF Queue!Accept, Schedule
<1>3. ASSUME TakeRequest
      PROVE  Queue!Begin \/ Queue!GiveUp
  <2>1. /\ QueueNumbers # <<>> /\ Head(QueueNumbers) = Head(requests).number
        /\ QueueNumbers' = Tail(QueueNumbers)
    BY <1>3, RequestFound, QueueTail DEF TakeRequest
  <2>2. state = "LAUNCHED" /\ current = 0
    BY <1>0, <1>3 DEF TakeRequest, TypeOK, Discipline
  <2>3. QueueStatus = "open" /\ QueueStatus' = QueueStatus
    BY <1>0, <1>3, <2>2 DEF TakeRequest, Discipline, QueueStatus
  <2>4. accepted' = accepted
    BY <1>3 DEF TakeRequest, ghosts
  <2>5. current' = Head(requests).number \/ current' = current
    BY <1>3 DEF TakeRequest
  <2> QED BY <2>1, <2>2, <2>3, <2>4, <2>5 DEF Queue!Begin, Queue!GiveUp
<1>4. ASSUME \/ \E w \in Workers : EmitResponse(w)
             \/ \E w \in Workers, bytes \in Sizes : Respond(w, bytes)
      PROVE  UNCHANGED Queue!vars
  <2>1. UNCHANGED <<state, requests, mainPc, active, current, accepted>>
    BY <1>4, RingStepsKeepThreads
  <2> QED BY <2>1 DEF Queue!vars, QueueStatus, QueueNumbers
<1> QED
  BY <1>1, <1>2, <1>3, <1>4, NextCases DEF Workers, Queue!Next

(* Requests are worked on one at a time in the order of their acceptance,  *)
(* each at most once, and none after the worker was asked to exit.         *)
THEOREM ImplementsQueue == Spec => QueueSpec
<1>1. Inv /\ [Next]_vars => [Queue!Next]_Queue!vars
  BY QueueStep
<1> QED
  BY <1>1, QueueInit, InitInv, InvStep, PTL DEF Spec, QueueSpec, Queue!Spec

=============================================================================
