-------------------------- MODULE JalvProcessProofs --------------------------
(***************************************************************************)
(* Proofs about module JalvProcess, for every value of its constants.      *)
(***************************************************************************)
EXTENDS JalvProcess, SequenceTheorems, FiniteSetTheorems, TLAPS

USE ProcessAssumption DEF ProcessAssumption

-----------------------------------------------------------------------------
(* Facts about the operators of the model. *)

(* An attempt to write leaves the ring alone or appends the message. *)
LEMMA WrittenCases ==
  ASSUME NEW ring, NEW m, NEW capacity
  PROVE  Written(ring, m, capacity) \in {ring, Append(ring, m)}
BY DEF Written

(* So it keeps the type of the ring, and never makes the ring shorter. *)
LEMMA WrittenType ==
  ASSUME NEW S, NEW ring \in Seq(S), NEW m \in S, NEW capacity
  PROVE  /\ Written(ring, m, capacity) \in Seq(S)
         /\ Len(ring) <= Len(Written(ring, m, capacity))
BY DEF Written

(* An event buffer stays one, within its size, when events are written to  *)
(* its end or over its beginning, and it holds a number of UI events.      *)
LEMMA EvbufAppendType ==
  ASSUME NEW buf \in Seq(Slots), Len(buf) <= EvbufSlots, NEW slot \in Slots
  PROVE  /\ EvbufAppend(buf, slot) \in Seq(Slots)
         /\ Len(EvbufAppend(buf, slot)) <= EvbufSlots
BY DEF EvbufAppend

LEMMA EvbufWriteAtBeginType ==
  ASSUME NEW buf \in Seq(Slots), Len(buf) <= EvbufSlots, NEW n \in Nat
  PROVE  /\ EvbufWriteAtBegin(buf, n) \in Seq(Slots)
         /\ Len(EvbufWriteAtBegin(buf, n)) <= EvbufSlots
<1> DEFINE free    == EvbufSlots - Len(buf)
           written == IF n < free THEN n ELSE free
           length  == Len(buf) + written
           new     == EvbufWriteAtBegin(buf, n)
<1>1. length \in Nat /\ length <= EvbufSlots
  BY ProcessAssumption
<1>2. new = [i \in 1..length |->
               IF i <= written THEN "sys" ELSE IF i <= Len(buf) THEN buf[i]
               ELSE "stale"]
  BY DEF EvbufWriteAtBegin
<1>3. new \in [1..length -> Slots]
  <2>1. \A i \in 1..length : i <= Len(buf) => buf[i] \in Slots
    BY <1>1
  <2> HIDE DEF length, written, free
  <2> QED BY <1>2, <2>1 DEF Slots
<1> HIDE DEF length, new
<1>4. new \in Seq(Slots)
  BY <1>1, <1>3, SeqDef
<1>5. Len(new) = length
  BY <1>1, <1>3
<1> QED BY <1>1, <1>4, <1>5 DEF new

LEMMA UiEventsType ==
  ASSUME NEW buf \in Seq(Slots)
  PROVE  UiEvents(buf) \in Nat
<1>1. IsFiniteSet(DOMAIN buf)
  BY FS_Interval
<1> QED BY <1>1, FS_Subset, FS_CardinalityType DEF UiEvents

-----------------------------------------------------------------------------
(* Type correctness. *)

(* TypeOK and ReadsWithinRings together are inductive: a message is taken  *)
(* from a ring only when one is there.                                     *)
TypeInv == TypeOK /\ ReadsWithinRings

LEMMA InitTypeInv == Init => TypeInv
<1> SUFFICES ASSUME Init PROVE TypeInv
  OBVIOUS
<1> USE DEF Init
<1>1. MainTypeOK
  BY DEF MainTypeOK
<1>2. AudioTypeOK
  BY DEF AudioTypeOK
<1>3. SharedTypeOK
  BY DEF SharedTypeOK, RunStates
<1>4. GhostTypeOK
  BY DEF GhostTypeOK
<1>5. ReadsWithinRings
  BY DEF ReadsWithinRings
<1> QED BY <1>1, <1>2, <1>3, <1>4, <1>5 DEF TypeInv, TypeOK

(* The two threads touch only their own variables and the shared ones. *)
LEMMA MainFrame == User \/ Main => UNCHANGED audioVars
BY DEF User, Main, SetControl, WritePort, SendEvent, ApplyState, ActivateBackend,
       SetRunning, TakePaused, RestoreReturns, SetPortValue, RequestState, RequestResume,
       BeginUpdate, UpdateMessage, EndUpdate

LEMMA AudioFrame == Audio => UNCHANGED mainVars /\ UNCHANGED <<accepted, ops>>
BY DEF Audio, StartBypass, StartRun, BeginApply, Receive, ApplyControl, ApplyEvent,
       ApplyRunState, RunPlugin, PluginReturns, FinishPort, FinishRun, FinishBypass,
       ghosts

LEMMA BufferSizeFrame ==
  BufferSize => /\ UNCHANGED mainVars /\ UNCHANGED shared
                /\ UNCHANGED <<audioPc, mode, remaining, pendingFrames, outbox>>
                /\ UNCHANGED <<accepted, ops>> /\ evbuf' = <<>>
BY DEF BufferSize

LEMMA MainTypeStep == TypeInv /\ (User \/ Main) => MainTypeOK'
<1> SUFFICES ASSUME TypeInv, User \/ Main PROVE MainTypeOK'
  OBVIOUS
<1> USE DEF TypeInv, TypeOK, MainTypeOK, Ports, uiVars, mainVars
<1>1. ASSUME NEW p \in Inputs, NEW v \in Values, SetControl(p, v) \/ WritePort(p, v)
      PROVE  MainTypeOK'
  BY <1>1 DEF SetControl, WritePort
<1>2. ASSUME NEW ports \in SUBSET Inputs, NEW v \in Values, ApplyState(ports, v)
      PROVE  MainTypeOK'
  BY <1>2 DEF ApplyState
<1>3. CASE SendEvent
  BY <1>3 DEF SendEvent
<1>4. CASE ActivateBackend \/ SetRunning
  BY <1>4 DEF ActivateBackend, SetRunning
<1>5. CASE TakePaused \/ RestoreReturns
  BY <1>5 DEF TakePaused, RestoreReturns
<1>6. ASSUME NEW p \in Inputs, SetPortValue(p)
      PROVE  MainTypeOK'
  BY <1>6 DEF SetPortValue
<1>7. CASE RequestState \/ RequestResume
  BY <1>7 DEF RequestState, RequestResume
<1>8. CASE BeginUpdate
  BY <1>8 DEF BeginUpdate, SharedTypeOK
<1>9. CASE UpdateMessage
  <2>1. toUi # <<>>
    BY <1>9 DEF UpdateMessage, ReadsWithinRings, SharedTypeOK
  <2>2. Head(toUi) \in UiMessages
    BY <2>1 DEF SharedTypeOK
  <2> QED
    BY <1>9, <2>2 DEF UpdateMessage, UiMessages, ControlMessages, EventTransfer
<1>10. CASE EndUpdate
  BY <1>10 DEF EndUpdate
<1> QED
  BY <1>1, <1>2, <1>3, <1>4, <1>5, <1>6, <1>7, <1>8, <1>9, <1>10 DEF User, Main

LEMMA AudioTypeStep == TypeInv /\ Audio => AudioTypeOK'
<1> SUFFICES ASSUME TypeInv, Audio PROVE AudioTypeOK'
  OBVIOUS
<1> USE DEF TypeInv, TypeOK, AudioTypeOK
<1>1. CASE StartBypass
  BY <1>1 DEF StartBypass
<1>2. ASSUME NEW n \in 0..MaxSysEvents, StartRun(n)
      PROVE  AudioTypeOK'
  BY <1>2, EvbufWriteAtBeginType DEF StartRun
<1>3. CASE BeginApply
  BY <1>3 DEF BeginApply, SharedTypeOK
<1>4. CASE ApplyControl
  BY <1>4 DEF ApplyControl, Receive
<1>5. CASE ApplyEvent
  BY <1>5, EvbufAppendType DEF ApplyEvent, Receive, Slots
<1>6. CASE ApplyRunState
  BY <1>6 DEF ApplyRunState, Receive
<1>7. ASSUME NEW outputs \in [Outputs -> Values], RunPlugin(outputs)
      PROVE  AudioTypeOK'
  BY <1>7 DEF RunPlugin
<1>8. ASSUME NEW events \in SUBSET EventOutputs, PluginReturns(events)
      PROVE  AudioTypeOK'
  BY <1>8 DEF PluginReturns
<1>9. ASSUME NEW p \in outbox, FinishPort(p)
      PROVE  AudioTypeOK'
  BY <1>9 DEF FinishPort
<1>10. CASE FinishRun
  BY <1>10 DEF FinishRun
<1>11. CASE FinishBypass
  BY <1>11 DEF FinishBypass
<1> QED
  BY <1>1, <1>2, <1>3, <1>4, <1>5, <1>6, <1>7, <1>8, <1>9, <1>10, <1>11 DEF Audio

(* The message that a turn of apply_ui_events takes from the ring. *)
LEMMA ReceiveMessage ==
  ASSUME NEW type, TypeInv, Receive(type)
  PROVE  /\ toPlugin # <<>> /\ Head(toPlugin) \in PluginMessages
         /\ toPlugin' \in Seq(PluginMessages)
         /\ remaining' <= Len(toPlugin')
         /\ UNCHANGED <<toUi, unread>>
<1> USE DEF TypeInv, TypeOK, AudioTypeOK, SharedTypeOK, ReadsWithinRings, Receive
<1>1. toPlugin # <<>>
  OBVIOUS
<1> QED BY <1>1 DEF mainVars, uiVars

LEMMA SharedTypeStep ==
  TypeInv /\ Next => SharedTypeOK' /\ ReadsWithinRings'
<1> DEFINE Goal == SharedTypeOK' /\ ReadsWithinRings'
<1> SUFFICES ASSUME TypeInv, Next PROVE Goal
  OBVIOUS
<1> USE DEF TypeInv, TypeOK, SharedTypeOK, ReadsWithinRings, shared, mainVars, uiVars,
            audioVars
<1>1. ASSUME NEW p \in Inputs, NEW v \in Values, SetControl(p, v) \/ WritePort(p, v)
      PROVE  Goal
  <2>1. ControlPortChange(p, v) \in PluginMessages
    BY DEF ControlPortChange, ControlMessages, PluginMessages
  <2> QED BY <1>1, <2>1, WrittenType DEF SetControl, WritePort, AudioTypeOK
<1>2. ASSUME NEW ports \in SUBSET Inputs, NEW v \in Values, ApplyState(ports, v)
      PROVE  Goal
  <2>1. Pause \in PluginMessages
    BY DEF Pause, RunStateChange, RunMessages, RunStates, PluginMessages
  <2> QED BY <1>2, <2>1, WrittenType DEF ApplyState, AudioTypeOK
<1>3. CASE SendEvent \/ RequestState
  <2>1. EventTransfer \in PluginMessages /\ StateRequest \in PluginMessages
    BY DEF PluginMessages
  <2> QED
    BY <1>3, <2>1, WrittenType DEF SendEvent, RequestState, WriteEvent, AudioTypeOK
<1>4. CASE ActivateBackend \/ SetRunning \/ RestoreReturns
  BY <1>4 DEF ActivateBackend, SetRunning, RestoreReturns, RunStates
<1>5. CASE TakePaused
  BY <1>5 DEF TakePaused
<1>6. ASSUME NEW p \in Inputs, SetPortValue(p)
      PROVE  Goal
  <2>1. /\ ControlPortChange(p, preset) \in PluginMessages
        /\ ControlPortChange(p, preset) \in UiMessages
    BY DEF ControlPortChange, ControlMessages, PluginMessages, UiMessages, Ports,
           MainTypeOK
  <2> QED
    BY <1>6, <2>1, WrittenType DEF SetPortValue, AudioTypeOK, MainTypeOK
<1>7. CASE RequestResume
  <2>1. Resume \in PluginMessages
    BY DEF Resume, RunStateChange, RunMessages, RunStates, PluginMessages
  <2> QED BY <1>7, <2>1, WrittenType DEF RequestResume, AudioTypeOK
<1>8. CASE BeginUpdate \/ EndUpdate
  BY <1>8 DEF BeginUpdate, EndUpdate
<1>9. CASE UpdateMessage
  <2>1. toUi # <<>>
    BY <1>9 DEF UpdateMessage, MainTypeOK
  <2> QED BY <1>9, <2>1 DEF UpdateMessage, MainTypeOK
<1>10. CASE StartBypass \/ FinishBypass \/ FinishRun \/ BeginApply
  BY <1>10 DEF StartBypass, FinishBypass, FinishRun, BeginApply
<1>11. ASSUME NEW n \in 0..MaxSysEvents, StartRun(n)
       PROVE  Goal
  BY <1>11 DEF StartRun
<1>12. CASE ApplyControl
  <2>1. Receive("CONTROL_PORT_CHANGE")
    BY <1>12 DEF ApplyControl
  <2>2. Head(toPlugin) \in ControlMessages(Inputs, Values)
    BY <2>1, ReceiveMessage
       DEF Receive, PluginMessages, RunMessages, EventTransfer, StateRequest
  <2>3. controlsBuf' \in [Ports -> Values]
    BY <1>12, <2>2 DEF ApplyControl, ControlMessages
  <2> QED BY <1>12, <2>1, <2>3, ReceiveMessage DEF ApplyControl
<1>13. CASE ApplyEvent
  <2>1. PICK type : Receive(type)
    BY <1>13 DEF ApplyEvent
  <2> QED BY <1>13, <2>1, ReceiveMessage DEF ApplyEvent
<1>14. CASE ApplyRunState
  <2>1. Receive("RUN_STATE_CHANGE")
    BY <1>14 DEF ApplyRunState
  <2>2. Head(toPlugin) \in RunMessages
    BY <2>1, ReceiveMessage
       DEF Receive, PluginMessages, ControlMessages, EventTransfer, StateRequest
  <2>3. runState' \in RunStates /\ paused' \in Nat
    BY <1>14, <2>2 DEF ApplyRunState, RunMessages
  <2> QED BY <1>14, <2>1, <2>3, ReceiveMessage DEF ApplyRunState
<1>15. ASSUME NEW outputs \in [Outputs -> Values], RunPlugin(outputs)
       PROVE  Goal
  BY <1>15 DEF RunPlugin, Ports
<1>16. ASSUME NEW events \in SUBSET EventOutputs, PluginReturns(events)
       PROVE  Goal
  BY <1>16 DEF PluginReturns
<1>17. ASSUME NEW p \in outbox, FinishPort(p)
       PROVE  Goal
  <2>1. (IF p \in Outputs THEN ControlPortChange(p, controlsBuf[p])
                          ELSE EventTransfer) \in UiMessages
    BY DEF ControlPortChange, ControlMessages, UiMessages, Ports
  <2> QED BY <1>17, <2>1, WrittenType DEF FinishPort, MainTypeOK
<1>18. CASE BufferSize
  BY <1>18, BufferSizeFrame DEF MainTypeOK
<1> QED
  BY <1>1, <1>2, <1>3, <1>4, <1>5, <1>6, <1>7, <1>8, <1>9, <1>10, <1>11, <1>12,
     <1>13, <1>14, <1>15, <1>16, <1>17, <1>18 DEF Next, User, Main, Audio

LEMMA GhostTypeStep == TypeInv /\ Next => GhostTypeOK'
<1> SUFFICES ASSUME TypeInv, Next PROVE GhostTypeOK'
  OBVIOUS
<1> USE DEF TypeInv, TypeOK, GhostTypeOK, ghosts, UserOp
<1>1. ASSUME NEW p \in Inputs, NEW v \in Values, SetControl(p, v) \/ WritePort(p, v)
      PROVE  GhostTypeOK'
  BY <1>1 DEF SetControl, WritePort
<1>2. CASE \E ports \in SUBSET Inputs, v \in Values : ApplyState(ports, v)
  BY <1>2 DEF ApplyState
<1>3. CASE SendEvent \/ RequestState
  BY <1>3 DEF SendEvent, RequestState, WriteEvent
<1>4. ASSUME NEW p \in Inputs, SetPortValue(p)
      PROVE  GhostTypeOK'
  BY <1>4 DEF SetPortValue, MainTypeOK
<1>5. CASE \/ ActivateBackend \/ SetRunning \/ TakePaused \/ RestoreReturns
           \/ RequestResume \/ BeginUpdate \/ UpdateMessage \/ EndUpdate
  BY <1>5 DEF ActivateBackend, SetRunning, TakePaused, RestoreReturns, RequestResume,
              BeginUpdate, UpdateMessage, EndUpdate
<1>6. CASE Audio
  <2>1. UNCHANGED <<accepted, ops>>
    BY <1>6, AudioFrame
  <2>2. owed' \in Int
    <3>1. UiEvents(evbuf) \in Int
      BY UiEventsType DEF AudioTypeOK
    <3> QED
      BY <1>6, <3>1 DEF Audio, StartBypass, StartRun, BeginApply, ApplyControl,
         ApplyEvent, ApplyRunState, RunPlugin, PluginReturns, FinishPort, FinishRun,
         FinishBypass
  <2> QED BY <2>1, <2>2
<1>7. CASE BufferSize
  <2>1. UiEvents(evbuf) \in Int
    BY UiEventsType DEF AudioTypeOK
  <2> QED BY <1>7, <2>1 DEF BufferSize
<1> QED BY <1>1, <1>2, <1>3, <1>4, <1>5, <1>6, <1>7 DEF Next, User, Main

LEMMA TypeInvStep == TypeInv /\ [Next]_vars => TypeInv'
<1> SUFFICES ASSUME TypeInv, [Next]_vars PROVE TypeInv'
  OBVIOUS
<1>1. CASE Next
  <2>1. MainTypeOK'
    <3>1. CASE Audio
      BY <3>1, AudioFrame DEF TypeInv, TypeOK, MainTypeOK, mainVars, uiVars
    <3>2. CASE BufferSize
      BY <3>2, BufferSizeFrame DEF TypeInv, TypeOK, MainTypeOK, mainVars, uiVars
    <3> QED BY <1>1, <3>1, <3>2, MainTypeStep DEF Next
  <2>2. AudioTypeOK'
    <3>1. CASE User \/ Main
      BY <3>1, MainFrame DEF TypeInv, TypeOK, AudioTypeOK, audioVars
    <3>2. CASE BufferSize
      BY <3>2, BufferSizeFrame DEF TypeInv, TypeOK, AudioTypeOK
    <3> QED BY <1>1, <3>1, <3>2, AudioTypeStep DEF Next
  <2> QED BY <1>1, <2>1, <2>2, SharedTypeStep, GhostTypeStep DEF TypeInv, TypeOK
<1>2. CASE UNCHANGED vars
  BY <1>2 DEF vars, mainVars, uiVars, audioVars, shared, ghosts, TypeInv, TypeOK,
     MainTypeOK, AudioTypeOK, SharedTypeOK, GhostTypeOK, ReadsWithinRings
<1> QED BY <1>1, <1>2

(* Every variable keeps its type, and neither thread reads its ring beyond *)
(* the messages that it found there (apply_ui_events and jalv_update).     *)
THEOREM TypeCorrect == Spec => [](TypeOK /\ ReadsWithinRings)
<1>1. Spec => []TypeInv
  BY InitTypeInv, TypeInvStep, PTL DEF Spec
<1> QED BY <1>1, PTL DEF TypeInv

(* In particular a reader that has still messages to read finds them, so   *)
(* that neither reads what the other thread has not yet written.           *)
THEOREM ReadersFindMessages == Spec => []ReadsWithinRings
BY TypeCorrect, PTL

-----------------------------------------------------------------------------
(* The pause protocol. *)

(* Writing a message that is not a run state change, or taking one from    *)
(* the front, brings no run state change into the ring.                    *)
LEMMA WriteOtherMessage ==
  ASSUME NEW m, m \notin RunMessages, TypeInv,
         toPlugin' = Written(toPlugin, m, RingBytes)
  PROVE  /\ NoRunStateChange => NoRunStateChange'
         /\ OneRunStateChange /\ UNCHANGED runState => OneRunStateChange'
<1>1. \A i \in DOMAIN toPlugin' :
         toPlugin'[i] \in RunMessages
           => i \in DOMAIN toPlugin /\ toPlugin'[i] = toPlugin[i]
  <2>1. toPlugin \in Seq(PluginMessages \cup {m})
    BY SeqMonotonic DEF TypeInv, TypeOK, SharedTypeOK
  <2>2. CASE toPlugin' = Append(toPlugin, m)
    BY <2>1, <2>2
  <2> QED BY <2>2, WrittenCases
<1> QED BY <1>1 DEF NoRunStateChange, OneRunStateChange

LEMMA ControlIsOther == \A p, v : ControlPortChange(p, v) \notin RunMessages
BY DEF ControlPortChange, RunMessages

LEMMA EventIsOther == EventTransfer \notin RunMessages /\ StateRequest \notin RunMessages
BY DEF EventTransfer, StateRequest, RunMessages

LEMMA TakeMessage ==
  ASSUME TypeInv, toPlugin # <<>>, toPlugin' = Tail(toPlugin)
  PROVE  /\ NoRunStateChange => NoRunStateChange'
         /\ OneRunStateChange /\ UNCHANGED runState => OneRunStateChange'
         /\ OneRunStateChange /\ Head(toPlugin) \in RunMessages => NoRunStateChange'
<1>1. \A i \in DOMAIN toPlugin' :
        i + 1 \in DOMAIN toPlugin /\ toPlugin'[i] = toPlugin[i + 1] /\ i # 0
  BY DEF TypeInv, TypeOK, SharedTypeOK
<1>2. 1 \in DOMAIN toPlugin /\ Head(toPlugin) = toPlugin[1]
  BY DEF TypeInv, TypeOK, SharedTypeOK
<1>3. DOMAIN toPlugin \subseteq Int /\ DOMAIN toPlugin' \subseteq Int
  BY DEF TypeInv, TypeOK, SharedTypeOK
<1> QED BY <1>1, <1>2, <1>3 DEF NoRunStateChange, OneRunStateChange

(* Writing a run state change that would change the run state is safe when *)
(* there is none in the ring.                                              *)
LEMMA WriteRunStateChange ==
  ASSUME NEW m \in RunMessages, TypeInv, NoRunStateChange,
         toPlugin' = Written(toPlugin, m, RingBytes), UNCHANGED runState,
         m.state # runState
  PROVE  OneRunStateChange'
<1>1. CASE toPlugin' = toPlugin
  BY <1>1 DEF NoRunStateChange, OneRunStateChange
<1>2. CASE toPlugin' = Append(toPlugin, m)
  <2>1. \A i \in DOMAIN toPlugin' :
           toPlugin'[i] \in RunMessages => i = Len(toPlugin) + 1 /\ toPlugin'[i] = m
    BY <1>2 DEF NoRunStateChange, TypeInv, TypeOK, SharedTypeOK
  <2> QED BY <2>1 DEF OneRunStateChange
<1> QED BY <1>1, <1>2, WrittenCases

LEMMA InitInterlock == Init => Interlock
BY DEF Init, Interlock, PausedIsFresh, OneRunStateChange, NoRunStateChange,
       Held

(* The parts of Interlock that say what may be in the ring hold after a    *)
(* step that only writes other messages, or none.                          *)
LEMMA InterlockStep == TypeInv /\ Interlock /\ [Next]_vars => Interlock'
<1> SUFFICES ASSUME TypeInv, Interlock, [Next]_vars PROVE Interlock'
  OBVIOUS
<1> USE DEF Interlock, PausedIsFresh, Held, mainVars, uiVars, audioVars, shared,
            ghosts
<1>1. ASSUME NEW p \in Inputs, NEW v \in Values, SetControl(p, v) \/ WritePort(p, v)
      PROVE  Interlock'
  BY <1>1, WriteOtherMessage, ControlIsOther DEF SetControl, WritePort, UserOp
<1>2. ASSUME NEW ports \in SUBSET Inputs, NEW v \in Values, ApplyState(ports, v)
      PROVE  Interlock'
  <2>1. ~mustPause /\ paused = 0
    BY <1>2 DEF ApplyState, UserOp, TypeInv, TypeOK, SharedTypeOK
  <2>2. CASE mustPause'
    <3>1. /\ NoRunStateChange /\ phase = "live" /\ runState = "JALV_RUNNING"
          /\ toPlugin' = Written(toPlugin, Pause, RingBytes)
          /\ mainPc' = "waitPaused" /\ UNCHANGED <<phase, runState, paused>>
      BY <1>2, <2>1, <2>2 DEF ApplyState
    <3>2. OneRunStateChange'
      BY <3>1, WriteRunStateChange DEF Pause, RunStateChange, RunMessages, RunStates
    <3> QED BY <2>1, <2>2, <3>1, <3>2
  <2>3. CASE ~mustPause'
    BY <1>2, <2>1, <2>3 DEF ApplyState, NoRunStateChange, OneRunStateChange
  <2> QED BY <2>2, <2>3
<1>3. CASE SendEvent \/ RequestState
  <2>1. CASE UNCHANGED toPlugin
    BY <1>3, <2>1 DEF SendEvent, RequestState, UserOp, NoRunStateChange,
       OneRunStateChange
  <2>2. CASE \E m \in {EventTransfer, StateRequest} :
               toPlugin' = Written(toPlugin, m, RingBytes)
    BY <1>3, <2>2, WriteOtherMessage, EventIsOther DEF SendEvent, RequestState, UserOp
  <2> QED BY <1>3, <2>1, <2>2 DEF SendEvent, RequestState, WriteEvent
<1>4. ASSUME NEW p \in Inputs, SetPortValue(p)
      PROVE  Interlock'
  <2>1. CASE UNCHANGED toPlugin
    BY <1>4, <2>1 DEF SetPortValue, NoRunStateChange, OneRunStateChange
  <2>2. CASE toPlugin' = Written(toPlugin, ControlPortChange(p, preset), RingBytes)
    BY <1>4, <2>2, WriteOtherMessage, ControlIsOther DEF SetPortValue
  <2> QED BY <1>4, <2>1, <2>2 DEF SetPortValue
<1>5. CASE RequestResume
  <2>1. Held /\ runState = "JALV_PAUSED" /\ NoRunStateChange /\ phase = "live"
    BY <1>5 DEF RequestResume
  <2>2. OneRunStateChange'
    BY <1>5, <2>1, WriteRunStateChange
       DEF RequestResume, Resume, RunStateChange, RunMessages, RunStates
  <2> QED BY <1>5, <2>1, <2>2 DEF RequestResume
<1>6. CASE ActivateBackend \/ SetRunning \/ BeginUpdate \/ UpdateMessage \/ EndUpdate
  BY <1>6 DEF ActivateBackend, SetRunning, BeginUpdate, UpdateMessage, EndUpdate,
     NoRunStateChange, OneRunStateChange
<1>7. CASE TakePaused \/ RestoreReturns
  BY <1>7 DEF TakePaused, RestoreReturns, NoRunStateChange, OneRunStateChange, TypeInv,
     TypeOK, SharedTypeOK
<1>8. CASE ApplyRunState
  <2>1. Receive("RUN_STATE_CHANGE") /\ UNCHANGED mainVars
    BY <1>8 DEF ApplyRunState, Receive
  <2>2. toPlugin # <<>> /\ toPlugin' = Tail(toPlugin)
    BY <2>1, ReceiveMessage DEF Receive
  <2>3. Head(toPlugin) \in RunMessages /\ Head(toPlugin) = toPlugin[1]
        /\ 1 \in DOMAIN toPlugin
    BY <2>1, <2>2, ReceiveMessage
       DEF Receive, PluginMessages, ControlMessages, EventTransfer, StateRequest,
           TypeInv, TypeOK, SharedTypeOK
  <2>4. runState' \in RunStates /\ runState' # runState
    BY <1>8, <2>3 DEF ApplyRunState, OneRunStateChange, RunMessages
  <2>5. NoRunStateChange'
    BY <2>2, <2>3, TakeMessage
  <2>6. OneRunStateChange'
    BY <2>5 DEF NoRunStateChange, OneRunStateChange
  <2>7. phase = "live" /\ ~Held /\ paused = 0
    BY <2>3 DEF NoRunStateChange, TypeInv, TypeOK, SharedTypeOK
  <2>8. paused' = IF runState' = "JALV_PAUSED" THEN 1 ELSE 0
    BY <1>8, <2>7 DEF ApplyRunState
  <2>9. mainPc = "waitPaused" <=> runState' = "JALV_PAUSED"
    BY <2>3, <2>4, <2>7
       DEF NoRunStateChange, RunStates, TypeInv, TypeOK, SharedTypeOK
  <2> QED BY <2>1, <2>4, <2>5, <2>6, <2>7, <2>8, <2>9 DEF RunStates
<1>9. CASE ApplyControl \/ ApplyEvent
  <2>1. PICK type : Receive(type)
    BY <1>9 DEF ApplyControl, ApplyEvent
  <2>2. toPlugin # <<>> /\ toPlugin' = Tail(toPlugin)
    BY <2>1, ReceiveMessage DEF Receive
  <2> QED BY <1>9, <2>1, <2>2, TakeMessage DEF ApplyControl, ApplyEvent, Receive
<1>10. CASE \/ StartBypass \/ \E n \in 0..MaxSysEvents : StartRun(n)
            \/ BeginApply \/ \E outputs \in [Outputs -> Values] : RunPlugin(outputs)
            \/ \E events \in SUBSET EventOutputs : PluginReturns(events)
            \/ \E p \in outbox : FinishPort(p)
            \/ FinishRun \/ FinishBypass \/ BufferSize
  <2>1. UNCHANGED <<mainVars, toPlugin, runState, paused>>
    BY <1>10 DEF StartBypass, StartRun, BeginApply, RunPlugin, PluginReturns,
       FinishPort, FinishRun, FinishBypass, BufferSize
  <2> QED BY <2>1 DEF NoRunStateChange, OneRunStateChange
<1>11. CASE UNCHANGED vars
  BY <1>11 DEF vars, NoRunStateChange, OneRunStateChange
<1> QED
  BY <1>1, <1>2, <1>3, <1>4, <1>5, <1>6, <1>7, <1>8, <1>9, <1>10, <1>11
     DEF Next, User, Main, Audio

(* The pause protocol of jalv_apply_state and apply_ui_events keeps its    *)
(* invariant, whatever the size of the rings and however many states are   *)
(* applied one after the other.                                            *)
THEOREM InterlockHolds == Spec => []Interlock
<1>1. Init => TypeInv /\ Interlock
  BY InitTypeInv, InitInterlock
<1>2. TypeInv /\ Interlock /\ [Next]_vars => (TypeInv /\ Interlock)'
  BY TypeInvStep, InterlockStep
<1> QED BY <1>1, <1>2, PTL DEF Spec

(* At most one run state change is in flight, and it is not an idle one. *)
THEOREM OneChangeInFlight == Spec => []OneRunStateChange
BY InterlockHolds, PTL DEF Interlock

(* No post of the semaphore `paused` outlives the wait it was meant for. *)
THEOREM NoStalePost == Spec => []PausedIsFresh
BY InterlockHolds, PTL DEF Interlock

-----------------------------------------------------------------------------
(* The pause protocol implements the gate. *)

LEMMA ResumeIsRunStateChange == Resume \in RunMessages
BY DEF Resume, RunStateChange, RunMessages, RunStates

(* When no run state change is in flight, no resume is; and one that is    *)
(* stays there until it is taken, whatever else is written or taken.       *)
LEMMA NoResume == NoRunStateChange => ~ResumeInRing
BY ResumeIsRunStateChange DEF NoRunStateChange, ResumeInRing

LEMMA ResumeStays ==
  ASSUME TypeInv, UNCHANGED toPlugin \/
         (\E m : m \notin RunMessages /\ toPlugin' = Written(toPlugin, m, RingBytes))
  PROVE  ResumeInRing' <=> ResumeInRing
<1>1. CASE UNCHANGED toPlugin
  BY <1>1 DEF ResumeInRing, Resume, RunStateChange
<1>2. ASSUME NEW m, m \notin RunMessages, toPlugin' = Append(toPlugin, m)
      PROVE  ResumeInRing' <=> ResumeInRing
  <2>1. toPlugin \in Seq(PluginMessages \cup {m})
    BY SeqMonotonic DEF TypeInv, TypeOK, SharedTypeOK
  <2>2. m # Resume
    BY <1>2, ResumeIsRunStateChange
  <2>3. /\ Len(toPlugin) \in Nat /\ DOMAIN toPlugin = 1..Len(toPlugin)
        /\ DOMAIN toPlugin' = 1..(Len(toPlugin) + 1)
        /\ \A i \in 1..Len(toPlugin) : toPlugin'[i] = toPlugin[i]
        /\ toPlugin'[Len(toPlugin) + 1] = m
    BY <1>2, <2>1
  <2>4. Resume' = Resume
    BY DEF Resume, RunStateChange
  <2> HIDE DEF Resume
  <2> QED BY <2>2, <2>3, <2>4 DEF ResumeInRing
<1> QED BY <1>1, <1>2, WrittenCases

LEMMA ResumeStaysBehind ==
  ASSUME TypeInv, toPlugin # <<>>, toPlugin' = Tail(toPlugin),
         Head(toPlugin) \notin RunMessages
  PROVE  ResumeInRing' <=> ResumeInRing
<1>1. /\ Len(toPlugin) \in Nat /\ Len(toPlugin) > 0
      /\ DOMAIN toPlugin = 1..Len(toPlugin)
      /\ DOMAIN toPlugin' = 1..(Len(toPlugin) - 1)
      /\ \A i \in 1..(Len(toPlugin) - 1) : toPlugin'[i] = toPlugin[i + 1]
      /\ Head(toPlugin) = toPlugin[1]
  BY DEF TypeInv, TypeOK, SharedTypeOK
<1>2. Resume' = Resume
  BY DEF Resume, RunStateChange
<1>3. ASSUME NEW i \in 1..Len(toPlugin), toPlugin[i] = Resume
      PROVE  i - 1 \in 1..(Len(toPlugin) - 1) /\ toPlugin'[i - 1] = Resume
  BY <1>1, <1>3, ResumeIsRunStateChange
<1>4. ASSUME NEW i \in 1..(Len(toPlugin) - 1), toPlugin'[i] = Resume
      PROVE  i + 1 \in 1..Len(toPlugin) /\ toPlugin[i + 1] = Resume
  BY <1>1, <1>4
<1>5. ResumeInRing => ResumeInRing'
  <2>1. SUFFICES ASSUME NEW i \in 1..Len(toPlugin), toPlugin[i] = Resume
                 PROVE  \E j \in DOMAIN toPlugin' : toPlugin'[j] = Resume'
    BY <1>1 DEF ResumeInRing
  <2> QED BY <1>1, <1>2, <1>3, <2>1
<1>6. ResumeInRing' => ResumeInRing
  <2>1. SUFFICES ASSUME NEW i \in 1..(Len(toPlugin) - 1), toPlugin'[i] = Resume
                 PROVE  \E j \in DOMAIN toPlugin : toPlugin[j] = Resume
    BY <1>1, <1>2 DEF ResumeInRing
  <2> QED BY <1>1, <1>4, <2>1
<1> QED BY <1>5, <1>6

LEMMA GateInit == Init => Gate!Init
BY DEF Init, Gate!Init, GateState, GateHolder, InRunCycle, ResumeInRing

LEMMA GateStep == TypeInv /\ Interlock /\ [Next]_vars => [Gate!Next]_Gate!vars
<1> SUFFICES ASSUME TypeInv, Interlock, [Next]_vars
             PROVE  Gate!Next \/ UNCHANGED Gate!vars
  OBVIOUS
<1> DEFINE SameHolder == GateHolder' = GateHolder
           Stutter    == /\ runState' = runState
                         /\ (phase' = "live") = (phase = "live")
                         /\ SameHolder /\ InRunCycle' = InRunCycle
<1>0. Stutter => UNCHANGED Gate!vars
  BY DEF Gate!vars, GateState
<1> USE DEF mainVars, uiVars, audioVars, shared, ghosts
<1>1. ASSUME NEW p \in Inputs, NEW v \in Values, SetControl(p, v) \/ WritePort(p, v)
      PROVE  Stutter
  BY <1>1, ResumeStays, ControlIsOther
     DEF SetControl, WritePort, UserOp, GateHolder, InRunCycle
<1>2. ASSUME NEW ports \in SUBSET Inputs, NEW v \in Values, ApplyState(ports, v)
      PROVE  Stutter \/ Gate!Ask
  <2>1. ~mustPause /\ mainPc = "idle"
    BY <1>2 DEF ApplyState, UserOp, Interlock
  <2>2. CASE mustPause'
    <3>1. /\ mainPc' = "waitPaused" /\ runState = "JALV_RUNNING" /\ phase = "live"
          /\ UNCHANGED <<phase, runState, mode, audioPc>> /\ ~ResumeInRing
      BY <1>2, <2>1, <2>2, NoResume DEF ApplyState, Interlock
    <3> QED BY <2>1, <3>1 DEF Gate!Ask, GateState, GateHolder, InRunCycle
  <2>3. CASE ~mustPause'
    BY <1>2, <2>1, <2>3, ResumeStays DEF ApplyState, GateHolder, InRunCycle
  <2> QED BY <2>2, <2>3
<1>3. ASSUME SendEvent \/ RequestState
      PROVE  Stutter
  <2>1. ResumeInRing' <=> ResumeInRing
    BY <1>3, ResumeStays, EventIsOther DEF SendEvent, RequestState, WriteEvent
  <2> QED BY <1>3, <2>1 DEF SendEvent, RequestState, UserOp, GateHolder, InRunCycle,
             Interlock
<1>4. ASSUME NEW p \in Inputs, SetPortValue(p)
      PROVE  Stutter
  BY <1>4, ResumeStays, ControlIsOther DEF SetPortValue, GateHolder, InRunCycle
<1>5. CASE RequestResume
  <2>1. mustPause /\ mainPc = "resuming" /\ ~mustPause' /\ mainPc' = "idle"
    BY <1>5 DEF RequestResume, Interlock
  <2>2. GateHolder = "holding" /\ GateHolder' \in {"leaving", "none"}
    BY <2>1 DEF GateHolder
  <2>3. Gate!Leave
    BY <1>5, <2>2 DEF RequestResume, Gate!Leave, GateState, InRunCycle
  <2> QED BY <2>3 DEF Gate!Next
<1>6. ASSUME ActivateBackend
      PROVE  Stutter
  BY <1>6, ResumeStays DEF ActivateBackend, GateHolder, InRunCycle
<1>7. CASE SetRunning
  <2>1. ~mustPause /\ ~ResumeInRing /\ mainPc # "waitPaused"
    BY <1>7, NoResume DEF SetRunning, Interlock
  <2>2. GateHolder = "none" /\ GateHolder' = "none"
    BY <1>7, <2>1, ResumeStays DEF SetRunning, GateHolder
  <2> QED
    BY <1>7, <2>2 DEF SetRunning, Gate!Next, Gate!Start, GateState, InRunCycle
<1>8. CASE TakePaused
  <2>1. /\ GateHolder = "asking" /\ GateState = "shut" /\ mustPause
        /\ UNCHANGED mustPause /\ mainPc' = "restoring"
    BY <1>8 DEF TakePaused, GateHolder, GateState, Interlock, PausedIsFresh
  <2>2. GateHolder' = "holding"
    BY <2>1 DEF GateHolder
  <2> QED
    BY <1>8, <2>1, <2>2 DEF TakePaused, Gate!Next, Gate!Hold, GateState, InRunCycle
<1>9. ASSUME RestoreReturns \/ BeginUpdate \/ UpdateMessage \/ EndUpdate
      PROVE  Stutter
  BY <1>9, ResumeStays DEF RestoreReturns, BeginUpdate, UpdateMessage, EndUpdate,
     GateHolder, InRunCycle
<1>10. ASSUME \/ StartBypass \/ FinishBypass \/ BeginApply \/ BufferSize
              \/ \E outputs \in [Outputs -> Values] : RunPlugin(outputs)
              \/ \E events \in SUBSET EventOutputs : PluginReturns(events)
              \/ \E p \in outbox : FinishPort(p)
       PROVE  Stutter
  <2>1. UNCHANGED <<phase, mainPc, mustPause, toPlugin, runState>>
    BY <1>10 DEF StartBypass, FinishBypass, BeginApply, RunPlugin, PluginReturns,
       FinishPort, BufferSize
  <2>2. InRunCycle' = InRunCycle
    BY <1>10 DEF StartBypass, FinishBypass, BeginApply, RunPlugin, PluginReturns,
       FinishPort, BufferSize, InRunCycle
  <2> QED BY <2>1, <2>2, ResumeStays DEF GateHolder
<1>11. ASSUME NEW n \in 0..MaxSysEvents, StartRun(n)
       PROVE  Gate!Enter
  <2>1. UNCHANGED <<phase, mainPc, mustPause, toPlugin, runState>>
    BY <1>11 DEF StartRun
  <2>2. GateHolder' = GateHolder
    BY <2>1, ResumeStays DEF GateHolder
  <2> QED
    BY <1>11, <2>1, <2>2
       DEF StartRun, Gate!Enter, GateState, InRunCycle, TypeInv, TypeOK, SharedTypeOK,
           RunStates
<1>12. CASE FinishRun
  <2>1. UNCHANGED <<phase, mainPc, mustPause, toPlugin, runState>>
    BY <1>12 DEF FinishRun
  <2>2. GateHolder' = GateHolder
    BY <2>1, ResumeStays DEF GateHolder
  <2> QED
    BY <1>12, <2>1, <2>2
       DEF FinishRun, Gate!Next, Gate!Exit, GateState, InRunCycle, Gate!vars
<1>13. ASSUME ApplyControl \/ ApplyEvent
       PROVE  Stutter
  <2>1. PICK type \in {"CONTROL_PORT_CHANGE", "EVENT_TRANSFER", "STATE_REQUEST"} :
           Receive(type)
    BY <1>13 DEF ApplyControl, ApplyEvent
  <2>2. /\ toPlugin # <<>> /\ toPlugin' = Tail(toPlugin)
        /\ Head(toPlugin) \notin RunMessages
    BY <2>1, ReceiveMessage DEF Receive, RunMessages
  <2> QED
    BY <1>13, <2>1, <2>2, ResumeStaysBehind
       DEF ApplyControl, ApplyEvent, Receive, GateHolder, InRunCycle
<1>14. CASE ApplyRunState
  <2>1. Receive("RUN_STATE_CHANGE") /\ UNCHANGED <<mainVars, mode, audioPc>>
    BY <1>14 DEF ApplyRunState, Receive
  <2>2. /\ toPlugin # <<>> /\ Head(toPlugin) = toPlugin[1] /\ 1 \in DOMAIN toPlugin
        /\ toPlugin' = Tail(toPlugin)
    BY <2>1, ReceiveMessage DEF Receive, TypeInv, TypeOK, SharedTypeOK
  <2>3. Head(toPlugin) \in RunMessages
    BY <2>1, ReceiveMessage
       DEF Receive, PluginMessages, ControlMessages, EventTransfer, StateRequest
  <2>4. ~NoRunStateChange /\ ~ResumeInRing'
    <3>1. NoRunStateChange'
      BY <2>2, <2>3, TakeMessage DEF Interlock
    <3>2. Resume' \in RunMessages
      BY ResumeIsRunStateChange DEF Resume, RunStateChange
    <3> QED BY <2>2, <2>3, <3>1, <3>2 DEF NoRunStateChange, ResumeInRing
  <2>5. runState' = Head(toPlugin).state /\ runState' \in RunStates
        /\ runState' # runState
    BY <1>14, <2>2, <2>3 DEF ApplyRunState, RunMessages, Interlock, OneRunStateChange
  <2>6. CASE mainPc = "waitPaused"
    <3>1. runState = "JALV_RUNNING" /\ runState' # "JALV_RUNNING"
      BY <2>4, <2>5, <2>6 DEF Interlock
    <3> QED
      BY <2>1, <2>6, <3>1 DEF Gate!Next, Gate!Shut, GateHolder, GateState, InRunCycle
  <2>7. CASE mainPc # "waitPaused"
    <3>1. ~mustPause /\ runState' = "JALV_RUNNING"
      BY <2>4, <2>5, <2>7
         DEF Interlock, Held, RunStates, TypeInv, TypeOK, SharedTypeOK
    <3>2. ResumeInRing
      <4>1. Head(toPlugin) = Resume
        BY <2>3, <2>5, <3>1 DEF Resume, RunStateChange, RunMessages
      <4> QED BY <2>2, <4>1 DEF ResumeInRing
    <3>3. GateHolder = "leaving" /\ GateHolder' = "none"
      BY <2>1, <2>4, <2>7, <3>1, <3>2 DEF GateHolder
    <3> QED
      BY <2>1, <3>1, <3>3 DEF Gate!Next, Gate!Open, GateState, InRunCycle
  <2> QED BY <2>6, <2>7
<1>15. ASSUME UNCHANGED vars
       PROVE  Stutter
  BY <1>15, ResumeStays DEF vars, GateHolder, InRunCycle
<1> QED
  BY <1>0, <1>1, <1>2, <1>3, <1>4, <1>5, <1>6, <1>7, <1>8, <1>9, <1>10, <1>11, <1>12,
     <1>13, <1>14, <1>15 DEF Next, User, Main, Audio, Gate!Next

(* Every behaviour of the two threads is a behaviour of the gate: no cycle *)
(* that runs the plugin begins while jalv_apply_state holds the pause.     *)
THEOREM ImplementsGate == Spec => GateSpec
<1>1. TypeInv /\ Interlock /\ [Next]_vars => [Gate!Next]_Gate!vars
  BY GateStep
<1>2. Spec => []TypeInv
  BY InitTypeInv, TypeInvStep, PTL DEF Spec
<1> QED
  BY <1>1, <1>2, GateInit, InterlockHolds, PTL DEF Spec, GateSpec, Gate!Spec

=============================================================================
