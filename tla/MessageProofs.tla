---------------------------- MODULE MessageProofs ----------------------------
(***************************************************************************)
(* Proofs about module JalvProcess: what becomes of the messages that the  *)
(* main thread writes to the ring.  The last value of a control is the one *)
(* the plugin ends with, and no event is lost on its way to the plugin.    *)
(***************************************************************************)
EXTENDS JalvProcessProofs, FunctionTheorems

USE ProcessAssumption DEF ProcessAssumption

-----------------------------------------------------------------------------
(* What a step does to the messages of the ring: a write that succeeds     *)
(* adds one at the end, and a read takes the one at the front.             *)
LEMMA RingAppended ==
  ASSUME TypeInv, NEW m \in PluginMessages, toPlugin' = Append(toPlugin, m)
  PROVE  /\ Len(toPlugin) \in Nat /\ DOMAIN toPlugin = 1..Len(toPlugin)
         /\ DOMAIN toPlugin' = 1..(Len(toPlugin) + 1)
         /\ Len(toPlugin') = Len(toPlugin) + 1
         /\ \A i \in 1..Len(toPlugin) : toPlugin'[i] = toPlugin[i]
         /\ toPlugin'[Len(toPlugin) + 1] = m
BY DEF TypeInv, TypeOK, SharedTypeOK

LEMMA RingTaken ==
  ASSUME TypeInv, toPlugin # <<>>, toPlugin' = Tail(toPlugin)
  PROVE  /\ Len(toPlugin) \in Nat /\ Len(toPlugin) > 0
         /\ DOMAIN toPlugin = 1..Len(toPlugin)
         /\ DOMAIN toPlugin' = 1..(Len(toPlugin) - 1)
         /\ Len(toPlugin') = Len(toPlugin) - 1
         /\ \A i \in 1..(Len(toPlugin) - 1) : toPlugin'[i] = toPlugin[i + 1]
         /\ Head(toPlugin) = toPlugin[1]
BY DEF TypeInv, TypeOK, SharedTypeOK

(* LastValueWins for one port. *)
Wins(p) ==
  /\ ControlsInRing(p) = {} => controlsBuf[p] = accepted[p]
  /\ \A i \in ControlsInRing(p) :
       (\A j \in ControlsInRing(p) : j <= i) => toPlugin[i].value = accepted[p]

LEMMA WinsByPort == LastValueWins <=> \A p \in Inputs : Wins(p)
BY DEF LastValueWins, Wins

(* Writing something else leaves the last value what it was, writing a     *)
(* value makes it the last, and reading the first message of the ring does *)
(* to the port what the message says.                                      *)
LEMMA WinsOther ==
  ASSUME TypeInv, NEW p \in Inputs, Wins(p), NEW m \in PluginMessages,
         m \notin ControlMessages({p}, Values),
         toPlugin' \in {toPlugin, Append(toPlugin, m)},
         controlsBuf'[p] = controlsBuf[p], accepted'[p] = accepted[p]
  PROVE  Wins(p)'
<1>1. CASE toPlugin' = toPlugin
  BY <1>1 DEF Wins, ControlsInRing
<1>2. CASE toPlugin' = Append(toPlugin, m)
  <2>1. ControlsInRing(p)' = ControlsInRing(p)
    BY <1>2, RingAppended DEF ControlsInRing
  <2>2. \A i \in ControlsInRing(p) : toPlugin'[i] = toPlugin[i]
    BY <1>2, RingAppended DEF ControlsInRing
  <2> QED BY <2>1, <2>2 DEF Wins
<1> QED BY <1>1, <1>2

LEMMA WinsSet ==
  ASSUME TypeInv, NEW p \in Inputs, NEW m \in ControlMessages({p}, Values),
         m \in PluginMessages,
         toPlugin' = Append(toPlugin, m), accepted'[p] = m.value
  PROVE  Wins(p)'
<1>1. Len(toPlugin) + 1 \in ControlsInRing(p)'
  BY RingAppended DEF ControlsInRing
<1>2. \A i \in ControlsInRing(p)' : i \in 1..(Len(toPlugin) + 1)
  BY RingAppended DEF ControlsInRing
<1>3. ASSUME NEW i \in ControlsInRing(p)', \A j \in ControlsInRing(p)' : j <= i
      PROVE  toPlugin'[i].value = accepted'[p]
  <2>1. i = Len(toPlugin) + 1
    BY <1>1, <1>2, <1>3, RingAppended
  <2> QED BY <2>1, RingAppended
<1> QED BY <1>1, <1>3 DEF Wins

LEMMA WinsTaken ==
  ASSUME TypeInv, NEW p \in Inputs, Wins(p), toPlugin # <<>>,
         toPlugin' = Tail(toPlugin), accepted'[p] = accepted[p],
         controlsBuf'[p] = IF Head(toPlugin) \in ControlMessages({p}, Values)
                             THEN Head(toPlugin).value ELSE controlsBuf[p]
  PROVE  Wins(p)'
<1>1. \A i : i \in ControlsInRing(p)'
              <=> i \in 1..(Len(toPlugin) - 1) /\ i + 1 \in ControlsInRing(p)
  BY RingTaken DEF ControlsInRing
<1>2. ControlsInRing(p) \subseteq 1..Len(toPlugin)
  BY RingTaken DEF ControlsInRing
<1>3. 1 \in ControlsInRing(p) <=> Head(toPlugin) \in ControlMessages({p}, Values)
  BY RingTaken DEF ControlsInRing
<1>4. ASSUME ControlsInRing(p)' = {}
      PROVE  controlsBuf'[p] = accepted'[p]
  <2>1. \A j \in ControlsInRing(p) : j = 1
    <3> SUFFICES ASSUME NEW j \in ControlsInRing(p), j # 1 PROVE FALSE
      OBVIOUS
    <3>1. j - 1 \in 1..(Len(toPlugin) - 1) /\ (j - 1) + 1 = j
      BY <1>2, RingTaken
    <3> QED BY <1>1, <1>4, <3>1
  <2>2. CASE 1 \in ControlsInRing(p)
    BY <1>3, <2>1, <2>2, RingTaken DEF Wins
  <2>3. CASE 1 \notin ControlsInRing(p)
    <3>1. ControlsInRing(p) = {}
      BY <2>1, <2>3
    <3> QED BY <1>3, <2>3, <3>1 DEF Wins
  <2> QED BY <2>2, <2>3
<1>5. ASSUME NEW i \in ControlsInRing(p)', \A j \in ControlsInRing(p)' : j <= i
      PROVE  toPlugin'[i].value = accepted'[p]
  <2>1. i \in 1..(Len(toPlugin) - 1) /\ i + 1 \in ControlsInRing(p)
    BY <1>1
  <2>2. \A j \in ControlsInRing(p) : j <= i + 1
    <3> SUFFICES ASSUME NEW j \in ControlsInRing(p), j # 1 PROVE j <= i + 1
      BY <2>1
    <3>1. j - 1 \in 1..(Len(toPlugin) - 1) /\ (j - 1) + 1 = j
      BY <1>2, RingTaken
    <3>2. j - 1 \in ControlsInRing(p)'
      BY <1>1, <3>1
    <3> QED BY <1>5, <3>1, <3>2, <2>1
  <2>3. toPlugin[i + 1].value = accepted[p]
    BY <2>1, <2>2 DEF Wins
  <2> QED BY <2>1, <2>3, RingTaken
<1> QED BY <1>4, <1>5 DEF Wins

-----------------------------------------------------------------------------
(* No message in the ring sets a control. *)
NoControl == \A p \in Inputs : ControlsInRing(p) = {}

LEMMA NoControlOther ==
  ASSUME TypeInv, NoControl, NEW m \in PluginMessages,
         \A p \in Inputs : m \notin ControlMessages({p}, Values),
         toPlugin' \in {toPlugin, Append(toPlugin, m)}
  PROVE  NoControl'
<1>1. CASE toPlugin' = toPlugin
  BY <1>1 DEF NoControl, ControlsInRing
<1>2. CASE toPlugin' = Append(toPlugin, m)
  <2> SUFFICES ASSUME NEW p \in Inputs, NEW i \in ControlsInRing(p)' PROVE FALSE
    BY DEF NoControl
  <2>1. toPlugin'[i] \in ControlMessages({p}, Values) /\ i \in 1..(Len(toPlugin) + 1)
    BY <1>2, RingAppended DEF ControlsInRing
  <2>2. i \in 1..Len(toPlugin) /\ toPlugin[i] \in ControlMessages({p}, Values)
    BY <1>2, <2>1, RingAppended
  <2> QED BY <1>2, <2>2, RingAppended DEF NoControl, ControlsInRing
<1> QED BY <1>1, <1>2

LEMMA NoControlTaken ==
  ASSUME TypeInv, NoControl, toPlugin # <<>>, toPlugin' = Tail(toPlugin)
  PROVE  NoControl'
<1> SUFFICES ASSUME NEW p \in Inputs, NEW i \in ControlsInRing(p)' PROVE FALSE
  BY DEF NoControl
<1>1. i \in 1..(Len(toPlugin) - 1)
  BY RingTaken DEF ControlsInRing
<1>2. toPlugin'[i] = toPlugin[i + 1] /\ i + 1 \in DOMAIN toPlugin
  BY <1>1, RingTaken
<1> QED BY <1>2 DEF NoControl, ControlsInRing

(* The messages that are not control messages. *)
LEMMA OtherMessages ==
  \A m \in RunMessages \cup {EventTransfer, StateRequest} :
    m \in PluginMessages /\ \A p : m \notin ControlMessages({p}, Values)
BY DEF RunMessages, EventTransfer, StateRequest, ControlMessages, PluginMessages

(* Who may set controls while a state is restored.  Without a pause, there *)
(* is a restore with the run state not JALV_RUNNING only in jalv_open,     *)
(* which begins it before anything was written to the ring.  With one,     *)
(* the pause request is the last message in the ring, and so the ring is   *)
(* empty once it is answered.                                              *)
RestoreInv ==
  /\ SafeRestore => ~mustPause
  /\ SafeRestore /\ phase = "live" => runState = "JALV_RUNNING"
  /\ phase = "activating" => mainPc = "idle"
  /\ phase = "opening" /\ ops = 0 => toPlugin = <<>> /\ mainPc = "idle"
  /\ phase = "opening" /\ mainPc # "idle" => NoControl
  /\ mainPc = "waitPaused" =>
       \A i \in DOMAIN toPlugin : toPlugin[i] \in RunMessages => i = Len(toPlugin)
  /\ mainPc = "waitPaused" /\ paused > 0 => NoControl
  /\ Held => NoControl

LEMMA RestoreInvInit == Init => RestoreInv
BY DEF Init, RestoreInv, Held, NoControl, ControlsInRing

LEMMA RestoreInvStep ==
  TypeInv /\ Interlock /\ RestoreInv /\ [Next]_vars => RestoreInv'
<1> SUFFICES ASSUME TypeInv, Interlock, RestoreInv, [Next]_vars PROVE RestoreInv'
  OBVIOUS
<1> USE DEF RestoreInv, Held, mainVars, uiVars, audioVars, shared, ghosts
<1>0. ops \in Nat /\ paused \in Nat /\ mustPause \in BOOLEAN
  BY DEF TypeInv, TypeOK, GhostTypeOK, SharedTypeOK, MainTypeOK
<1>1. ASSUME NEW p \in Inputs, NEW v \in Values, SetControl(p, v) \/ WritePort(p, v)
      PROVE  RestoreInv'
  BY <1>0, <1>1 DEF SetControl, WritePort, UserOp
<1>2. ASSUME NEW ports \in SUBSET Inputs, NEW v \in Values, ApplyState(ports, v)
      PROVE  RestoreInv'
  <2>1. ~mustPause /\ paused = 0 /\ mainPc = "idle"
    BY <1>0, <1>2 DEF ApplyState, UserOp, Interlock, PausedIsFresh
  <2>2. CASE mustPause'
    <3>1. /\ NoRunStateChange /\ phase = "live" /\ phase' = "live" /\ ~SafeRestore
          /\ toPlugin' \in {toPlugin, Append(toPlugin, Pause)}
          /\ mainPc' = "waitPaused" /\ paused' = 0
      BY <1>2, <2>1, <2>2, WrittenCases DEF ApplyState, Interlock
    <3>2. Pause \in PluginMessages
      BY OtherMessages DEF Pause, RunStateChange, RunMessages, RunStates, PluginMessages
    <3>3. \A i \in DOMAIN toPlugin' : toPlugin'[i] \in RunMessages => i = Len(toPlugin')
      <4>1. CASE toPlugin' = toPlugin
        BY <3>1, <4>1 DEF NoRunStateChange
      <4>2. CASE toPlugin' = Append(toPlugin, Pause)
        BY <3>1, <3>2, <4>2, RingAppended DEF NoRunStateChange
      <4> QED BY <3>1, <4>1, <4>2
    <3> QED BY <3>1, <3>3
  <2>3. CASE ~mustPause'
    <3>1. mainPc' = "restoring" /\ UNCHANGED <<toPlugin, phase, runState>>
          /\ ops' = ops + 1 /\ (phase = "live" \/ (phase = "opening" /\ ops = 0))
      BY <1>2, <2>3 DEF ApplyState, UserOp
    <3>2. phase = "opening" => NoControl'
      BY <3>1 DEF NoControl, ControlsInRing
    <3> QED BY <1>0, <2>3, <3>1, <3>2
  <2> QED BY <2>2, <2>3
<1>3. CASE SendEvent
  BY <1>0, <1>3 DEF SendEvent, UserOp
<1>4. CASE RequestState
  <2>1. PICK m \in {EventTransfer, StateRequest} :
           toPlugin' \in {toPlugin, Append(toPlugin, m)}
    BY <1>4, WrittenCases DEF RequestState, WriteEvent
  <2>2. NoControl => NoControl'
    BY <2>1, NoControlOther, OtherMessages
  <2>3. mainPc = "portValues" /\ mainPc' \in {"resuming", "idle"}
    BY <1>4 DEF RequestState
  <2> QED BY <1>4, <2>2, <2>3 DEF RequestState
<1>5. CASE RequestResume
  BY <1>5 DEF RequestResume, Interlock
<1>6. CASE ActivateBackend \/ SetRunning
  BY <1>6 DEF ActivateBackend, SetRunning, Interlock
<1>7. CASE TakePaused
  <2>1. NoControl' /\ mainPc' = "restoring"
    BY <1>7 DEF TakePaused, NoControl, ControlsInRing
  <2> QED BY <1>7, <2>1 DEF TakePaused
<1>8. CASE RestoreReturns
  <2>1. NoControl => NoControl'
    BY <1>8 DEF RestoreReturns, NoControl, ControlsInRing
  <2> QED BY <1>8, <2>1 DEF RestoreReturns
<1>9. ASSUME NEW p \in Inputs, SetPortValue(p)
      PROVE  RestoreInv'
  <2>1. /\ mainPc = "portValues"
        /\ UNCHANGED <<phase, mainPc, mustPause, runState, ops, paused>>
    BY <1>9 DEF SetPortValue
  <2>2. Held \/ phase = "opening" => toPlugin' = toPlugin
    BY <1>9, <2>1 DEF SetPortValue, Interlock
  <2>3. (Held \/ phase = "opening") /\ NoControl => NoControl'
    BY <2>2 DEF NoControl, ControlsInRing
  <2> QED BY <2>1, <2>3
<1>10. CASE BeginUpdate \/ UpdateMessage \/ EndUpdate
  BY <1>10 DEF BeginUpdate, UpdateMessage, EndUpdate, NoControl, ControlsInRing
<1>11. ASSUME ApplyControl \/ ApplyEvent
       PROVE  RestoreInv'
  <2>1. /\ UNCHANGED <<mainVars, runState, paused, ops>>
        /\ \E type : Receive(type) /\ type # "RUN_STATE_CHANGE"
    BY <1>11 DEF ApplyControl, ApplyEvent, Receive
  <2>2. toPlugin # <<>> /\ toPlugin' = Tail(toPlugin)
    BY <2>1, ReceiveMessage DEF Receive
  <2>3. NoControl => NoControl'
    BY <2>2, NoControlTaken
  <2>4. (\A i \in DOMAIN toPlugin :
           toPlugin[i] \in RunMessages => i = Len(toPlugin))
        => (\A i \in DOMAIN toPlugin' :
              toPlugin'[i] \in RunMessages => i = Len(toPlugin'))
    BY <2>2, RingTaken
  <2> QED BY <2>1, <2>2, <2>3, <2>4
<1>12. CASE ApplyRunState
  <2>1. Receive("RUN_STATE_CHANGE") /\ UNCHANGED <<mainVars, ops>>
    BY <1>12 DEF ApplyRunState, Receive
  <2>2. /\ toPlugin # <<>> /\ toPlugin' = Tail(toPlugin)
        /\ Head(toPlugin) \in RunMessages
    BY <2>1, ReceiveMessage
       DEF Receive, PluginMessages, ControlMessages, EventTransfer, StateRequest
  <2>3. toPlugin[1] \in RunMessages /\ 1 \in DOMAIN toPlugin
    BY <2>2, RingTaken
  <2>4. ~NoRunStateChange
    BY <2>3 DEF NoRunStateChange
  <2>5. ~Held /\ phase = "live" /\ ~SafeRestore
    BY <2>4 DEF Interlock
  <2>6. CASE mainPc = "waitPaused"
    <3>1. Len(toPlugin) = 1
      BY <2>3, <2>6
    <3>2. DOMAIN toPlugin' = {}
      BY <2>2, <3>1, RingTaken
    <3> QED BY <2>1, <2>5, <2>6, <3>2 DEF NoControl, ControlsInRing
  <2>7. CASE mainPc # "waitPaused"
    BY <2>1, <2>5, <2>7
  <2> QED BY <2>6, <2>7
<1>13. CASE \/ StartBypass \/ \E n \in 0..MaxSysEvents : StartRun(n)
            \/ BeginApply \/ \E outputs \in [Outputs -> Values] : RunPlugin(outputs)
            \/ \E events \in SUBSET EventOutputs : PluginReturns(events)
            \/ \E p \in outbox : FinishPort(p)
            \/ FinishRun \/ FinishBypass \/ BufferSize
  <2>1. UNCHANGED <<mainVars, toPlugin, runState, paused, ops>>
    BY <1>13 DEF StartBypass, StartRun, BeginApply, RunPlugin, PluginReturns,
       FinishPort, FinishRun, FinishBypass, BufferSize
  <2> QED BY <2>1 DEF NoControl, ControlsInRing
<1>14. CASE UNCHANGED vars
  BY <1>14 DEF vars, NoControl, ControlsInRing
<1> QED
  BY <1>1, <1>2, <1>3, <1>4, <1>5, <1>6, <1>7, <1>8, <1>9, <1>10, <1>11, <1>12,
     <1>13, <1>14 DEF Next, User, Main, Audio

-----------------------------------------------------------------------------
(* A value written straight to the controls buffer is not followed by an   *)
(* older one, if the plugin's restore() is thread-safe.                    *)
LEMMA LastValueStep ==
  ASSUME SafeRestore, TypeInv, Interlock, RestoreInv, LastValueWins, [Next]_vars
  PROVE  LastValueWins'
<1> SUFFICES ASSUME NEW q \in Inputs PROVE Wins(q)'
  BY DEF LastValueWins, Wins
<1> USE DEF mainVars, uiVars, audioVars, shared, ghosts
<1>0. Wins(q) /\ q \in Ports
  BY WinsByPort DEF Ports
<1>1. ASSUME NEW p \in Inputs, NEW v \in Values,
             accepted \in [Inputs -> Values],
             toPlugin' = Written(toPlugin, ControlPortChange(p, v), RingBytes),
             accepted' = IF Fits(toPlugin, ControlPortChange(p, v), RingBytes)
                           THEN [accepted EXCEPT ![p] = v] ELSE accepted,
             UNCHANGED controlsBuf
      PROVE  Wins(q)'
  <2> DEFINE m == ControlPortChange(p, v)
  <2>1. /\ m \in PluginMessages /\ m.value = v
        /\ m \in ControlMessages({q}, Values) <=> p = q
    BY DEF ControlPortChange, ControlMessages, PluginMessages
  <2> HIDE DEF m
  <2>2. CASE Fits(toPlugin, m, RingBytes) /\ p = q
    BY <1>0, <1>1, <2>1, <2>2, WinsSet DEF Written, m
  <2>3. CASE ~(Fits(toPlugin, m, RingBytes) /\ p = q)
    <3>1. accepted'[q] = accepted[q]
      BY <1>1, <2>3 DEF m
    <3>2. CASE p = q
      BY <1>0, <1>1, <2>3, <3>1, <3>2 DEF Written, m, Wins, ControlsInRing
    <3>3. CASE p # q
      BY <1>0, <1>1, <2>1, <3>1, <3>3, WinsOther, WrittenCases DEF m
    <3> QED BY <3>2, <3>3
  <2> QED BY <2>2, <2>3
<1>2. ASSUME NEW m \in RunMessages \cup {EventTransfer, StateRequest},
             toPlugin' \in {toPlugin, Append(toPlugin, m)},
             UNCHANGED <<accepted, controlsBuf>>
      PROVE  Wins(q)'
  BY <1>0, <1>2, WinsOther, OtherMessages
<1>3. ASSUME UNCHANGED <<toPlugin, accepted, controlsBuf>>
      PROVE  Wins(q)'
  BY <1>0, <1>3 DEF Wins, ControlsInRing
<1>4. ASSUME NEW p \in Inputs, NEW v \in Values, SetControl(p, v) \/ WritePort(p, v)
      PROVE  Wins(q)'
  BY <1>1, <1>4 DEF SetControl, WritePort, TypeInv, TypeOK, GhostTypeOK
<1>5. ASSUME NEW ports \in SUBSET Inputs, NEW v \in Values, ApplyState(ports, v)
      PROVE  Wins(q)'
  BY <1>3, <1>5 DEF ApplyState, RestoreInv
<1>6. CASE SendEvent \/ RequestState
  <2>1. PICK m \in {EventTransfer, StateRequest} :
           toPlugin' \in {toPlugin, Append(toPlugin, m)}
    BY <1>6, WrittenCases DEF SendEvent, RequestState, WriteEvent
  <2> QED BY <1>2, <1>6, <2>1 DEF SendEvent, RequestState
<1>7. CASE \/ ActivateBackend \/ SetRunning \/ TakePaused \/ RestoreReturns
           \/ BeginUpdate \/ UpdateMessage \/ EndUpdate
  BY <1>3, <1>7 DEF ActivateBackend, SetRunning, TakePaused, RestoreReturns,
     BeginUpdate, UpdateMessage, EndUpdate
<1>8. CASE RequestResume
  BY <1>8 DEF RequestResume, Interlock, RestoreInv
<1>9. ASSUME NEW p \in Inputs, SetPortValue(p)
      PROVE  Wins(q)'
  <2>1. preset \in Values /\ accepted \in [Inputs -> Values]
        /\ controlsBuf \in [Ports -> Values]
    BY DEF TypeInv, TypeOK, MainTypeOK, GhostTypeOK, SharedTypeOK
  <2>2. CASE runState = "JALV_RUNNING"
    BY <1>1, <1>9, <2>1, <2>2 DEF SetPortValue
  <2>3. CASE runState # "JALV_RUNNING"
    <3>1. /\ UNCHANGED toPlugin
          /\ accepted' = [accepted EXCEPT ![p] = preset]
          /\ controlsBuf' = [controlsBuf EXCEPT ![p] = preset]
      BY <1>9, <2>3 DEF SetPortValue
    <3>2. phase = "opening" /\ mainPc # "idle"
      BY <1>9, <2>3 DEF SetPortValue, RestoreInv, TypeInv, TypeOK, MainTypeOK
    <3>3. ControlsInRing(q) = {} /\ ControlsInRing(q)' = {}
      BY <3>1, <3>2 DEF RestoreInv, NoControl, ControlsInRing
    <3>4. controlsBuf'[q] = accepted'[q]
      BY <1>0, <2>1, <3>1, <3>3 DEF Wins
    <3> QED BY <3>3, <3>4 DEF Wins
  <2> QED BY <2>2, <2>3
<1>10. CASE \/ StartBypass \/ \E n \in 0..MaxSysEvents : StartRun(n)
            \/ BeginApply
            \/ \E events \in SUBSET EventOutputs : PluginReturns(events)
            \/ \E p \in outbox : FinishPort(p)
            \/ FinishRun \/ FinishBypass \/ BufferSize
  BY <1>3, <1>10 DEF StartBypass, StartRun, BeginApply, PluginReturns, FinishPort,
     FinishRun, FinishBypass, BufferSize
<1>11. ASSUME NEW outputs \in [Outputs -> Values], RunPlugin(outputs)
       PROVE  Wins(q)'
  <2>1. controlsBuf'[q] = controlsBuf[q]
    BY <1>0, <1>11 DEF RunPlugin
  <2> QED BY <1>0, <1>11, <2>1 DEF RunPlugin, Wins, ControlsInRing
<1>12. CASE ApplyControl
  <2>1. Receive("CONTROL_PORT_CHANGE")
    BY <1>12 DEF ApplyControl
  <2>2. /\ toPlugin # <<>> /\ toPlugin' = Tail(toPlugin) /\ accepted' = accepted
        /\ Head(toPlugin) \in ControlMessages(Inputs, Values)
    BY <2>1, ReceiveMessage
       DEF Receive, PluginMessages, RunMessages, EventTransfer, StateRequest
  <2>3. PICK m \in ControlMessages(Inputs, Values) : m = Head(toPlugin)
    BY <2>2
  <2>4. controlsBuf'[q] = IF m.port = q THEN m.value ELSE controlsBuf[q]
    BY <1>0, <1>12, <2>3 DEF ApplyControl, TypeInv, TypeOK, SharedTypeOK
  <2>5. m.port = q <=> m \in ControlMessages({q}, Values)
    BY DEF ControlMessages
  <2> QED BY <1>0, <2>2, <2>3, <2>4, <2>5, WinsTaken
<1>13. CASE ApplyEvent \/ ApplyRunState
  <2>1. /\ UNCHANGED <<controlsBuf, accepted>>
        /\ \E type : Receive(type) /\ type # "CONTROL_PORT_CHANGE"
    BY <1>13 DEF ApplyEvent, ApplyRunState, Receive
  <2>2. /\ toPlugin # <<>> /\ toPlugin' = Tail(toPlugin)
        /\ Head(toPlugin) \notin ControlMessages({q}, Values)
    BY <2>1, ReceiveMessage DEF Receive, ControlMessages
  <2> QED BY <1>0, <2>1, <2>2, WinsTaken
<1>14. CASE UNCHANGED vars
  BY <1>3, <1>14 DEF vars
<1> QED
  BY <1>4, <1>5, <1>6, <1>7, <1>8, <1>9, <1>10, <1>11, <1>12, <1>13, <1>14
     DEF Next, User, Main, Audio

LEMMA RestoreInvHolds == Spec => [](TypeInv /\ Interlock /\ RestoreInv)
<1>1. Init => TypeInv /\ Interlock /\ RestoreInv
  BY InitTypeInv, InitInterlock, RestoreInvInit
<1>2. TypeInv /\ Interlock /\ RestoreInv /\ [Next]_vars
        => (TypeInv /\ Interlock /\ RestoreInv)'
  BY TypeInvStep, InterlockStep, RestoreInvStep
<1> QED BY <1>1, <1>2, PTL DEF Spec

(* For a plugin whose restore() is thread-safe, which jalv never pauses:   *)
(* whatever the user, the plugin's UI and the presets do, and whichever of *)
(* the writes fail, each control ends with the last value that got through.*)
THEOREM LastValue == ASSUME SafeRestore PROVE Spec => []LastValueWins
<1>1. Init => LastValueWins
  BY DEF Init, LastValueWins, ControlsInRing, Ports
<1>2. TypeInv /\ Interlock /\ RestoreInv /\ LastValueWins /\ [Next]_vars
        => LastValueWins'
  BY LastValueStep
<1> QED BY <1>1, <1>2, RestoreInvHolds, PTL DEF Spec

(* A restore that waited for the pause runs under it to its end, and while *)
(* it does no older value of a control is left in the ring to overwrite    *)
(* what set_port_value writes directly: for any plugin.                    *)
THEOREM RestoreIsPaused == Spec => []PauseHeld
<1>1. Interlock /\ RestoreInv => PauseHeld
  BY DEF Interlock, RestoreInv, NoControl, PauseHeld
<1> QED BY <1>1, RestoreInvHolds, PTL

-----------------------------------------------------------------------------
(* Counting the events in the ring and in the input buffer. *)

(* The positions of a sequence that hold a member of a set. *)
Positions(s, S) == {i \in DOMAIN s : s[i] \in S}

LEMMA PositionsType ==
  ASSUME NEW T, NEW s \in Seq(T), NEW S
  PROVE  IsFiniteSet(Positions(s, S)) /\ Cardinality(Positions(s, S)) \in Nat
<1>1. IsFiniteSet(1..Len(s)) /\ Positions(s, S) \in SUBSET (1..Len(s))
  BY FS_Interval DEF Positions
<1> QED BY <1>1, FS_Subset, FS_CardinalityType

(* Their number grows with a write and shrinks with a read. *)
LEMMA CountAppended ==
  ASSUME NEW T, NEW s \in Seq(T), NEW e \in T, NEW S
  PROVE  Cardinality(Positions(Append(s, e), S))
           = Cardinality(Positions(s, S)) + (IF e \in S THEN 1 ELSE 0)
<1>1. CASE e \in S
  <2>1. Positions(Append(s, e), S) = Positions(s, S) \cup {Len(s) + 1}
    BY <1>1 DEF Positions
  <2>2. Len(s) + 1 \notin Positions(s, S)
    BY DEF Positions
  <2> QED BY <1>1, <2>1, <2>2, PositionsType, FS_AddElement
<1>2. CASE e \notin S
  <2>1. Positions(Append(s, e), S) = Positions(s, S)
    BY <1>2 DEF Positions
  <2> QED BY <1>2, <2>1, PositionsType
<1> QED BY <1>1, <1>2

LEMMA CountTaken ==
  ASSUME NEW T, NEW s \in Seq(T), s # <<>>, NEW S
  PROVE  Cardinality(Positions(Tail(s), S))
           = Cardinality(Positions(s, S)) - (IF Head(s) \in S THEN 1 ELSE 0)
<1> DEFINE P == Positions(s, S)
           Q == Positions(Tail(s), S)
           shift == [i \in Q |-> i + 1]
<1>1. /\ Len(s) \in Nat /\ Len(s) > 0 /\ DOMAIN s = 1..Len(s)
      /\ DOMAIN Tail(s) = 1..(Len(s) - 1) /\ Head(s) = s[1]
      /\ \A i \in 1..(Len(s) - 1) : Tail(s)[i] = s[i + 1]
  OBVIOUS
<1>2. shift \in [Q -> P \ {1}]
  BY <1>1 DEF Positions
<1>3. \A i, j \in Q : shift[i] = shift[j] => i = j
  BY <1>1 DEF Positions
<1>4. \A i \in P \ {1} : \E j \in Q : shift[j] = i
  <2> TAKE i \in P \ {1}
  <2>1. i - 1 \in 1..(Len(s) - 1) /\ (i - 1) + 1 = i
    BY <1>1 DEF Positions
  <2>2. i - 1 \in Q
    BY <1>1, <2>1 DEF Positions
  <2> QED BY <2>1, <2>2
<1>5. ExistsBijection(Q, P \ {1})
  <2> HIDE DEF shift, P, Q
  <2>1. shift \in Bijection(Q, P \ {1})
    BY <1>2, <1>3, <1>4, Fun_IsBij
  <2> QED BY <2>1 DEF ExistsBijection
<1>6. IsFiniteSet(P) /\ IsFiniteSet(Q) /\ Cardinality(P) \in Nat
  <2>1. Tail(s) \in Seq(T)
    OBVIOUS
  <2> QED BY <2>1, PositionsType
<1>7. 1 \in P <=> Head(s) \in S
  BY <1>1 DEF Positions
<1> HIDE DEF P, Q
<1>8. Cardinality(P \ {1}) = Cardinality(P) - (IF Head(s) \in S THEN 1 ELSE 0)
  <2>1. Cardinality(P \ {1}) = IF 1 \in P THEN Cardinality(P) - 1 ELSE Cardinality(P)
    BY <1>6, FS_RemoveElement
  <2> QED BY <1>6, <1>7, <2>1
<1>9. Cardinality(P \ {1}) = Cardinality(Q)
  BY <1>5, <1>6, FS_Bijection
<1> QED BY <1>8, <1>9 DEF P, Q

LEMMA CountAsPositions ==
  /\ EventsInRing = Positions(toPlugin, {EventTransfer, StateRequest})
  /\ \A buf \in Seq(Slots) : UiEvents(buf) = Cardinality(Positions(buf, {"ui"}))
<1>1. EventsInRing = Positions(toPlugin, {EventTransfer, StateRequest})
  BY DEF EventsInRing, Positions
<1>2. ASSUME NEW buf \in Seq(Slots)
      PROVE  UiEvents(buf) = Cardinality(Positions(buf, {"ui"}))
  <2>1. {i \in DOMAIN buf : buf[i] = "ui"} = Positions(buf, {"ui"})
    BY DEF Positions
  <2> QED BY <2>1 DEF UiEvents
<1> QED BY <1>1, <1>2

(* The same, of the ring and of the input buffer. *)
EventCount == Cardinality(EventsInRing)

LEMMA EventCountType == TypeInv => EventCount \in Nat
BY PositionsType, CountAsPositions DEF EventCount, TypeInv, TypeOK, SharedTypeOK

LEMMA EventCountAppended ==
  ASSUME TypeInv, NEW m \in PluginMessages, toPlugin' = Append(toPlugin, m)
  PROVE  EventCount'
           = EventCount + (IF m \in {EventTransfer, StateRequest} THEN 1 ELSE 0)
<1>1. EventCount' = Cardinality(Positions(toPlugin', {EventTransfer, StateRequest}))
  BY DEF EventCount, EventsInRing, Positions, EventTransfer, StateRequest
<1> QED
  BY <1>1, CountAppended, CountAsPositions DEF EventCount, TypeInv, TypeOK, SharedTypeOK

LEMMA EventCountTaken ==
  ASSUME TypeInv, toPlugin # <<>>, toPlugin' = Tail(toPlugin)
  PROVE  EventCount' = EventCount - (IF Head(toPlugin) \in {EventTransfer, StateRequest}
                                       THEN 1 ELSE 0)
<1>1. EventCount' = Cardinality(Positions(toPlugin', {EventTransfer, StateRequest}))
  BY DEF EventCount, EventsInRing, Positions, EventTransfer, StateRequest
<1> QED
  BY <1>1, CountTaken, CountAsPositions DEF EventCount, TypeInv, TypeOK, SharedTypeOK

LEMMA UiEventsAppend ==
  ASSUME NEW buf \in Seq(Slots), Len(buf) <= EvbufSlots
  PROVE  UiEvents(EvbufAppend(buf, "ui"))
           = UiEvents(buf) + (IF Len(buf) = EvbufSlots THEN 0 ELSE 1)
<1>1. CASE Len(buf) < EvbufSlots
  <2>1. "ui" \in Slots /\ Append(buf, "ui") \in Seq(Slots)
    BY DEF Slots
  <2>2. UiEvents(Append(buf, "ui")) = UiEvents(buf) + 1
    <3>1. Cardinality(Positions(Append(buf, "ui"), {"ui"}))
            = Cardinality(Positions(buf, {"ui"})) + 1
      BY <2>1, CountAppended
    <3> QED BY <2>1, <3>1, CountAsPositions
  <2> QED BY <1>1, <2>2 DEF EvbufAppend
<1>2. CASE Len(buf) = EvbufSlots
  BY <1>2, UiEventsType DEF EvbufAppend
<1> QED BY <1>1, <1>2

LEMMA UiEventsOfNone == UiEvents(<<>>) = 0
BY FS_EmptySet DEF UiEvents

(* Jack has no events of its own for the port: the buffer stays as it is.  *)
LEMMA NothingAtBegin ==
  ASSUME NEW buf \in Seq(Slots), Len(buf) <= EvbufSlots
  PROVE  EvbufWriteAtBegin(buf, 0) = buf
<1>1. EvbufWriteAtBegin(buf, 0) =
        [i \in 1..Len(buf) |-> IF i <= 0 THEN "sys" ELSE IF i <= Len(buf) THEN buf[i]
                               ELSE "stale"]
  BY DEF EvbufWriteAtBegin
<1>2. \A i \in 1..Len(buf) : EvbufWriteAtBegin(buf, 0)[i] = buf[i]
  BY <1>1
<1> QED BY <1>1, <1>2

(* Events written, read, appended, run with and cleared: each step moves   *)
(* as many from one place to the next as it adds to or takes from `owed`.  *)
LEMMA EventsStep ==
  ASSUME Backend = "jack", MaxSysEvents = 0, TypeInv, EventsConserved, [Next]_vars
  PROVE  EventsConserved'
<1> DEFINE Run(pc, n) == IF pc \in {"running", "finish"} THEN n ELSE 0
<1>0. /\ evbuf \in Seq(Slots) /\ Len(evbuf) <= EvbufSlots /\ UiEvents(evbuf) \in Nat
      /\ EventCount \in Nat /\ owed \in Int
      /\ owed = UiEvents(evbuf) + EventCount - Run(audioPc, UiEvents(evbuf))
  BY EventCountType, UiEventsType
     DEF TypeInv, TypeOK, AudioTypeOK, GhostTypeOK, EventsConserved, EventCount
<1> DEFINE Goal == owed' = UiEvents(evbuf') + EventCount'
                             - Run(audioPc', UiEvents(evbuf'))
           Clear == audioPc = "idle" /\ mode = "run" => evbuf = <<>>
<1> SUFFICES Goal /\ Clear'
  BY DEF EventsConserved, UiEvents, EventCount
<1>clear. Clear'
  <2>1. Clear
    BY DEF EventsConserved
  <2>2. CASE UNCHANGED <<audioPc, mode, evbuf>>
    BY <2>1, <2>2
  <2>3. CASE User \/ Main \/ UNCHANGED vars
    BY <2>2, <2>3, MainFrame DEF audioVars, vars
  <2>4. CASE BufferSize
    BY <2>4 DEF BufferSize
  <2>5. CASE FinishRun
    BY <2>5 DEF FinishRun
  <2>6. CASE FinishBypass
    BY <2>6 DEF FinishBypass
  <2>7. CASE \/ StartBypass \/ \E n \in 0..MaxSysEvents : StartRun(n)
             \/ BeginApply \/ ApplyControl \/ ApplyEvent \/ ApplyRunState
             \/ \E outputs \in [Outputs -> Values] : RunPlugin(outputs)
             \/ \E events \in SUBSET EventOutputs : PluginReturns(events)
             \/ \E p \in outbox : FinishPort(p)
    <3>1. audioPc' # "idle"
      BY <2>7 DEF StartBypass, StartRun, BeginApply, ApplyControl, ApplyEvent,
         ApplyRunState, Receive, RunPlugin, PluginReturns, FinishPort
    <3> QED BY <3>1
  <2> QED BY <2>3, <2>4, <2>5, <2>6, <2>7 DEF Next, Audio
<1> SUFFICES Goal
  BY <1>clear
<1> HIDE DEF Clear
<1> USE DEF mainVars, uiVars, audioVars, shared, ghosts
<1>1. ASSUME NEW m \in PluginMessages,
             toPlugin' = Written(toPlugin, m, RingBytes), UNCHANGED <<evbuf, audioPc>>,
             owed' = IF /\ m \in {EventTransfer, StateRequest}
                        /\ Fits(toPlugin, m, RingBytes)
                       THEN owed + 1 ELSE owed
      PROVE  Goal
  <2>1. CASE Fits(toPlugin, m, RingBytes)
    BY <1>0, <1>1, <2>1, EventCountAppended DEF Written
  <2>2. CASE ~Fits(toPlugin, m, RingBytes)
    <3>1. EventCount' = EventCount
      BY <1>1, <2>2 DEF Written, EventCount, EventsInRing, EventTransfer, StateRequest
    <3> QED BY <1>0, <1>1, <2>2, <3>1
  <2> QED BY <2>1, <2>2
<1>2. UNCHANGED toPlugin => EventCount' = EventCount
  BY DEF EventCount, EventsInRing, EventTransfer, StateRequest
<1>3. ASSUME UNCHANGED <<toPlugin, evbuf, owed>>,
             \/ UNCHANGED audioPc
             \/ /\ audioPc \notin {"running", "finish"}
                /\ audioPc' \notin {"running", "finish"}
             \/ audioPc = "running" /\ audioPc' = "finish"
      PROVE  Goal
  BY <1>0, <1>2, <1>3
<1>4. ASSUME NEW p \in Inputs, NEW v \in Values
      PROVE  /\ ControlPortChange(p, v) \in PluginMessages
             /\ ControlPortChange(p, v) \notin {EventTransfer, StateRequest}
  BY DEF ControlPortChange, ControlMessages, PluginMessages, EventTransfer, StateRequest
<1>5. /\ Pause \in PluginMessages /\ Resume \in PluginMessages
      /\ Pause \notin {EventTransfer, StateRequest}
      /\ Resume \notin {EventTransfer, StateRequest}
  BY DEF Pause, Resume, RunStateChange, RunMessages, RunStates, PluginMessages,
     EventTransfer, StateRequest
<1>6. ASSUME NEW p \in Inputs, NEW v \in Values, SetControl(p, v) \/ WritePort(p, v)
      PROVE  Goal
  <2> DEFINE m == ControlPortChange(p, v)
  <2>1. /\ toPlugin' = Written(toPlugin, m, RingBytes)
        /\ UNCHANGED <<evbuf, audioPc, owed>>
    BY <1>6 DEF SetControl, WritePort
  <2> QED BY <1>1, <1>4, <2>1
<1>7. ASSUME NEW ports \in SUBSET Inputs, NEW v \in Values, ApplyState(ports, v)
      PROVE  Goal
  <2>1. UNCHANGED <<evbuf, audioPc, owed>>
    BY <1>7 DEF ApplyState
  <2>2. UNCHANGED toPlugin \/ toPlugin' = Written(toPlugin, Pause, RingBytes)
    BY <1>7 DEF ApplyState
  <2> QED BY <1>1, <1>3, <1>5, <2>1, <2>2
<1>8. CASE SendEvent \/ RequestState
  <2>1. UNCHANGED <<evbuf, audioPc>>
    BY <1>8 DEF SendEvent, RequestState
  <2>2. \/ UNCHANGED <<toPlugin, owed>>
        \/ \E m \in {EventTransfer, StateRequest} : WriteEvent(m)
    BY <1>8 DEF SendEvent, RequestState
  <2>3. {EventTransfer, StateRequest} \subseteq PluginMessages
    BY DEF PluginMessages
  <2> QED BY <1>1, <1>3, <2>1, <2>2, <2>3 DEF WriteEvent
<1>9. ASSUME NEW p \in Inputs, SetPortValue(p)
      PROVE  Goal
  <2>1. preset \in Values
    BY DEF TypeInv, TypeOK, MainTypeOK
  <2>2. UNCHANGED <<evbuf, audioPc, owed>>
    BY <1>9 DEF SetPortValue
  <2>3. \/ UNCHANGED toPlugin
        \/ toPlugin' = Written(toPlugin, ControlPortChange(p, preset), RingBytes)
    BY <1>9 DEF SetPortValue
  <2> QED BY <1>1, <1>3, <1>4, <2>1, <2>2, <2>3
<1>10. CASE RequestResume
  BY <1>1, <1>5, <1>10 DEF RequestResume
<1>11. CASE \/ ActivateBackend \/ SetRunning \/ TakePaused \/ RestoreReturns
            \/ BeginUpdate \/ UpdateMessage \/ EndUpdate
            \/ StartBypass \/ BeginApply \/ FinishBypass
            \/ \E events \in SUBSET EventOutputs : PluginReturns(events)
            \/ \E p \in outbox : FinishPort(p)
            \/ UNCHANGED vars
  BY <1>3, <1>11 DEF ActivateBackend, SetRunning, TakePaused, RestoreReturns,
     BeginUpdate, UpdateMessage, EndUpdate, StartBypass, BeginApply, FinishBypass,
     PluginReturns, FinishPort, vars
<1>12. ASSUME NEW n \in 0..MaxSysEvents, StartRun(n)
       PROVE  Goal
  <2>1. n = 0
    OBVIOUS
  <2>2. evbuf' = evbuf
    BY <1>0, <1>12, <2>1, NothingAtBegin DEF StartRun
  <2> QED BY <1>3, <1>12, <2>2 DEF StartRun
<1>13. CASE ApplyControl \/ ApplyRunState
  <2>1. /\ UNCHANGED <<evbuf, owed, audioPc>>
        /\ \E type \in {"CONTROL_PORT_CHANGE", "RUN_STATE_CHANGE"} : Receive(type)
    BY <1>13 DEF ApplyControl, ApplyRunState, Receive
  <2>2. /\ toPlugin # <<>> /\ toPlugin' = Tail(toPlugin)
        /\ Head(toPlugin) \notin {EventTransfer, StateRequest}
    BY <2>1, ReceiveMessage DEF Receive, EventTransfer, StateRequest
  <2> QED BY <1>0, <2>1, <2>2, EventCountTaken
<1>14. CASE ApplyEvent
  <2>1. PICK type \in {"EVENT_TRANSFER", "STATE_REQUEST"} : Receive(type)
    BY <1>14 DEF ApplyEvent
  <2>2. /\ toPlugin # <<>> /\ toPlugin' = Tail(toPlugin)
        /\ Head(toPlugin) \in {EventTransfer, StateRequest}
        /\ audioPc = "apply" /\ audioPc' = "apply"
    BY <2>1, ReceiveMessage
       DEF Receive, PluginMessages, ControlMessages, RunMessages
  <2>3. EventCount' = EventCount - 1
    BY <2>2, EventCountTaken
  <2>4. UiEvents(evbuf') = UiEvents(evbuf) + (IF Len(evbuf) = EvbufSlots THEN 0 ELSE 1)
    BY <1>0, <1>14, UiEventsAppend DEF ApplyEvent
  <2> QED BY <1>0, <1>14, <2>2, <2>3, <2>4 DEF ApplyEvent
<1>15. ASSUME NEW outputs \in [Outputs -> Values], RunPlugin(outputs)
       PROVE  Goal
  BY <1>0, <1>2, <1>15 DEF RunPlugin
<1>16. CASE FinishRun
  BY <1>0, <1>2, <1>16, UiEventsOfNone DEF FinishRun
<1>17. CASE BufferSize
  BY <1>0, <1>2, <1>17, UiEventsOfNone DEF BufferSize
<1> QED
  BY <1>6, <1>7, <1>8, <1>9, <1>10, <1>11, <1>12, <1>13, <1>14, <1>15,
     <1>16, <1>17 DEF Next, User, Main, Audio

(* With Jack, and without events of Jack's own for the port: every event   *)
(* that the ring accepted is in the ring or in the input buffer until the  *)
(* plugin is run with it, unless the buffer was full, or Jack's buffer     *)
(* size changed while it waited there for the first cycle after a pause.   *)
THEOREM NoEventLost ==
  ASSUME Backend = "jack", MaxSysEvents = 0
  PROVE  Spec => []EventsConserved
<1>1. Init => EventsConserved
  BY FS_EmptySet, UiEventsOfNone DEF Init, EventsConserved, EventsInRing
<1>2. TypeInv /\ EventsConserved /\ [Next]_vars => EventsConserved'
  BY EventsStep
<1>3. Spec => []TypeInv
  BY InitTypeInv, TypeInvStep, PTL DEF Spec
<1> QED BY <1>1, <1>2, <1>3, PTL DEF Spec

=============================================================================
