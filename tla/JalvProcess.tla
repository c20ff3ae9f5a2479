----------------------------- MODULE JalvProcess -----------------------------
(***************************************************************************)
(* The core of jalv: the main thread (which opens the plugin, sets         *)
(* controls, sends events, applies presets and updates the UI) and the     *)
(* audio thread (which runs the plugin once per cycle), and what they      *)
(* share: two message rings, the run state, the `paused` semaphore and the *)
(* control buffers.                                                        *)
(*                                                                         *)
(*   main thread     src/src/jalv.c, src/src/state.c                       *)
(*   audio thread    src/src/process.c, and the process callbacks of       *)
(*                   src/src/jack.c and src/src/portaudio.c                *)
(*                                                                         *)
(* A step is what one thread does between two points at which the other    *)
(* can tell the difference: one message written or read, one semaphore     *)
(* operation, one entry to or exit from the plugin.                        *)
(***************************************************************************)
EXTENDS Integers, FiniteSets, Comm

CONSTANTS
  Inputs,          \* control input ports
  Outputs,         \* control output ports
  EventOutputs,    \* event output ports; each has at most an event a cycle
  Values,          \* values of a control
  Default,         \* the value every control starts with
  SafeRestore,     \* jalv->safe_restore: restore() may run concurrently
  HasControlIn,    \* the plugin has a main control event port
  PluginUi,        \* the plugin's own UI is open, and writes to its ports
  Backend,         \* "jack" or "portaudio"
  RingBytes,       \* bytes a ring can hold
  EvbufSlots,      \* events the input event buffer can hold
  UpdateFrames,    \* process->update_frames, in cycles; zero for none
  MaxSysEvents,    \* bound: Jack MIDI or transport events in one cycle
  MaxOps           \* bound: operations of the user

ASSUME ProcessAssumption ==
  /\ Default \in Values
  /\ Inputs \cap Outputs = {} /\ Outputs \cap EventOutputs = {}
  /\ SafeRestore \in BOOLEAN /\ HasControlIn \in BOOLEAN /\ PluginUi \in BOOLEAN
  /\ Backend \in {"jack", "portaudio"}
  /\ RingBytes \in Nat /\ EvbufSlots \in Nat /\ UpdateFrames \in Nat
  /\ MaxSysEvents \in Nat /\ MaxOps \in Nat

VARIABLES
  phase,         \* "opening", "activating" (callbacks have begun), "live"
  mainPc,        \* what the main thread is doing
  mustPause,     \* must_pause of jalv_apply_state
  preset,        \* the value the state being restored gives its ports
  todo,          \* the ports it has still to set
  unread,        \* messages jalv_update has still to read
  controlValue,  \* Control.value: what the UI believes and shows
  toPlugin,      \* process->ui_to_plugin
  toUi,          \* process->plugin_to_ui
  runState,      \* process->run_state
  paused,        \* the count of the semaphore process->paused
  audioPc,       \* what the audio thread is doing
  mode,          \* whether this cycle runs or bypasses the plugin
  remaining,     \* messages apply_ui_events has still to read
  evbuf,         \* the input event buffer of the control port
  controlsBuf,   \* process->controls_buf: what the plugin reads and writes
  pendingFrames, \* process->pending_frames, in cycles
  outbox,        \* output ports the callback has still to finish
  accepted,      \* history: the last value given to the plugin for a port
  owed,          \* history: UI events accepted and not yet run, refused for
                 \* want of room or cleared by a change of buffer size
  ops            \* operations of the user so far

uiVars    == <<preset, todo, unread, controlValue>>
mainVars  == <<phase, mainPc, mustPause, uiVars>>
audioVars == <<audioPc, mode, remaining, evbuf, pendingFrames, outbox>>
shared    == <<toPlugin, toUi, runState, paused, controlsBuf>>
ghosts    == <<accepted, owed, ops>>
vars      == <<mainVars, audioVars, shared, ghosts>>

Ports == Inputs \cup Outputs

PluginMessages == ControlMessages(Inputs, Values) \cup RunMessages
                    \cup {EventTransfer, StateRequest}

UiMessages == ControlMessages(Ports, Values) \cup {EventTransfer}

(* What a slot of the event buffer holds: an event from the UI, one from   *)
(* the sound server, or memory that no event was written to.               *)
Slots == {"ui", "sys", "stale"}

Pause  == RunStateChange("JALV_PAUSED")
Resume == RunStateChange("JALV_RUNNING")

MainTypeOK ==
  /\ phase \in {"opening", "activating", "live"}
  /\ mainPc \in {"idle", "waitPaused", "restoring", "portValues",
                 "resuming", "updating"}
  /\ mustPause \in BOOLEAN
  /\ preset \in Values /\ todo \in SUBSET Inputs
  /\ unread \in Nat
  /\ controlValue \in [Ports -> Values]

AudioTypeOK ==
  /\ audioPc \in {"idle", "drain", "apply", "running", "finish"}
  /\ mode \in {"run", "bypass"}
  /\ remaining \in Nat
  /\ evbuf \in Seq(Slots) /\ Len(evbuf) <= EvbufSlots
  /\ pendingFrames \in 0..UpdateFrames
  /\ outbox \in SUBSET (Outputs \cup EventOutputs)

SharedTypeOK ==
  /\ toPlugin \in Seq(PluginMessages) /\ toUi \in Seq(UiMessages)
  /\ runState \in RunStates
  /\ paused \in Nat
  /\ controlsBuf \in [Ports -> Values]

GhostTypeOK ==
  /\ accepted \in [Inputs -> Values] /\ owed \in Int /\ ops \in 0..MaxOps

TypeOK == MainTypeOK /\ AudioTypeOK /\ SharedTypeOK /\ GhostTypeOK

Init ==
  /\ phase = "opening" /\ mainPc = "idle" /\ mustPause = FALSE
  /\ preset = Default /\ todo = {} /\ unread = 0
  /\ controlValue = [p \in Ports |-> Default]
  /\ toPlugin = <<>> /\ toUi = <<>>
  /\ runState = "JALV_PAUSED" /\ paused = 0
  /\ audioPc = "idle" /\ mode = "bypass" /\ remaining = 0
  /\ evbuf = <<>> /\ pendingFrames = 0 /\ outbox = {}
  /\ controlsBuf = [p \in Ports |-> Default]
  /\ accepted = [p \in Inputs |-> Default] /\ owed = 0 /\ ops = 0

-----------------------------------------------------------------------------
(* The main thread. *)

(* jalv_open is over: the sound server starts to call back (jalv_activate). *)
ActivateBackend ==
  /\ phase = "opening" /\ mainPc = "idle"
  /\ phase' = "activating"
  /\ UNCHANGED <<mainPc, mustPause, uiVars, audioVars, shared, ghosts>>

(* The last assignment of jalv_activate. *)
SetRunning ==
  /\ phase = "activating"
  /\ phase' = "live"
  /\ runState' = "JALV_RUNNING"
  /\ UNCHANGED <<mainPc, mustPause, uiVars, audioVars, toPlugin, toUi, paused,
                 controlsBuf, ghosts>>

(* One operation of the user, who can only act while the main thread is    *)
(* idle.                                                                   *)
UserOp == mainPc = "idle" /\ ops < MaxOps /\ ops' = ops + 1

(* jalv_set_control of a control port, from a widget, the console or, in   *)
(* jalv_open, the command line.  The result of the write is ignored.       *)
SetControl(p, v) ==
  LET message == ControlPortChange(p, v)
  IN /\ UserOp
     /\ phase \in {"opening", "live"}
     /\ controlValue' = [controlValue EXCEPT ![p] = v]
     /\ toPlugin' = Written(toPlugin, message, RingBytes)
     /\ accepted' = IF Fits(toPlugin, message, RingBytes)
                      THEN [accepted EXCEPT ![p] = v] ELSE accepted
     /\ UNCHANGED <<phase, mainPc, mustPause, preset, todo, unread, audioVars,
                    toUi, runState, paused, controlsBuf, owed>>

(* jalv_send_to_plugin of a control port's value, by the plugin's own UI:  *)
(* jalv's Control is not told.                                             *)
WritePort(p, v) ==
  LET message == ControlPortChange(p, v)
  IN /\ UserOp
     /\ phase = "live" /\ PluginUi
     /\ toPlugin' = Written(toPlugin, message, RingBytes)
     /\ accepted' = IF Fits(toPlugin, message, RingBytes)
                      THEN [accepted EXCEPT ![p] = v] ELSE accepted
     /\ UNCHANGED <<mainVars, audioVars, toUi, runState, paused, controlsBuf, owed>>

(* Write a message that becomes an event for the plugin to the ring. *)
WriteEvent(message) ==
  /\ toPlugin' = Written(toPlugin, message, RingBytes)
  /\ owed' = IF Fits(toPlugin, message, RingBytes) THEN owed + 1 ELSE owed

(* jalv_send_to_plugin with an event: a property set in the UI, a message  *)
(* of the plugin's own UI, or the patch:Get of jalv_refresh_ui.            *)
SendEvent ==
  /\ UserOp
  /\ phase = "live" /\ HasControlIn
  /\ WriteEvent(EventTransfer)
  /\ UNCHANGED <<mainVars, audioVars, toUi, runState, paused, controlsBuf,
                 accepted>>

(* A mutant: pauses whether the plugin runs or is paused already. *)
ApplyStateAlwaysPausing(ports, value) ==
  /\ UserOp
  /\ phase = "live" \/ (phase = "opening" /\ ops = 0)
  /\ preset' = value /\ todo' = ports
  /\ mustPause' = ~SafeRestore
  /\ toPlugin' = IF mustPause' THEN Written(toPlugin, Pause, RingBytes) ELSE toPlugin
  /\ mainPc' = IF mustPause' THEN "waitPaused" ELSE "restoring"
  /\ UNCHANGED <<phase, unread, controlValue, audioVars, toUi, runState, paused,
                 controlsBuf, accepted, owed>>

(* jalv_apply_state with a state that sets the given ports, up to its      *)
(* wait.  jalv_open does this before it applies the command line.          *)
ApplyState(ports, value) ==
  /\ UserOp
  /\ phase = "live" \/ (phase = "opening" /\ ops = 0)
  /\ preset' = value /\ todo' = ports
  /\ mustPause' = (~SafeRestore /\ runState = "JALV_RUNNING")
  /\ IF mustPause'
       THEN /\ toPlugin' = Written(toPlugin, Pause, RingBytes)
            /\ mainPc' = "waitPaused"
       ELSE /\ mainPc' = "restoring"
            /\ UNCHANGED toPlugin
  /\ UNCHANGED <<phase, unread, controlValue, audioVars, toUi, runState, paused,
                 controlsBuf, accepted, owed>>

(* A mutant: tries the semaphore, and goes on in any case. *)
TakePausedOrGoOn ==
  /\ mainPc = "waitPaused"
  /\ paused' = IF paused > 0 THEN paused - 1 ELSE 0
  /\ mainPc' = "restoring"
  /\ UNCHANGED <<phase, mustPause, uiVars, audioVars, toPlugin, toUi, runState,
                 controlsBuf, ghosts>>

(* zix_sem_wait returns: lilv_state_restore begins. *)
TakePaused ==
  /\ mainPc = "waitPaused" /\ paused > 0
  /\ paused' = paused - 1
  /\ mainPc' = "restoring"
  /\ UNCHANGED <<phase, mustPause, uiVars, audioVars, toPlugin, toUi, runState,
                 controlsBuf, ghosts>>

(* The plugin's restore() returns to lilv, which goes on to set the ports. *)
RestoreReturns ==
  /\ mainPc = "restoring"
  /\ mainPc' = "portValues"
  /\ UNCHANGED <<phase, mustPause, uiVars, audioVars, shared, ghosts>>

(* A mutant: sets the port directly even while the plugin runs. *)
SetPortValueDirectly(p) ==
  /\ mainPc = "portValues" /\ p \in todo
  /\ todo' = todo \ {p}
  /\ controlValue' = [controlValue EXCEPT ![p] = preset]
  /\ controlsBuf' = [controlsBuf EXCEPT ![p] = preset]
  /\ toUi' = Written(toUi, ControlPortChange(p, preset), RingBytes)
  /\ accepted' = [accepted EXCEPT ![p] = preset]
  /\ UNCHANGED <<phase, mainPc, mustPause, preset, unread, audioVars, toPlugin,
                 runState, paused, owed, ops>>

(* set_port_value: directly when the plugin seems paused, else as the UI   *)
(* would; then an echo to the UI, unless the write failed.                 *)
SetPortValue(p) ==
  LET message == ControlPortChange(p, preset)
      direct  == runState # "JALV_RUNNING"
      sent    == direct \/ Fits(toPlugin, message, RingBytes)
  IN /\ mainPc = "portValues" /\ p \in todo
     /\ todo' = todo \ {p}
     /\ controlValue' = [controlValue EXCEPT ![p] = preset]
     /\ IF direct
          THEN /\ controlsBuf' = [controlsBuf EXCEPT ![p] = preset]
               /\ UNCHANGED toPlugin
          ELSE /\ toPlugin' = Written(toPlugin, message, RingBytes)
               /\ UNCHANGED controlsBuf
     /\ toUi' = IF sent THEN Written(toUi, message, RingBytes) ELSE toUi
     /\ accepted' = IF sent THEN [accepted EXCEPT ![p] = preset] ELSE accepted
     /\ UNCHANGED <<phase, mainPc, mustPause, preset, unread, audioVars,
                    runState, paused, owed, ops>>

(* A mutant: goes on to ask to resume what it did not pause. *)
RequestStateThenResume ==
  /\ mainPc = "portValues" /\ todo = {}
  /\ IF HasControlIn THEN WriteEvent(StateRequest)
                     ELSE UNCHANGED <<toPlugin, owed>>
  /\ mainPc' = "resuming"
  /\ UNCHANGED <<phase, mustPause, uiVars, audioVars, toUi, runState, paused,
                 controlsBuf, accepted, ops>>

(* lilv_state_restore has returned: ask the plugin for its new properties. *)
RequestState ==
  /\ mainPc = "portValues" /\ todo = {}
  /\ IF HasControlIn THEN WriteEvent(StateRequest)
                     ELSE UNCHANGED <<toPlugin, owed>>
  /\ mainPc' = IF mustPause THEN "resuming" ELSE "idle"
  /\ UNCHANGED <<phase, mustPause, uiVars, audioVars, toUi, runState, paused,
                 controlsBuf, accepted, ops>>

(* The last write of jalv_apply_state. *)
RequestResume ==
  /\ mainPc = "resuming"
  /\ toPlugin' = Written(toPlugin, Resume, RingBytes)
  /\ mainPc' = "idle"
  /\ mustPause' = FALSE
  /\ UNCHANGED <<phase, uiVars, audioVars, toUi, runState, paused, controlsBuf,
                 ghosts>>

(* jalv_update looks how much there is to read. *)
BeginUpdate ==
  /\ phase = "live" /\ mainPc = "idle" /\ toUi # <<>>
  /\ mainPc' = "updating"
  /\ unread' = Len(toUi)
  /\ UNCHANGED <<phase, mustPause, preset, todo, controlValue, audioVars, shared,
                 ghosts>>

(* One turn of the loop of jalv_update; a control that a widget sets again *)
(* in ui_port_event is not written back, since `updating` is set.          *)
UpdateMessage ==
  /\ mainPc = "updating" /\ unread > 0
  /\ unread' = unread - 1
  /\ toUi' = Tail(toUi)
  /\ LET m == Head(toUi)
     IN controlValue' = IF m.type = "CONTROL_PORT_CHANGE"
                          THEN [controlValue EXCEPT ![m.port] = m.value]
                          ELSE controlValue
  /\ UNCHANGED <<phase, mainPc, mustPause, preset, todo, audioVars, toPlugin,
                 runState, paused, controlsBuf, ghosts>>

EndUpdate ==
  /\ mainPc = "updating" /\ unread = 0
  /\ mainPc' = "idle"
  /\ UNCHANGED <<phase, mustPause, uiVars, audioVars, shared, ghosts>>

-----------------------------------------------------------------------------
(* The audio thread. *)

(* A mutant: does not look whether there is room. *)
EvbufAppendUnchecked(buf, slot) == Append(buf, slot)

(* lv2_evbuf_write at lv2_evbuf_end: nothing is written to a full buffer. *)
EvbufAppend(buf, slot) == IF Len(buf) < EvbufSlots THEN Append(buf, slot) ELSE buf

(* lv2_evbuf_write of n events in a row from lv2_evbuf_begin on.  Each     *)
(* lies over what is in the buffer at that place, but makes the buffer one *)
(* event longer, which takes in memory past its end.                       *)
EvbufWriteAtBegin(buf, n) ==
  LET free    == EvbufSlots - Len(buf)
      written == IF n < free THEN n ELSE free
  IN [i \in 1..(Len(buf) + written) |->
        IF i <= written THEN "sys" ELSE IF i <= Len(buf) THEN buf[i] ELSE "stale"]

UiEvents(buf) == Cardinality({i \in DOMAIN buf : buf[i] = "ui"})

(* The process callback finds the run state to be paused. *)
StartBypass ==
  /\ phase # "opening" /\ audioPc = "idle"
  /\ runState = "JALV_PAUSED"
  /\ audioPc' = "drain" /\ mode' = "bypass"
  /\ UNCHANGED <<mainVars, remaining, evbuf, pendingFrames, outbox, shared, ghosts>>

(* A mutant: does not look at the run state. *)
StartRunUngated(n) ==
  /\ phase # "opening" /\ audioPc = "idle"
  /\ audioPc' = "drain" /\ mode' = "run"
  /\ UNCHANGED <<mainVars, remaining, evbuf, pendingFrames, outbox, shared, ghosts>>

(* It finds it running, and prepares the ports: Jack writes its events to  *)
(* the beginning of the input buffer, PortAudio empties the buffer.        *)
StartRun(n) ==
  /\ phase # "opening" /\ audioPc = "idle"
  /\ runState # "JALV_PAUSED"
  /\ audioPc' = "drain" /\ mode' = "run"
  /\ evbuf' = IF Backend = "jack" THEN EvbufWriteAtBegin(evbuf, n) ELSE <<>>
  /\ UNCHANGED <<mainVars, remaining, pendingFrames, outbox, shared, ghosts>>

(* A mutant: a cycle that bypasses the plugin reads no messages. *)
BeginApplyUnlessBypassed ==
  /\ audioPc = "drain"
  /\ audioPc' = "apply"
  /\ remaining' = IF mode = "run" THEN Len(toPlugin) ELSE 0
  /\ UNCHANGED <<mainVars, mode, evbuf, pendingFrames, outbox, shared, ghosts>>

(* apply_ui_events looks how much there is to read. *)
BeginApply ==
  /\ audioPc = "drain"
  /\ audioPc' = "apply"
  /\ remaining' = Len(toPlugin)
  /\ UNCHANGED <<mainVars, mode, evbuf, pendingFrames, outbox, shared, ghosts>>

(* A mutant: the loop does not count the bytes it has read. *)
ReceiveUncounted(type) ==
  /\ audioPc = "apply" /\ remaining > 0
  /\ Head(toPlugin).type = type
  /\ toPlugin' = Tail(toPlugin)
  /\ UNCHANGED <<mainVars, audioPc, mode, remaining, pendingFrames, outbox, toUi,
                 accepted, ops>>

(* One turn of the loop of apply_ui_events reads a message of some type. *)
Receive(type) ==
  /\ audioPc = "apply" /\ remaining > 0
  /\ Head(toPlugin).type = type
  /\ remaining' = remaining - 1
  /\ toPlugin' = Tail(toPlugin)
  /\ UNCHANGED <<mainVars, audioPc, mode, pendingFrames, outbox, toUi, accepted,
                 ops>>

ApplyControl ==
  /\ Receive("CONTROL_PORT_CHANGE")
  /\ LET m == Head(toPlugin)
     IN controlsBuf' = [controlsBuf EXCEPT ![m.port] = m.value]
  /\ UNCHANGED <<evbuf, runState, paused, owed>>

(* The event is appended for the plugin; it is refused if the buffer is    *)
(* full, and the result of lv2_evbuf_write is ignored.                     *)
ApplyEvent ==
  /\ \E type \in {"EVENT_TRANSFER", "STATE_REQUEST"} : Receive(type)
  /\ evbuf' = EvbufAppend(evbuf, "ui")
  /\ owed' = IF Len(evbuf) = EvbufSlots THEN owed - 1 ELSE owed
  /\ UNCHANGED <<runState, paused, controlsBuf>>

(* Mutants: the semaphore is posted for every change of the run state, and *)
(* for none.                                                               *)
ApplyRunStateAlwaysPosting ==
  /\ Receive("RUN_STATE_CHANGE")
  /\ runState' = Head(toPlugin).state
  /\ paused' = paused + 1
  /\ UNCHANGED <<evbuf, controlsBuf, owed>>

ApplyRunStateNeverPosting ==
  /\ Receive("RUN_STATE_CHANGE")
  /\ runState' = Head(toPlugin).state
  /\ UNCHANGED <<paused, evbuf, controlsBuf, owed>>

(* The run state changes, and a pause is signalled. *)
ApplyRunState ==
  /\ Receive("RUN_STATE_CHANGE")
  /\ runState' = Head(toPlugin).state
  /\ paused' = IF runState' = "JALV_PAUSED" THEN paused + 1 ELSE paused
  /\ UNCHANGED <<evbuf, controlsBuf, owed>>

(* jalv_run enters lilv_instance_run: the plugin takes its events and      *)
(* computes its outputs.                                                   *)
RunPlugin(outputs) ==
  /\ audioPc = "apply" /\ remaining = 0 /\ mode = "run"
  /\ audioPc' = "running"
  /\ owed' = owed - UiEvents(evbuf)
  /\ controlsBuf' = [p \in Ports |-> IF p \in Outputs THEN outputs[p]
                                     ELSE controlsBuf[p]]
  /\ UNCHANGED <<mainVars, mode, remaining, evbuf, pendingFrames, outbox,
                 toPlugin, toUi, runState, paused, accepted, ops>>

(* The plugin returns and jalv_run counts the frames.  The callback has    *)
(* then to finish the event outputs of a set, and the control outputs when *)
(* an update is due, which only the PortAudio callback does.               *)
PluginReturns(events) ==
  LET due == UpdateFrames > 0 /\ pendingFrames + 1 > UpdateFrames
  IN /\ audioPc = "running"
     /\ audioPc' = "finish"
     /\ pendingFrames' = IF UpdateFrames = 0 \/ due THEN 0
                         ELSE pendingFrames + 1
     /\ outbox' = events \cup (IF due /\ Backend = "portaudio"
                                THEN Outputs ELSE {})
     /\ UNCHANGED <<mainVars, mode, remaining, evbuf, shared, ghosts>>

(* The callback forwards an event or a control value of a port to the UI. *)
FinishPort(p) ==
  LET message == IF p \in Outputs THEN ControlPortChange(p, controlsBuf[p])
                                  ELSE EventTransfer
  IN /\ audioPc = "finish" /\ p \in outbox
     /\ outbox' = outbox \ {p}
     /\ toUi' = Written(toUi, message, RingBytes)
     /\ UNCHANGED <<mainVars, audioPc, mode, remaining, evbuf, pendingFrames,
                    toPlugin, runState, paused, controlsBuf, ghosts>>

(* The callback has emptied the input event buffer and returns. *)
FinishRun ==
  /\ audioPc = "finish" /\ outbox = {}
  /\ audioPc' = "idle"
  /\ evbuf' = <<>>
  /\ UNCHANGED <<mainVars, mode, remaining, pendingFrames, outbox, shared, ghosts>>

(* A mutant: empties the input event buffer. *)
FinishBypassEmptying ==
  /\ audioPc = "apply" /\ remaining = 0 /\ mode = "bypass"
  /\ audioPc' = "idle"
  /\ evbuf' = <<>>
  /\ UNCHANGED <<mainVars, mode, remaining, pendingFrames, outbox, shared, ghosts>>

(* jalv_bypass returns.  The input events stay in the buffer. *)
FinishBypass ==
  /\ audioPc = "apply" /\ remaining = 0 /\ mode = "bypass"
  /\ audioPc' = "idle"
  /\ UNCHANGED <<mainVars, mode, remaining, evbuf, pendingFrames, outbox, shared,
                 ghosts>>

(* buffer_size_cb, between two cycles: while the run state is running, it  *)
(* activates the process again, which clears the input event buffer.       *)
BufferSize ==
  /\ Backend = "jack"
  /\ phase # "opening" /\ audioPc = "idle"
  /\ runState = "JALV_RUNNING"
  /\ evbuf' = <<>>
  /\ owed' = owed - UiEvents(evbuf)
  /\ UNCHANGED <<mainVars, audioPc, mode, remaining, pendingFrames, outbox, shared,
                 accepted, ops>>

-----------------------------------------------------------------------------
User ==
  \/ \E p \in Inputs, v \in Values : SetControl(p, v) \/ WritePort(p, v)
  \/ \E ports \in SUBSET Inputs, v \in Values : ApplyState(ports, v)
  \/ SendEvent

(* What the main thread goes on to do without being asked. *)
Main ==
  \/ ActivateBackend \/ SetRunning
  \/ TakePaused \/ RestoreReturns
  \/ \E p \in Inputs : SetPortValue(p)
  \/ RequestState \/ RequestResume
  \/ BeginUpdate \/ UpdateMessage \/ EndUpdate

Audio ==
  \/ StartBypass \/ \E n \in 0..MaxSysEvents : StartRun(n)
  \/ BeginApply \/ ApplyControl \/ ApplyEvent \/ ApplyRunState
  \/ \E outputs \in [Outputs -> Values] : RunPlugin(outputs)
  \/ \E events \in SUBSET EventOutputs : PluginReturns(events)
  \/ \E p \in outbox : FinishPort(p)
  \/ FinishRun \/ FinishBypass

Next == User \/ Main \/ Audio \/ BufferSize

(* The sound server calls back again and again, every callback returns,    *)
(* and the main thread goes on unless it waits for the semaphore or for    *)
(* the user.  The buffer size need never change.                           *)
Fairness == WF_vars(Main) /\ WF_vars(Audio)

Spec == Init /\ [][Next]_vars /\ Fairness

-----------------------------------------------------------------------------
(* Properties. *)

PauseInRing  == \E i \in DOMAIN toPlugin : toPlugin[i] = Pause
ResumeInRing == \E i \in DOMAIN toPlugin : toPlugin[i] = Resume

(* The main thread was told that the plugin is paused, and has not yet     *)
(* asked to resume.                                                        *)
Held == mustPause /\ mainPc \in {"restoring", "portValues", "resuming"}

(* The messages in the ring that set a port, and those that become events. *)
ControlsInRing(p) ==
  {i \in DOMAIN toPlugin : toPlugin[i] \in ControlMessages({p}, Values)}

EventsInRing ==
  {i \in DOMAIN toPlugin : toPlugin[i] \in {EventTransfer, StateRequest}}

(* A state that must be restored under a pause is restored under one: from *)
(* the return of the wait in jalv_apply_state to the request to resume,    *)
(* run_state is JALV_PAUSED, whatever was queued before; and what was      *)
(* queued has taken effect, so that no older value of a control is left to *)
(* overwrite what set_port_value writes directly meanwhile.                *)
PauseHeld ==
  Held => runState = "JALV_PAUSED" /\ \A p \in Inputs : ControlsInRing(p) = {}

(* The semaphore `paused` never holds a post left over from an earlier     *)
(* pause, which would let a later restore begin before its own.            *)
PausedIsFresh ==
  paused > 0 => /\ paused = 1 /\ mainPc = "waitPaused"
                /\ runState = "JALV_PAUSED"

(* There is one run state change in flight at most, and it would change    *)
(* the run state, so that pause and resume requests cannot overtake or     *)
(* cancel each other.                                                      *)
OneRunStateChange ==
  /\ \A i, j \in DOMAIN toPlugin :
       toPlugin[i] \in RunMessages /\ toPlugin[j] \in RunMessages => i = j
  /\ \A i \in DOMAIN toPlugin :
       toPlugin[i] \in RunMessages => toPlugin[i].state # runState

(* What the properties above rest on, and what makes them inductive: who   *)
(* may have a run state change in flight, and when.                        *)
NoRunStateChange == \A i \in DOMAIN toPlugin : toPlugin[i] \notin RunMessages

Interlock ==
  /\ PausedIsFresh /\ OneRunStateChange
  /\ Held => runState = "JALV_PAUSED"
  /\ mustPause => mainPc \in {"waitPaused", "restoring", "portValues", "resuming"}
  /\ mainPc \in {"waitPaused", "resuming"} => mustPause
  /\ phase # "live" => ~mustPause /\ NoRunStateChange /\ runState = "JALV_PAUSED"
  /\ Held => NoRunStateChange
  /\ mainPc = "waitPaused" =>
       IF paused = 0 THEN runState = "JALV_RUNNING" ELSE NoRunStateChange
  /\ ~mustPause /\ runState = "JALV_RUNNING" => NoRunStateChange

(* The rings are read no further than what was found in them when the      *)
(* reader began: apply_ui_events and jalv_update.                          *)
ReadsWithinRings == remaining <= Len(toPlugin) /\ unread <= Len(toUi)

(* The state of module RunGate that a state of this module stands for. *)
GateState == IF runState = "JALV_RUNNING" THEN "open" ELSE "shut"

GateHolder ==
  IF mainPc = "waitPaused" THEN "asking"
  ELSE IF mustPause THEN "holding"
  ELSE IF ResumeInRing THEN "leaving" ELSE "none"

InRunCycle == mode = "run" /\ audioPc # "idle"

Gate == INSTANCE RunGate WITH started <- phase = "live", gate <- GateState,
                              holder <- GateHolder, inside <- InRunCycle

(* The pause protocol as a whole implements the gate of module RunGate: no *)
(* cycle that runs the plugin begins between the pause that                *)
(* jalv_apply_state waited for and its request to resume.                  *)
GateSpec == Gate!Spec

(* Controls take effect in the order they were set: the last value that    *)
(* jalv_set_control or set_port_value got through to the plugin's side is  *)
(* the one the plugin ends with, which is the one it has when no message   *)
(* sets the port, and else the one of the last message that does.          *)
LastValueWins ==
  \A p \in Inputs :
    /\ ControlsInRing(p) = {} => controlsBuf[p] = accepted[p]
    /\ \A i \in ControlsInRing(p) :
         (\A j \in ControlsInRing(p) : j <= i) => toPlugin[i].value = accepted[p]

(* No event or state request that jalv_send_to_plugin or jalv_apply_state  *)
(* got into the ring is lost before the plugin is run with it, with two    *)
(* exceptions: the event buffer is full, or Jack's buffer size changes     *)
(* when the run state is running again and the first cycle that runs has   *)
(* not begun (BufferSize), as events that bypassed cycles have read wait   *)
(* till then.  After a cycle that ran, such a change loses nothing.  It is *)
(* so under Jack when the port has no Jack events of its own; it is not so *)
(* under PortAudio.                                                        *)
EventsConserved ==
  /\ owed = UiEvents(evbuf) + Cardinality(EventsInRing)
            - (IF audioPc \in {"running", "finish"} THEN UiEvents(evbuf) ELSE 0)
  /\ audioPc = "idle" /\ mode = "run" => evbuf = <<>>

(* A pause the ring has accepted is answered: jalv_apply_state does not    *)
(* wait for ever, and goes on to ask to resume.                            *)
PauseAnswered == mainPc = "waitPaused" /\ PauseInRing ~> mainPc = "idle"

(* A request to resume that the ring has accepted is honoured. *)
ResumeHonoured == ResumeInRing ~> runState = "JALV_RUNNING"

(* The restore() of a plugin that does not declare it thread-safe is never *)
(* called during a run of the plugin.                                      *)
RestoreExcludesRun ==
  ~SafeRestore => ~(mainPc = "restoring" /\ audioPc = "running")

(* jalv_apply_state does not wait for ever. *)
ApplyReturns == mainPc = "waitPaused" ~> mainPc = "idle"

(* When nothing is in flight, the UI shows what the plugin has. *)
UiAgrees ==
  mainPc = "idle" /\ toPlugin = <<>> /\ toUi = <<>>
    => \A p \in Inputs : controlValue[p] = controlsBuf[p]

=============================================================================
