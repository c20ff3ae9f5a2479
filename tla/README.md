# Verification of jalv

jalv runs one LV2 plugin as a program of its own: it loads the plugin, connects
it to a sound server (Jack or PortAudio), and lets the user set its controls
from a console, GTK or Qt frontend, load presets, and watch its outputs. This
directory has TLA+ models of its concurrent core, of its life from `main()` to
`jalv_close()`, and of what passes between user, widgets, presets and plugin,
with TLC configurations that check them on small instances, and proofs, checked
by TLAPS, of the properties that matter most. Paths below are relative to the repository's root.

## The system

### Threads and components

| Component | Source | State it keeps | Operations |
|---|---|---|---|
| process thread | `src/process.c`, `src/process.h` | `run_state`, `controls_buf`, event buffers, `pending_frames`, `transport` | `jalv_run`, `jalv_bypass`, and `apply_ui_events` that both begin with |
| backends | `src/jack.c`, `src/portaudio.c` | the client or stream, `plugin_latency` | the process callback; Jack's also for buffer size, latency, shutdown |
| rings | `src/comm.c`, `src/comm.h` | `ui_to_plugin`, `plugin_to_ui` | write a control change, an event, a split message |
| event buffer | `src/lv2_evbuf.c` | an `LV2_Atom_Sequence` with a capacity | reset, begin, end, next, get, write |
| workers | `src/worker.c` | two rings, a semaphore, a state, a shared lock | launch, exit, schedule, respond, emit responses |
| state and presets | `src/state.c` | the current preset | `jalv_apply_state`, `jalv_apply_preset`, save, delete |
| application core | `src/jalv.c` | everything above, `updating`, `done` | open, activate, deactivate, close, `jalv_set_control`, `jalv_send_to_plugin`, `jalv_update` |
| process setup | `src/process_setup.c` | buffers and ports | initialise, activate, deactivate, clean up |
| controls | `src/control.c`, `src/any_value.c` | the list of controls with their values | look-up by name, port, property; set a value |
| URI map | `src/mapper.c`, `src/symap.c` | two arrays under a lock | map, unmap |
| frontends | `src/console/`, `src/gtk/`, `src/qt/`, `src/main.c` | widgets, the command line | user actions, the main loop, closing |
| patch messages | `src/patch.c` | none | the properties a `patch:Set` or `patch:Put` changes |
| the rest | `src/nodes.c`, `src/urids.c`, `src/query.c`, `src/features.c`, `src/log.c`, `src/dumper.c` | constants | data and text |

Three threads meet here. The **main thread** runs the frontend, the core and
the state code. The **audio thread** is the sound server's: it calls the
process callback once a cycle, and must never block. The **worker thread** does
what the plugin schedules out of the audio thread.

They interact as follows.

* `ui_to_plugin` carries control changes, events, state requests and run state
  changes from the main thread; `apply_ui_events` drains what it finds there at
  the beginning of a cycle, whether the plugin then runs or is bypassed.
* `plugin_to_ui` carries control values, events and latency changes back;
  `jalv_update`, called by a timer of the frontend, drains it. `set_port_value`
  writes to it too, from the main thread.
* `run_state` is written by the audio thread, on a message, and by
  `jalv_activate` and `jalv_deactivate`; both threads read it without a lock.
* The semaphore `paused` is posted by the audio thread when it pauses; the main
  thread waits for it in `jalv_apply_state`.
* `controls_buf` is written by the audio thread and the plugin, and by
  `set_port_value` directly while the plugin is paused.
* Each worker has a ring of requests, one of responses and a semaphore; a lock
  keeps two workers out of `work()` at a time.

### What is hard, and what makes a component correct

* **Pausing.** A plugin whose `restore()` is not thread-safe has to be paused.
  The pause travels through a ring that may be full, is answered in the middle
  of a cycle, and is undone by a message that may still be in the ring when the
  next state is applied. Correct: no restore while the plugin runs, no wait
  without an answer, no stale answer, no lost resume.
* **Order of values.** A value may go through the ring or straight into
  `controls_buf`, and comes back to the UI as an echo. Correct: the last value
  wins, in the plugin and in the UI.
* **Events across a pause.** Events are appended to a buffer that a paused
  plugin does not read. Correct: they are there when it runs again.
* **The event buffer.** Sizes are padded, capacities need not be, and the room
  left is computed in unsigned numbers. Correct: nothing is written outside,
  and what is read is what was written.
* **Workers.** Requests and responses cross threads in both directions, two
  workers share one plugin, and the thread has to stop. Correct: exclusive,
  in order, each once, served, and stopped after the last request and before
  the plugin is freed.
* **Ends.** Opening may fail half way, several paths close, and the semaphore
  `done` is posted by signals and by the sound server, before it exists and
  after it is gone. Correct: what was acquired is released once, after what
  uses it has stopped, and the program ends when it is asked to.
* **Records and their widgets.** A control is found by its place in a list, a
  property by its ID, and the handlers of widgets move other widgets, which set
  the control again. Correct: what is shown is what the plugin has, and an
  update never comes back to the plugin.
* **Memory of values.** A word of a value is a pointer or the bits themselves,
  depending on its size. Correct: each block has one value that points to it.
* **The URI map.** IDs are given out while an index is kept sorted, and memory
  may run out between the two arrays. Correct: an ID keeps its meaning, and each
  symbol has one.
* **Presets.** The current preset, the menu, the window's title and its actions
  change in different functions. Correct: they tell of the same preset, also
  after a deletion or a save that failed.

The hazards are listed one by one, with their lines and the properties that
cover them, in `PROJECT.json`.

## The modules

| Module | What it is |
|---|---|
| `Comm` | the messages of the rings, their sizes, and what fits |
| `JalvProcess` | main thread and audio thread: pausing, states, controls, events, UI updates |
| `RunGate` | the abstract promise of pausing |
| `JalvProcessProofs` | proofs about `JalvProcess`: types and the pause protocol |
| `MessageProofs` | proofs about `JalvProcess`: controls and events on their way to the plugin |
| `Worker` | both workers and the three threads that use them |
| `WorkQueue` | the abstract promise of a threaded worker |
| `WorkerProofs` | proofs about `Worker` |
| `Evbuf` | the event buffer and the cycles that use it |
| `EvbufProofs` | proofs about `Evbuf` |
| `Session` | one run of the program in every frontend over both backends: opening, looping, closing |
| `Lifetimes` | the abstract promise about what is made and freed |
| `SessionProofs` | proofs about `Session`: memory, misuse, and what is left behind |
| `Symap` | the URI map with its bisection |
| `SymapProofs` | proofs about `Symap` |
| `AnyValue` | the value of a control and its memory (operators only) |
| `Widgets` | GTK's widgets with their handlers, Qt's dials (operators only) |
| `Panel` | ports, controls, widgets, commands and presets; extends `Symap` and `Widgets` |
| `PanelProofs` | the URI map's proofs carried over to `Panel`, and proofs about presets |
| `ControlProofs` | proofs about the controls of `Panel`, their memory and their widgets |
| `MCPanel` | the plugins with which TLC checks `Panel` |

`Panel` composes `Symap`, whose steps are steps of its own (the ID of a property
comes from it), with the operators of `Widgets` and `AnyValue`. `Session` and
`JalvProcess` meet at the pause protocol: `Session` has it as four states of a
gate, `JalvProcess` and `RunGate` in full. `Session` has of the worker whether
its thread is up, `Worker` how it comes down.

Every definition that models code is mapped to its lines in `PROJECT.json`.
Operators introduced by "A mutant:" are versions with a plausible bug, which no
specification uses: each shows that a property can fail.

### Comm and JalvProcess

A step of `JalvProcess` is what one thread does between two points at which the
other can tell the difference: a message written or read, an operation on the
semaphore, the entry to or the return of the plugin.

The main thread's `mainPc` follows `jalv_apply_state`: `ApplyState` decides
`mustPause` from `run_state` and writes the pause; `TakePaused` is the return
of the wait; `RestoreReturns` the end of the plugin's `restore()`;
`SetPortValue` one call of `set_port_value`; `RequestState` and `RequestResume`
the two last writes. Each write is `Written`: the message is appended if it
fits, else nothing happens, as the code ignores the result there. `SetControl`
and `SendEvent` are what a frontend does between them, `WritePort` what the
plugin's own UI does, if it has one (`PluginUi`), of which jalv's `Control` is
not told; `BeginUpdate`,
`UpdateMessage` and `EndUpdate` are the loop of `jalv_update`. The main thread
is one thread: a user acts only when it is idle.

The audio thread's `audioPc` follows a cycle: the callback looks at the run
state (`StartRun` or `StartBypass`), `apply_ui_events` takes its snapshot
(`BeginApply`) and handles a message a turn (`ApplyControl`, `ApplyEvent`,
`ApplyRunState`), the plugin runs (`RunPlugin`, `PluginReturns`), and the
callback finishes the ports (`FinishPort`, `FinishRun`). What the plugin
computes is chosen freely. Control outputs are sent only under PortAudio, as
Jack's callback finishes event ports only. Between two cycles, Jack may change its
buffer size (`BufferSize`, a step of its own without fairness): while `run_state` is
running, the callback activates the process again, which clears the input buffer.

`RunGate` says what all that is for: a gate that the audio thread shuts and
opens at the main thread's request, and must pass to begin a cycle that runs.
`GateSpec` is the refinement. A run that began before the gate was shut goes
on: the gate promises no more, and neither does the code (see the findings).

Abstractions: a ring is a sequence of whole messages, as they are committed
whole, with the bytes they take; an event has one size and no content; the event
buffer counts events (its bytes are `Evbuf`'s), and keeps its capacity when the
size changes (`Session` has the sizes); `process_msg`, allocated again by then, has room
for each event; a control's index is its port's;
writes of two threads to `plugin_to_ui` do not tear (the ring allows only one
writer, which is listed as a hazard). History variables `accepted` and `owed`
record what the
rings accepted, and change nothing else; `owed` drops an event that the full buffer
refused or that `BufferSize` cleared.

### Worker and WorkQueue

`Worker` has the threaded worker's state, semaphore and rings, the
single-threaded worker that a thread-safe `restore()` schedules with, and their
lock. `Activate` may fail to launch, which `jalv_activate` ignores. A request is
written (`Schedule`) and posted (`PostRequest`) in two steps, an exit is set
(`RequestExit`), posted (`PostExit`) and joined (`Join`) in three. `TakeRequest`
may fail to have memory, and then skips the request. A request and a response
have a number, which the code does not, to tell them apart.

`WorkQueue` is what a plugin may rely on: accepted requests are worked on in
order, one at a time, each at most once, while the queue is open.

Abstractions: every cycle runs the plugin (a bypassed one touches no worker); the
plugin schedules and answers as it likes, and calls neither from elsewhere;
`MAX_PACKET_SIZE` of 4096 is a few bytes.

### Evbuf

`Evbuf` has the buffer of one event port: `atomSize`, `atomType`, and at each
offset an event or anything. `HasRoom` is the code's check, in a modulus for
`size_t`; `Write` pads. For an input port, cycles of either backend alternate
with bypassed ones; for an output port, the plugin fills what it is offered.
Who reads the buffer, the plugin or the host, does it a step at a time
(`BeginReading`, then an event each with the iterator `reader`) and may stop
before the end. `written` is what the buffer was given since it was last
cleared, `read` what the reader has found.

### Session and Lifetimes

The control of the main thread is `todo`, the list of the steps it has left,
named after the functions or the statements they stand for; a call puts the
steps of the callee in front, so that `Deactivate`, `Close` and `Activate` are
written once and are used from wherever the code calls them. `Init` is `main()`
(or `jack_initialize`, for the plugin in Jack's own process) with a zeroed
`Jalv`. `OpenWorld` to `ActivateProcess` are `jalv_open` up to each of its
returns; `Launch`, `StartAudio`, `SetRunning` are `jalv_activate`; `StopAudio` to
`FreeWorld` are `jalv_deactivate` and `jalv_close`. Between them are the loops:
the console's with its prompt, without one, and around the plugin's UI; GTK's
with its timer, and with the loop of a dialog inside a handler; Qt's.
`AskPause` and `ApplyState` are a preset applied from a loop. `Update` is
`jalv_update`: it takes a post of `done` and then closes from within, after
which each frontend does what it does.

`life` has what each pointer points to: nothing, something, or what was freed.
`Touched` names what a step reads or frees through pointers that the code never
sets to NULL; if that was freed, `UseAfterFree` ends the run with a `fault`.
Other threads post `done` (`Signal`, `ServerShutdown`), answer the pause
(`ProcessGate`) and change the size of buffers (`BufferSize`).

`Lifetimes` says what the pointers are for: a thing is made after what it rests
on and given back before it, once. `MadeAndFreedInOrder` is the refinement.

Abstractions: twelve things stand for all that is allocated; a step of opening or
closing is atomic, as its parts touch nothing another thread sees; the choice of a UI
only succeeds or fails; a configuration says whether the plugin has ports or a
worker and how the console is used.

### Symap

A call holds the mapper's lock from `BeginMap` (with the look at the last
symbol) to `Return`; `SearchStep` is one turn of the bisection, `Insert` the
growth of both arrays with the `memmove`, `OutOfMemory` either `realloc`
failing. Symbols are numbers in the order of `strcmp`. `symap_strdup`, which is
not checked, does not fail here, and unmapping, which only reads, is left out.

### AnyValue, Widgets and Panel

`AnyValue` has `any_value_set` as the code is: `ResetFor` is the early reset,
`Grows` the condition of the `realloc`, `WordsOf` what the word may then hold: a short
text leaves the bytes behind it as they were. `Put` is for numbers, which need no
memory.

`Widgets` has an operator for each handler. It takes a control, with the
positions of its scale and spin button, and returns the control moved and the
values that `jalv_set_control` was called with: GTK calls a handler only when a
value really changes, which is what stops the handlers of scale and spin button
from calling each other for ever. `Changed` is `jalv_frontend_control_changed`.

`Panel` begins with nothing but the plugin's data. `CreatePort` classifies ports;
`NextLoop`, `MarkReadable`, `MakeControl` and `AddControl` are the two calls of
`jalv_create_controls`, which meet the properties in any order; `OpenState`,
`ControlArgument` and `OpenWindow` are the rest of the way to a running program.
Then the user moves widgets, turns dials, types, enters commands and handles
presets; the process thread takes values (`Process`) and PortAudio's sends
outputs (`Output`); `PortEvent` and `PropertyEvent` are `jalv_update`'s messages.
`ControlsAt` is `get_port_control`, which takes the index of a port for one of
the list of controls.

Abstractions: of each port a ring keeps the last value, as a cycle and an update
drain it (the order of messages, and rings that are full, are `JalvProcess`'s); a
text is its length; every range is 1..4, and a logarithmic scale has powers of two;
a preset of the user is one bundle, with the values it was saved with; the
pause of a preset is over when `SetPortValues` is.

## The runs

| Run | What it shows | Bounds |
|---|---|---|
| `process_unsafe` | pausing: `PauseHeld`, `PausedIsFresh`, `OneRunStateChange` and what they rest on (`Interlock`), `GateSpec`; a pause the ring accepted is answered, a resume it accepted is honoured; events survive a pause, but for a change of Jack's buffer size right after it | one control of two values, four operations, rings of 44 bytes, two events |
| `process_safe` | without pauses: `LastValueWins`, `ReadsWithinRings` | one control, one output of each kind, two operations, rings of 36 bytes |
| `worker` | exclusion, the semaphore's count, orderly stop, order of responses, `QueueSpec`, and the liveness properties | requests of 1 or 2 bytes, rings of 11, three requests, two pieces of work by `restore()`, one response each |
| `evbuf` | `ReadsWhatWasWritten`, `WithinCapacity` | a capacity of 72, bodies of 0, 3 and 20 bytes |
| `session` | `ThreadsHaveMemory`, `QuietRelease`, `BuffersFit`, `NothingLeft`, `KnownMisuse`, the refinement of `Lifetimes`, and `EndsWhenAsked` | four frontends, two backends, plugins with and without ports and a worker, two sizes, two posts of `done` |
| `panel` | `ControlsMatch`, `InSync`, `StorageKept`, `WindowTellsPreset`, `IndexSorted`, `IdsStable`, `WritesMeant` | twelve plugins in three frontends, values 0, 1, 2, 4 and -1, texts of 0, 7, 9 and 12 bytes, four symbols, one lost block |
| `restore_during_run` | violation: a restore overlaps the last run | two operations |
| `apply_waits` | violation: a pause that did not fit is waited for | rings of 36 bytes |
| `ui_echo` | violation: the UI is left with an older value | rings large enough for everything |
| `paused_events` | violation: PortAudio empties the buffer with events in it | as above |
| `evbuf_odd_capacity` | violation: a capacity of 44 is exceeded | bodies of 0 and 12 |
| `evbuf_overwrite` | violation: an overwritten event is counted twice | bodies of 8 |

Why the bounds are enough. The ring of a real jalv has at least 4096 bytes; a
small one stands for one that is nearly full, which is when messages are
dropped, and 44 bytes hold one event (36), or a pause (12) with two control
changes (16 each), or a pause with a state request and a resume, so that any
message of the protocol can be the one that does not fit. Four operations are two states applied one after
the other, with a control or an event before, between or after them, which is
what a stale run state or a left-over post needs. Three requests and a ring for
two fill the ring while one is worked on. In `evbuf`, a capacity of 72 is filled
by three events without a body, and the sizes include one that is padded to a
multiple of eight and one that is none. The proofs below then remove the bounds for what they prove.

`process_unsafe` has no events of Jack's own (`MaxSysEvents = 0`): with them, an
event that waits in the buffer may be overwritten, which is `evbuf_overwrite`.

In `session`, two posts of `done` are what a second way of closing needs, or a
post that is lost before another comes. Two sizes of buffers are a
change away from the size they were made with. In `panel`, each plugin of
`MCPanel` is there for a case: a port that is none before a control, an output, a
control without a range, properties of each kind whose URIs sort in another order than
they are met, ports of unknown kind, a plugin with a UI of its own. The lengths
of texts have, with their terminator, a size below, at, and above that of a
pointer, and one to grow to; one lost block is the first. Three marks of a
slider are its ends and a place between. Four symbols are searched in two turns,
and are inserted in the first, middle and last place; the proofs have any number.

`session` and `panel` do not check for deadlock: a program that has ended, has not
been opened, or has misused memory stops.

`Worker` is checked for deadlock, as are `JalvProcess` and `Evbuf`: the audio
thread can always go on. `Closed` stutters for the end of the program.

### Fairness

`JalvProcess` assumes that the sound server keeps calling back and that the
callback returns (the audio thread never blocks: `WF_vars(Audio)`), and that the
main thread goes on when it can (`WF_vars(Main)`). No fairness is assumed of the
user. Nothing says that a message fits. `Worker` assumes it of its three
threads; since one thread is one chain of steps, weak fairness of a thread's
steps together is what a scheduler gives. The lock is a semaphore that two
threads take: the main thread schedules work a bounded number of times, so that
no fairness of the semaphore itself is needed. The choices of the plugin and the
main thread's decision to close are not fair.

`Session` assumes it of the main thread (`WF_vars(Main)`), and of the server that
calls back while it is there (`WF_vars(ProcessGate)`). The timers of GTK and Qt have
strong fairness: the user's presses of buttons interrupt a main loop again and again,
and it comes back to its timer each time. `Panel` needs none, as it has safety only.

## What the code does against its words

Six runs end in a violation, each of one sentence of the source; the findings in
`PROJECT.json` quote them.

1. `restore_during_run`: `paused` is posted before the plugin's last run, and a
   second state may be applied while the first resume is in the ring.
2. `apply_waits`: the pause request is not checked before the wait.
3. `ui_echo`: the echo of a preset's value may undo a newer one in the UI.
4. `paused_events`: PortAudio's callback drops what was applied in a pause.
5. `evbuf_odd_capacity`: the check compares unpadded sizes.
6. `evbuf_overwrite`: an event that is overwritten is counted again.

### Limits the properties name

Other places where the code does something a reader would not expect, but no
sentence of the source says otherwise, are exceptions in the properties, which
say that there are no more of them:

* `KnownMisuse`. `jalv_update` closes when it takes the post of `done`, and the
  console ignores its result (`src/console/jalv_console.c:591`) and closes again;
  in GTK, it frees the `App` in `jalv_frontend_close`, which the shutdown handler, or a
  dialog in whose loop the timer ran, then reads. When `jalv_open` failed with
  ports made and no instance, closing disconnects the ports of a missing
  instance, from the console and from Jack's internal client.
* `EndsWhenAsked`. `jalv_apply_state` waits for a callback of a server that may
  be gone; an open dialog's loop does not return; after `run_custom_ui`, which took
  the post, the console waits for another; a signal before `zix_sem_init` is lost.
* `EventsConserved`. Events that were applied in a pause are lost when Jack's buffer
  size changes after the resume was read and before the first cycle that runs
  (`src/jack.c:69`, `src/process_setup.c:103`). The second half of the property says
  that there is no other time: after a cycle that ran, the buffer has nothing to
  lose. An event that finds the buffer full is lost too.
* `BuffersFit`. A change of the size while the plugin is paused is noted, and the
  buffers keep their old size.
* `InSync`. An older value that is on its way when the user sets a control wins in
  the widgets; an update reaches the control at the index of the port, which is
  another one when a port before it has no control; the scale of a logarithmic
  control that is not writable shows the value itself as its exponent.
* `WritesMeant`. The last position of a logarithmic dial of Qt writes a value
  above the maximum, as the exponent divides by one less than the last position; its
  first position is one, so that the minimum cannot be reached. Dials follow no
  preset, which is why `InSync` is about GTK's widgets only.
* `StorageKept`. A number that is replaced by a longer text has its bits passed
  to `realloc()` (`fault = "realloc"` ends the run); a value of exactly eight
  bytes takes the place of a pointer without a free (`lost`).
* `WindowTellsPreset`. A save that failed leaves a current preset without a URI,
  which the next load or save compares, and the warning prints the URI of the preset that
  was freed. Cancelling the dialog of a deletion forgets the preset all the same.
* `ValuelessSet`. A `patch:Set` without a value is passed on without one.
* The console's `set INDEX VALUE` expects the end of the line where the value would
  be, so that `set INDEX` is accepted and sets zero (`Parsed`,
  `ConsoleSetsIndex`).
* `jack_finish` gets the backend as its argument and takes it for a `Jalv`; the
  model closes as it means to (`Unload`).

## What is proved

For all values of the constants that satisfy the named assumptions, with no
bound on rings, values, ports or operations:

* `JalvProcessProofs`. `TypeCorrect` and `ReadersFindMessages`: types, with
  `ReadsWithinRings`, which the types of `Head` and `Tail` need.
  `InterlockHolds`: `Interlock` is inductive
  relative to the types. The three safety properties follow from it:
  `OneChangeInFlight`, `NoStalePost`, and the run state in `PauseHeld`. They are not inductive
  by themselves, since none says where a run state change may be: `Interlock`
  adds that there is none while the pause is held or its post waits, none
  while the plugin runs unasked, and none before the activation. `ImplementsGate`:
  every step of `JalvProcess` is a step of `RunGate` or leaves it alone; the
  interesting ones are those that append behind, or take from before, the one
  message to resume.
* `MessageProofs`. `LastValue`: the last value written for a control wins, where
  `restore()` is thread-safe. `RestoreInv` says why: a restore without a pause
  finds the plugin running, so that its values go through the ring behind
  all others, except in `jalv_open`, where the ring is still empty. For a plugin
  that has to be paused the property is false, and TLC finds the run: a state
  that is applied while the resume of the one before is still in the ring writes
  directly, and an older value further back in the ring overwrites it.
  What is true of such a plugin is `RestoreIsPaused` (`PauseHeld`): while it is
  restored under a pause it granted, the run state is `JALV_PAUSED`, and no control
  message is left in the ring, since the request for the pause is the last
  message of all. `NoEventLost` (`EventsConserved`): what the ring accepted and the
  plugin has not been run with is in the ring or in the input buffer, counted as the
  places of both that hold an event, but for what a full buffer refused and
  `BufferSize` cleared; and a cycle that ran leaves the buffer empty, so
  that `BufferSize` clears only what waited after a pause. It is proved under Jack,
  without events of Jack's own, as `paused_events` and `evbuf_overwrite` show the
  other cases to be false.
* `WorkerProofs`. `InvHolds`: types, `SemCountsRequests` and `Discipline`
  together are inductive; a worker that is woken finds a request because the
  semaphore counts them, and the count needs to know which thread is where.
  `WorkerTypes`, `DisciplineHolds`, `WorkIsExcluded`, `StopsAreOrderly`,
  `ResponsesAreOrdered` and `ImplementsQueue` rest on it.
* `EvbufProofs`. `TypeCorrect`, for any capacity. `InputStaysWithin`: with a
  capacity that is a multiple of eight
  and has room for the two headers, the sequence never exceeds it; the
  invariant adds that its size is a multiple of eight, which is what makes the
  unpadded check enough. `ReaderFindsWritten`: under the same conditions, and if
  no event is written over an older one, a reader finds the events that were
  written, in order. `ReadingInv` says that there are places, the first at the
  beginning, each where the event before it ends, the last at the end of
  the buffer, that the events are at them, and that the reader is at the one
  behind those it has found. That the places rise is what keeps a new
  event away from all older ones.

* `SymapProofs`. `SymapCorrect`: for any set of symbols, `SymapInv` is inductive.
  It joins the types, that a call has a symbol (`CallHasSymbol`), `IndexSorted` and
  `SearchNarrows`, and neither of the last two is inductive alone: the
  index stays sorted only because the search has found the one place where
  the symbol belongs, and what the search knows of the places it has passed holds
  only in a sorted index. `IndexStaysSorted` and `SearchIsRight` follow, and
  `IdsKeepMeaning`: no step, and no failure of memory, changes what an ID means.
* `PanelProofs`. `ImplementsSymap`: a run of `Panel` is a run of `Symap`, provided
  the URIs that a plugin has mapped are symbols (`PluginsAssumption`). `Panel`
  takes the steps of `Symap` as they are and adds what the caller does with the
  ID; the proof shows that no other handler touches the map. `MapStaysSorted`
  and `MapKeepsMeaning` carry the theorems of `SymapProofs` over.
  `WindowTellsTruth`: `WindowTellsPreset` holds whatever is loaded, saved and
  deleted; `PresetInv` adds that a preset of the user's is on disk when it is
  the current one, so that saving it again needs no new menu.
* `ControlProofs`. `PanelTypeCorrect` and `StorageIsKept`: types and memory, from
  one invariant (`PanelInv`), as `any_value_set` allocates by the type and the size
  of what is there. The number of blocks is the number of controls with a pointer
  and of blocks lost, as a step changes one control and both sides by the same
  number. `WindowShowsThePlugin`: `InSync`. Its invariant (`SyncInv`) does not
  wait for the rings to be empty: what a widget shows is the value that the
  plugin will have once the ring is drained (`Latest`), unless an update for it is
  on its way, which then has that value, or it was crossed. `RecordsMatchPlugin`:
  `ControlsMatch`. Its invariant (`MatchInv`) says, for each place that the loops
  of `jalv_create_controls` can be at, which properties have a record and which
  records are marked readable; it needs `Symap`'s invariant, as the second loop
  finds the record of the first by its ID. `WritesAreMeant`: `WritesMeant`, of every
  step; it follows from the first two invariants, which tie a control's widgets
  to its port and dials to Qt.
* `SessionProofs`. `SessionSafe`: for any choice of frontends, backends and sizes and
  any number of posts, `SessionInv` is inductive. That an instance is
  freed in quiet says nothing of how the program came to the step that frees it, so the
  invariant is about the list of steps the main thread has left. `ListOK` says
  which step may be behind which (`Behind`: a step of closing is always behind
  the one that closing has before it, a step of opening only where opening is),
  and that whenever the audio runs a step that stops it is still ahead, through
  `quit_app` turning a loop into its shutdown too. `HeadOK` says what holds when
  a step is the next: what opening has made by then (`Opened`), what closing has
  stopped and freed by then (`Closed`). `LifeOK` says what lives while what else
  lives or runs. Each of the three needs the other two: a free is harmless
  because of `Closed`, `Closed` passes from a step to the one behind it because
  of `Behind`, and a second round of closing after `jalv_update` has closed is
  harmless to the other threads because they have stopped. From it follow
  `MemoryForThreads`, `InstanceFreedInQuiet`, and `SessionOrdered`, the
  refinement of `Lifetimes`. On top of it stands a second invariant (`SessionGoes`,
  relative to the first) about the whole list rather than its head.
  `ClosesOnce`: each step has a rank, `MayFollow` says which ranks may come
  behind which, and so a list that has closed once holds no step that still uses
  what was freed (`Stranded`), unless `jalv_update` closed within the loop of
  the console or of GTK, which go on (`Sound`). `FailsWell`: what a `jalv_open` that
  failed at each place has made, and that GTK and Qt then come to no step of
  closing. `Awaited`: as long as something lives, a step that frees it, or
  leads to one, is in the list. `KnownMisuse` is a conjunct, and needs the first two: a step
  faults only when it is stranded, or when ports are there without an instance.
  `MisuseIsKnown` and `NothingIsLeft` follow, the second because nothing is awaited in an empty
  list. `SessionTypeCorrect` and `BuffersHaveSize` (`SizesFit`: a buffer has
  the server's size whether or not the plugin runs, unless a change was missed)
  are about the values that other threads change.

The proofs about `Panel` are for any set of plugins that satisfies
`PluginsAssumption`: ports and properties are of the kinds that
`jalv_process_port_init` and `new_property_control` tell apart, and no two
properties have one URI, as lilv returns them as a set. The values are
those of `Widgets`: every integer that is at one of its three marks or out of the
range.

Only model-checked: all liveness (`EndsWhenAsked`, and that of `Worker` and
`JalvProcess`), which is beyond this prover.

## What is not modelled

* The data of plugins and text: `nodes.c`, `urids.c`, `query.c`, `features.c`,
  `log.c`, `dumper.c`, the options, and how they are printed.
* Of the frontends: the layout of widgets (Qt's `FlowLayout` too), the log
  viewer, the plugin selector, banks of presets, and the rounding of floats
  between a widget and its control. Of the text of commands, the characters and
  offsets.
* Of values: types other than Float, Int, String and Path. A value with a pointer's
  eight bytes as a number (Double, Long) behaves as the text of that size does.
* Of presets: the files, which are lilv's, and a shipped preset in a bundle that may be
  written.
* Of the URI map: reads of its arrays without the lock (the main thread unmaps), and
  `symap_strdup` failing.
* Of Jack: latency, transport and tempo.
* Two writers tearing a message in `plugin_to_ui`, which is listed as a hazard.
* The libraries (lilv, zix, suil, GTK, Qt, the sound servers) are modelled by how
  they are used.

## Plan

Done: `JalvProcess` with `RunGate`, `Worker` with `WorkQueue`, `Evbuf`; the
lifecycle (`Session` with `Lifetimes`); ports, controls, properties and widgets
(`Panel`); the URI map (`Symap`); the console's commands (in `Panel`, as words);
and proofs of all the safety properties that the runs check. Left, in order:

1. The rings to the byte, with two writers; sizes of messages against the
   receiver's buffer.
2. Jack's latency, transport and tempo.
