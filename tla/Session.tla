------------------------------- MODULE Session -------------------------------
(***************************************************************************)
(* The life of one run of the program: main() opens the plugin, starts the *)
(* audio, loops in one of the frontends and closes, while signals, the     *)
(* sound server and its callbacks come when they please.  The main         *)
(* thread's control is the list of the steps it has left, the next one     *)
(* first: a call puts the steps of the callee in front.                    *)
(***************************************************************************)
EXTENDS Integers, Sequences, FiniteSets

CONSTANTS Frontends, \* of "console", "gtk", "qt", "internal"
          Backends,  \* of "jack", "portaudio"
          Sizes,     \* sizes the server gives to MIDI buffers
          MaxPosts   \* bound: how often `done` is posted

ASSUME SessionAssumption ==
  /\ Frontends \subseteq {"console", "gtk", "qt", "internal"}
  /\ Backends \subseteq {"jack", "portaudio"}
  /\ Sizes \subseteq Nat \ {0} /\ Sizes # {}
  /\ MaxPosts \in Nat

VARIABLES
  cfg,     \* how the program was built and started, and what the plugin has
  todo,    \* the steps the main thread has left
  life,    \* what the pointers of Jalv and its parts point to
  done,    \* the value of the semaphore `done`
  posts,   \* how often it was posted
  running, \* process.run_state is JALV_RUNNING
  audio,   \* the backend calls process_cb
  server,  \* the sound server is there
  guest,   \* backend->is_internal_client
  active,  \* the plugin's activate() was called, its deactivate() not yet
  thread,  \* the worker's thread is up
  gate,    \* the pause handshake of jalv_apply_state
  size,    \* settings.midi_buf_size
  bufs,    \* the capacity the event buffers were made with
  missed,  \* the last change of the size came while not running
  failed,  \* the error of jalv_open, or "none"
  inside,  \* jalv_update took the post of `done` and closed
  fault    \* the first use of memory that is not there, or "none"

vars == <<cfg, todo, life, done, posts, running, audio, server, guest, active,
          thread, gate, size, bufs, missed, failed, inside, fault>>

Resource == {"app", "backend", "world", "done", "workers", "ports", "client",
             "controls", "instance", "buffers", "rings", "ui"}

\* What each of them rests on while it lives.
Needs == [r \in Resource |->
  CASE r = "ports"    -> {"world"}
    [] r = "client"   -> {"done"}
    [] r = "controls" -> {"world"}
    [] r = "instance" -> {"world", "controls"}
    [] r = "buffers"  -> {"instance", "ports"}
    [] r = "ui"       -> {"instance"}
    [] OTHER          -> {}]

Live == {r \in Resource : life[r] = "live"}
Freed == {r \in Resource : life[r] = "freed"}
With(R, state) == [r \in Resource |-> IF r \in R THEN state ELSE life[r]]

Jack == cfg.backend = "jack"

-----------------------------------------------------------------------------
(* The steps of the functions that are called from several places.         *)

\* A mutant: the worker is left to jalv_worker_free.
DeactivateOnly == <<"stop_audio", "stop_plugin">>

Deactivate == <<"stop_audio", "stop_plugin", "stop_worker">>

\* A mutant: the world goes before what was made from it.
CloseWorldFirst == Deactivate \o <<"unbuffer", "close_client", "free_world",
                                   "free_plugin", "free_process">>

Close == Deactivate \o <<"unbuffer", "close_client", "free_plugin",
                         "free_process", "free_world">>

Activate == <<"launch", "start_audio", "set_running">>

\* A mutant: Qt's closes, too.
FrontendCloses ==
  CASE cfg.frontend = "gtk" -> <<"quit_app">>
    [] OTHER                -> Deactivate \o Close

FrontendClose ==
  CASE cfg.frontend = "console" -> Deactivate \o Close
    [] cfg.frontend = "gtk"     -> <<"quit_app">>
    [] OTHER                    -> <<"quit_loop">>

\* What the frontend does once jalv_open has succeeded.
AfterOpen ==
  CASE cfg.frontend = "console"  -> Activate \o <<"enter">>
    [] cfg.frontend = "gtk"      -> <<"window">> \o Activate \o <<"gtk_loop">>
    [] cfg.frontend = "qt"       -> Activate \o <<"window", "qt_loop">>
    [] cfg.frontend = "internal" -> Activate \o <<"loaded">>

\* What it does when jalv_open has failed.
AfterFailure ==
  CASE cfg.frontend = "gtk"      -> <<"app_shutdown">>
    [] cfg.frontend = "internal" -> Close
    [] OTHER                     -> <<>>

\* What a step reads or frees through pointers that nobody sets to NULL.
Touched(step) ==
  CASE step = "stop_audio"   -> IF guest \/ ~Jack THEN {"backend"}
                                ELSE {"backend", "client"}
    [] step = "stop_plugin"  -> {"instance"}
    [] step = "stop_worker"  -> {"workers"}
    [] step = "unbuffer"     -> IF cfg.ports THEN {"ports", "instance"} ELSE {}
    [] step = "close_client" -> IF guest \/ ~Jack THEN {"backend"}
                                ELSE {"backend", "client"}
    [] step = "free_plugin"  -> {"ui", "instance"}
    [] step = "free_process" -> {"ports", "workers", "rings", "controls"}
    [] step = "free_world"   -> {"world", "done"}
    [] step \in {"first_update", "update", "ui_update", "gtk_loop", "qt_loop",
                 "gtk_dialog", "check", "ui_check", "wait"} -> {"done"}
    [] step = "ui_idle"      -> {"ui"}
    [] step \in {"quit_app", "gtk_refresh", "app_shutdown"} -> {"app"}
    [] OTHER                 -> {}

-----------------------------------------------------------------------------
Configurations ==
  {c \in [frontend : Frontends, backend : Backends, ports : BOOLEAN,
          worker : BOOLEAN, mode : {"prompt", "silent", "ui", "window"}] :
     /\ c.frontend = "internal" => c.backend = "jack"
     /\ (c.mode = "window") <=> (c.frontend # "console")}

\* main() with its zeroed Jalv, or jack_initialize with the server's client.
Init ==
  /\ cfg \in Configurations
  /\ todo = IF cfg.frontend = "internal"
            THEN <<"open_world", "free_backend">>
            ELSE <<"frontend_init", "frontend_run", "frontend_close",
                   "free_backend">>
  /\ life = [r \in Resource |-> IF r = "backend" THEN "live" ELSE "unset"]
  /\ guest = (cfg.frontend = "internal")
  /\ done = 0 /\ posts = 0
  /\ running = FALSE /\ audio = FALSE /\ server = TRUE
  /\ active = FALSE /\ thread = FALSE /\ gate = "open"
  /\ size \in Sizes /\ bufs = 0 /\ missed = FALSE
  /\ failed = "none" /\ inside = FALSE /\ fault = "none"

\* The main thread is at `step`, and what the step touches is there.
At(step) ==
  /\ fault = "none"
  /\ todo # <<>> /\ Head(todo) = step
  /\ Touched(step) \cap Freed = {}

Then(steps) == todo' = steps \o Tail(todo)

\* Groups of variables that most steps leave alone.
world  == <<cfg, posts, server>>
engine == <<running, audio, guest, active, thread, gate, size, bufs, missed>>
story  == <<failed, inside, fault>>

\* A step touches what was freed before: what follows is undefined.
UseAfterFree ==
  /\ fault = "none"
  /\ todo # <<>> /\ Touched(Head(todo)) \cap Freed # {}
  /\ fault' = "freed"
  /\ UNCHANGED <<world, engine, todo, life, done, failed, inside>>

-----------------------------------------------------------------------------
(* main() and the frontends' ways into jalv_open                           *)

\* jalv_frontend_init: the console's options may end the program, GTK and Qt
\* make their application.
FrontendInit ==
  /\ At("frontend_init")
  /\ IF cfg.frontend = "console"
     THEN /\ UNCHANGED life
          /\ \/ Then(<<>>)
             \/ todo' = Tail(Tail(todo))
     ELSE /\ life' = With({"app"}, "live")
          /\ Then(<<>>)
  /\ UNCHANGED <<world, engine, story, done>>

\* jalv_frontend_run up to jalv_open: GTK rejects trailing arguments, Qt a
\* missing one.
FrontendRun ==
  /\ At("frontend_run")
  /\ \/ Then(<<"open_world">>)
     \/ cfg.frontend \in {"gtk", "qt"} /\ Then(<<>>)
  /\ UNCHANGED <<world, engine, story, life, done>>

CallFrontendClose ==
  /\ At("frontend_close")
  /\ Then(FrontendClose)
  /\ UNCHANGED <<world, engine, story, life, done>>

\* jalv_backend_free, the last statement of main() and of jack_finish().
\* jack_initialize leaves the backend to leak when jalv_open failed.
FreeBackend ==
  /\ At("free_backend")
  /\ life' = IF cfg.frontend = "internal" /\ failed # "none"
             THEN life ELSE With({"backend"}, "freed")
  /\ Then(<<>>)
  /\ UNCHANGED <<world, engine, story, done>>

-----------------------------------------------------------------------------
(* jalv_open                                                               *)

Fail(code) ==
  /\ failed' = code
  /\ Then(AfterFailure)
  /\ UNCHANGED <<inside, fault>>

\* The world, the mapper, the nodes and the semaphores; what was posted to
\* `done` before zix_sem_init is forgotten.
OpenWorld ==
  /\ At("open_world")
  /\ life' = With({"world", "done"}, "live")
  /\ done' = 0
  /\ Then(<<"find_plugin">>)
  /\ UNCHANGED <<world, engine, story>>

FindPlugin ==
  /\ At("find_plugin")
  /\ \/ Then(<<"choose_ui">>) /\ UNCHANGED story
     \/ Fail("plugin")
  /\ UNCHANGED <<world, engine, life, done>>

ChooseUi ==
  /\ At("choose_ui")
  /\ \/ Then(<<"init_process">>) /\ UNCHANGED story
     \/ Fail("ui")
  /\ UNCHANGED <<world, engine, life, done>>

\* jalv_process_init and the workers
InitProcess ==
  /\ At("init_process")
  /\ running' = FALSE
  /\ life' = IF cfg.worker THEN With({"workers"}, "live") ELSE life
  /\ Then(<<"create_ports">>)
  /\ UNCHANGED <<world, story, done, audio, guest, active, thread, gate, size,
                 bufs, missed>>

CreatePorts ==
  /\ At("create_ports")
  /\ life' = With({"ports"}, "live")
  /\ \/ Then(<<"open_backend">>) /\ UNCHANGED story
     \/ cfg.ports /\ Fail("ports")
  /\ UNCHANGED <<world, engine, done>>

\* A mutant: the flag of the internal client stays.
OpenGuest ==
  /\ At("open_backend") /\ server
  /\ life' = With({"client"}, "live")
  /\ Then(<<"check_features">>)
  /\ UNCHANGED <<world, engine, story, done>>

\* jalv_backend_open: a client is made, unless the server gave one, its
\* callbacks are set and the server's sizes taken.  The flag of the internal
\* client is reset.
OpenBackend ==
  /\ At("open_backend")
  /\ \/ /\ server
        /\ life' = With({"client"}, "live")
        /\ guest' = FALSE
        /\ Then(<<"check_features">>)
        /\ UNCHANGED story
     \/ /\ cfg.frontend # "internal"
        /\ Fail("backend")
        /\ UNCHANGED <<life, guest>>
  /\ UNCHANGED <<world, done, running, audio, active, thread, gate, size, bufs,
                 missed>>

\* The controls, the message buffer and the list of features.
CheckFeatures ==
  /\ At("check_features")
  /\ life' = With({"controls"}, "live")
  /\ \/ Then(<<"instantiate">>) /\ UNCHANGED story
     \/ Fail("features")
  /\ UNCHANGED <<world, engine, done>>

Instantiate ==
  /\ At("instantiate")
  /\ \/ /\ life' = With({"instance"}, "live")
        /\ Then(<<"activate_process">>)
        /\ UNCHANGED story
     \/ Fail("instance") /\ UNCHANGED life
  /\ UNCHANGED <<world, engine, done>>

\* jalv_process_activate makes what the process thread works with; the state
\* and the controls given on the command line follow, with no thread to wait
\* for, and the ports of the server.
ActivateProcess ==
  /\ At("activate_process")
  /\ life' = With({"buffers", "rings"}, "live")
  /\ bufs' = size
  /\ Then(AfterOpen)
  /\ UNCHANGED <<world, story, done, running, audio, guest, active, thread,
                 gate, size, missed>>

-----------------------------------------------------------------------------
(* jalv_activate, jalv_deactivate and jalv_close                           *)

Launch ==
  /\ At("launch")
  /\ thread' = cfg.worker
  /\ active' = TRUE
  /\ Then(<<>>)
  /\ UNCHANGED <<world, story, life, done, running, audio, guest, gate, size,
                 bufs, missed>>

\* jack_activate fails, unseen, when the server is gone.
StartAudio ==
  /\ At("start_audio")
  /\ audio' = server
  /\ Then(<<>>)
  /\ UNCHANGED <<world, story, life, done, running, guest, active, thread, gate,
                 size, bufs, missed>>

SetRunning ==
  /\ At("set_running")
  /\ running' = TRUE
  /\ Then(<<>>)
  /\ UNCHANGED <<world, story, life, done, audio, guest, active, thread, gate,
                 size, bufs, missed>>

\* jalv_backend_deactivate returns when no callback runs any more; it leaves
\* an internal client alone.
StopAudio ==
  /\ At("stop_audio")
  /\ audio' = IF guest THEN audio ELSE FALSE
  /\ Then(<<>>)
  /\ UNCHANGED <<world, story, life, done, running, guest, active, thread, gate,
                 size, bufs, missed>>

StopPlugin ==
  /\ At("stop_plugin")
  /\ active' = FALSE
  /\ Then(<<>>)
  /\ UNCHANGED <<world, story, life, done, running, audio, guest, thread, gate,
                 size, bufs, missed>>

\* jalv_worker_exit joins the thread.
StopWorker ==
  /\ At("stop_worker")
  /\ thread' = FALSE
  /\ running' = FALSE
  /\ Then(<<>>)
  /\ UNCHANGED <<world, story, life, done, audio, guest, active, gate, size,
                 bufs, missed>>

\* jalv_process_deactivate: every port is disconnected, also when there is no
\* instance to disconnect it from.
Unbuffer ==
  /\ At("unbuffer")
  /\ IF cfg.ports /\ life["ports"] = "live" /\ life["instance"] = "unset"
     THEN fault' = "null" /\ UNCHANGED <<todo, life>>
     ELSE /\ life' = With({"buffers"}, "unset")
          /\ Then(<<>>)
          /\ UNCHANGED fault
  /\ UNCHANGED <<world, engine, done, failed, inside>>

\* jalv_backend_close: Jack keeps the pointer to the client, PortAudio resets
\* its stream.
CloseClient ==
  /\ At("close_client")
  /\ life' = IF guest \/ life["client"] = "unset" THEN life
             ELSE With({"client"}, IF Jack THEN "freed" ELSE "unset")
  /\ Then(<<>>)
  /\ UNCHANGED <<world, engine, story, done>>

\* free() of what is live; NULL is skipped and no pointer is reset.
Free(R) == life' = With(R \cap Live, "freed")

FreePlugin ==
  /\ At("free_plugin")
  /\ Free({"ui", "instance"})
  /\ Then(<<>>)
  /\ UNCHANGED <<world, engine, story, done>>

\* A mutant: the workers are not freed.
FreePorts ==
  /\ At("free_process")
  /\ Free({"ports", "rings", "controls"})
  /\ Then(<<>>)
  /\ UNCHANGED <<world, engine, story, done>>

\* The preset, the ports, jalv_process_cleanup, the buffers and the controls
FreeProcess ==
  /\ At("free_process")
  /\ Free({"ports", "workers", "rings", "controls"})
  /\ Then(<<>>)
  /\ UNCHANGED <<world, engine, story, done>>

\* The UIs, the mapper, the world and the semaphore
FreeWorld ==
  /\ At("free_world")
  /\ Free({"world", "done"})
  /\ Then(<<>>)
  /\ UNCHANGED <<world, engine, story, done>>

-----------------------------------------------------------------------------
(* The frontends' loops                                                    *)

\* A mutant: it does not look before it takes.
TakePost == done' = done - 1

TryWait == done > 0 /\ done' = done - 1

\* jalv_update at `step`: it either takes the post of `done` and closes, with
\* the loop going on at `closed`, or empties the ring and goes on at `next`.
Update(step, closed, next) ==
  /\ At(step)
  /\ \/ /\ TryWait
        /\ inside' = TRUE
        /\ Then(FrontendClose \o closed)
     \/ /\ done = 0
        /\ Then(next)
        /\ UNCHANGED <<done, inside>>
  /\ UNCHANGED <<world, engine, life, failed, fault>>

\* The console's loop: run_custom_ui, or a prompt, or nothing but waiting; a
\* UI that cannot be shown is made all the same.
EnterConsole ==
  /\ At("enter")
  /\ Then(CASE cfg.mode = "ui"     -> <<"ui_check">>
            [] cfg.mode = "prompt" -> <<"first_update">>
            [] cfg.mode = "silent" -> <<"wait">>)
  /\ \/ life' = With({"ui"}, "live")
     \/ cfg.mode # "ui" /\ UNCHANGED life
  /\ UNCHANGED <<world, engine, story, done>>

\* Only here is the result of jalv_update looked at.
FirstUpdate == Update("first_update", <<>>, <<"check">>)

CheckDone ==
  /\ At("check")
  /\ \/ TryWait /\ Then(<<>>)
     \/ done = 0 /\ Then(<<"poll">>) /\ UNCHANGED done
  /\ UNCHANGED <<world, engine, story, life>>

\* The poll times out or brings a command.
Poll ==
  /\ At("poll")
  /\ \/ Then(<<"update">>)
     \/ Then(<<>>)
  /\ UNCHANGED <<world, engine, story, life, done>>

ConsoleUpdate == Update("update", <<"check">>, <<"check">>)

Wait ==
  /\ At("wait")
  /\ TryWait
  /\ Then(<<>>)
  /\ UNCHANGED <<world, engine, story, life>>

\* The loop that drives a custom UI, then waits for `done`, once more.
UiCheck ==
  /\ At("ui_check")
  /\ \/ TryWait /\ Then(<<"wait">>)
     \/ done = 0 /\ Then(<<"ui_update">>) /\ UNCHANGED done
  /\ UNCHANGED <<world, engine, story, life>>

UiUpdate == Update("ui_update", <<"ui_idle">>, <<"ui_idle">>)

UiIdle ==
  /\ At("ui_idle")
  /\ \/ Then(<<"ui_check">>)
     \/ Then(<<"wait">>)
  /\ UNCHANGED <<world, engine, story, life, done>>

\* The window and the plugin's UI, if it has one
OpenWindow ==
  /\ At("window")
  /\ \/ life' = With({"ui"}, "live")
     \/ UNCHANGED life
  /\ Then(<<>>)
  /\ UNCHANGED <<world, engine, story, done>>

\* The timer of the main loop, which goes on in the loop of a dialog
GtkTimer ==
  \/ Update("gtk_loop", <<"gtk_loop">>, <<"gtk_loop">>)
  \/ Update("gtk_dialog", <<"gtk_dialog">>, <<"gtk_dialog">>)

\* A mutant: quit() does not end the loop.
QtTimerStays == Update("qt_loop", <<"qt_loop">>, <<"qt_loop">>)

QtTimer == Update("qt_loop", <<"qt_leave">>, <<"qt_loop">>)

CloseWindow ==
  /\ \/ At("gtk_loop") /\ Then(<<"app_shutdown">>)
     \/ At("qt_loop") /\ Then(<<"qt_leave">>)
  /\ UNCHANGED <<world, engine, story, life, done>>

\* A dialog runs a loop of its own; afterwards most of them update the window.
OpenDialog ==
  /\ At("gtk_loop")
  /\ Then(<<"gtk_dialog", "gtk_loop">>)
  /\ UNCHANGED <<world, engine, story, life, done>>

CloseDialog ==
  /\ At("gtk_dialog")
  /\ \E after \in {<<>>, <<"gtk_refresh">>} : Then(after)
  /\ UNCHANGED <<world, engine, story, life, done>>

RefreshWindow ==
  /\ At("gtk_refresh")
  /\ Then(<<>>)
  /\ UNCHANGED <<world, engine, story, life, done>>

\* The shutdown handler closes what was opened.
AppShutdown ==
  /\ At("app_shutdown")
  /\ Then(IF failed = "none" THEN Close ELSE <<>>)
  /\ UNCHANGED <<world, engine, story, life, done>>

\* jalv_frontend_close of GTK: the application's loop runs no more, a dialog's
\* does, and the App is freed whoever may still use it.
QuitApp ==
  /\ At("quit_app")
  /\ life' = With({"app"}, "freed")
  /\ todo' = LET rest == Tail(todo)
             IN [i \in DOMAIN rest |-> IF rest[i] = "gtk_loop"
                                       THEN "app_shutdown" ELSE rest[i]]
  /\ UNCHANGED <<world, engine, story, done>>

QuitLoop ==
  /\ At("quit_loop")
  /\ Then(<<>>)
  /\ UNCHANGED <<world, engine, story, life, done>>

QtLeave ==
  /\ At("qt_leave")
  /\ Then(Deactivate \o Close)
  /\ UNCHANGED <<world, engine, story, life, done>>

\* The server unloads its internal client: jack_finish.
Unload ==
  /\ At("loaded")
  /\ Then(Deactivate \o Close)
  /\ UNCHANGED <<world, engine, story, life, done>>

-----------------------------------------------------------------------------
(* A preset applied from one of the loops: jalv_apply_state                *)

AskPause ==
  /\ At("poll") \/ At("gtk_loop") \/ At("qt_loop")
  /\ running /\ gate = "open"
  /\ gate' = "asked"
  /\ Then(<<"apply_wait",
            IF Head(todo) = "poll" THEN "update" ELSE Head(todo)>>)
  /\ UNCHANGED <<world, story, life, done, running, audio, guest, active,
                 thread, size, bufs, missed>>

\* The main thread waits for the process thread, restores and asks it to run.
ApplyState ==
  /\ At("apply_wait")
  /\ gate = "shut"
  /\ gate' = "resume"
  /\ Then(<<>>)
  /\ UNCHANGED <<world, story, life, done, running, audio, guest, active,
                 thread, size, bufs, missed>>

-----------------------------------------------------------------------------
(* The other threads                                                       *)

CallsBack == fault = "none" /\ audio /\ server

\* process_cb takes the message that pauses or resumes it.
ProcessGate ==
  /\ CallsBack
  /\ \/ gate = "asked" /\ gate' = "shut" /\ running' = FALSE
     \/ gate = "resume" /\ gate' = "open" /\ running' = TRUE
  /\ UNCHANGED <<world, story, todo, life, done, audio, guest, active, thread,
                 size, bufs, missed>>

\* A mutant: the size is only taken down.
SizeNoted ==
  /\ CallsBack /\ Jack
  /\ \E n \in Sizes \ {size} : size' = n
  /\ missed' = ~running
  /\ UNCHANGED <<world, story, todo, life, done, running, audio, guest, active,
                 thread, gate, bufs>>

\* buffer_size_cb: the buffers follow the size only while the plugin runs.
BufferSize ==
  /\ CallsBack /\ Jack
  /\ \E n \in Sizes \ {size} :
       /\ size' = n
       /\ bufs' = IF running THEN n ELSE bufs
  /\ missed' = ~running
  /\ UNCHANGED <<world, story, todo, life, done, running, audio, guest, active,
                 thread, gate>>

Post ==
  /\ posts < MaxPosts /\ posts' = posts + 1
  /\ IF life["done"] = "freed"
     THEN fault' = "posted" /\ UNCHANGED done
     ELSE done' = done + 1 /\ UNCHANGED fault

\* signal_handler, in the main thread (where it ends a poll) or in another
Signal ==
  /\ fault = "none" /\ todo # <<>> /\ cfg.frontend # "internal"
  /\ Post
  /\ todo' \in {todo} \union (IF Head(todo) = "poll" THEN {Tail(todo)} ELSE {})
  /\ UNCHANGED <<engine, cfg, server, life, failed, inside>>

\* shutdown_cb
ServerShutdown ==
  /\ fault = "none" /\ Jack /\ server
  /\ life["client"] = "live"
  /\ Post
  /\ server' = FALSE
  /\ audio' = FALSE
  /\ UNCHANGED <<cfg, todo, life, running, guest, active, thread, gate, size,
                 bufs, missed, failed, inside>>

-----------------------------------------------------------------------------
Open == \/ OpenWorld \/ FindPlugin \/ ChooseUi \/ InitProcess \/ CreatePorts
        \/ OpenBackend \/ CheckFeatures \/ Instantiate \/ ActivateProcess

Shut == \/ StopAudio \/ StopPlugin \/ StopWorker \/ Unbuffer \/ CloseClient
        \/ FreePlugin \/ FreeProcess \/ FreeWorld

Loops == \/ EnterConsole \/ FirstUpdate \/ CheckDone \/ Poll \/ ConsoleUpdate
         \/ Wait \/ UiCheck \/ UiUpdate \/ UiIdle \/ OpenWindow \/ CloseWindow
         \/ GtkTimer \/ QtTimer \/ OpenDialog \/ CloseDialog \/ RefreshWindow
         \/ AppShutdown \/ QuitApp \/ QuitLoop \/ QtLeave \/ Unload

Main == \/ FrontendInit \/ FrontendRun \/ CallFrontendClose \/ FreeBackend
        \/ Open \/ Launch \/ StartAudio \/ SetRunning \/ Shut \/ Loops
        \/ AskPause \/ ApplyState \/ UseAfterFree

Next == Main \/ ProcessGate \/ BufferSize \/ Signal \/ ServerShutdown

\* The main thread goes on while it can; a main loop comes back to its timer
\* whatever else the user makes it do; the server keeps calling back.
Fairness ==
  /\ WF_vars(Main)
  /\ SF_vars(GtkTimer) /\ SF_vars(QtTimer)
  /\ WF_vars(ProcessGate)

Spec == Init /\ [][Next]_vars /\ Fairness

-----------------------------------------------------------------------------
(* Properties                                                              *)

Steps == {"frontend_init", "frontend_run", "frontend_close", "free_backend",
          "open_world", "find_plugin", "choose_ui", "init_process",
          "create_ports", "open_backend", "check_features", "instantiate",
          "activate_process", "launch", "start_audio", "set_running",
          "stop_audio", "stop_plugin", "stop_worker", "unbuffer",
          "close_client", "free_plugin", "free_process", "free_world",
          "enter", "first_update", "check", "poll", "update", "wait",
          "ui_check", "ui_update", "ui_idle", "window", "gtk_loop", "qt_loop",
          "gtk_dialog", "gtk_refresh", "app_shutdown", "quit_app",
          "quit_loop", "qt_leave", "loaded", "apply_wait"}

\* Every variable has a value of its kind.
TypeOK ==
  /\ cfg \in Configurations
  /\ todo \in Seq(Steps)
  /\ life \in [Resource -> {"unset", "live", "freed"}]
  /\ done \in 0..MaxPosts /\ posts \in 0..MaxPosts
  /\ {running, audio, server, guest, active, thread, missed, inside}
       \subseteq BOOLEAN
  /\ gate \in {"open", "asked", "shut", "resume"}
  /\ size \in Sizes /\ bufs \in Sizes \union {0}
  /\ failed \in {"none", "plugin", "ui", "ports", "backend", "features",
                 "instance"}
  /\ fault \in {"none", "freed", "null", "posted"}

\* Memory is used after it was freed in one way only: jalv_update took the
\* post of `done` and closed within the loop of the console or of GTK, which
\* then closes again (Qt's loop, and waiting without a prompt, are safe).  A
\* missing instance is used only when jalv_open failed with ports made and
\* before an instance, and the console or the internal client closes anyway.
KnownMisuse ==
  /\ fault = "freed" => inside /\ cfg.frontend \in {"console", "gtk"}
                              /\ cfg.mode # "silent"
  /\ fault = "null" => /\ failed \in {"ports", "backend", "features", "instance"}
                      /\ cfg.frontend \in {"console", "internal"}

\* What the callbacks and the worker read is there as long as they may run,
\* through every way of closing: jalv_close stops them before it frees.
ThreadsHaveMemory ==
  /\ (audio /\ server) =>
       {"backend", "ports", "rings"} \union
         (IF running THEN {"instance", "buffers"} ELSE {}) \subseteq Live
  /\ thread => {"workers", "instance"} \subseteq Live

\* While the plugin runs in the callback its event buffers have the server's
\* size, unless the size changed when it was paused or not yet running:
\* buffer_size_cb then leaves them, and nothing catches up.
BuffersFit ==
  (running /\ audio /\ server /\ ~missed) => bufs = size

\* The program that opened and ended without misuse leaves nothing behind but
\* Qt's application object, which lives as long as the process.
NothingLeft ==
  (todo = <<>> /\ fault = "none" /\ failed = "none") =>
     Live \subseteq (IF cfg.frontend = "qt" THEN {"app"} ELSE {})

\* The instance is freed only after the callbacks have stopped, the worker's
\* thread was joined and the plugin was deactivated.
QuietRelease ==
  [][(life["instance"] = "live" /\ life'["instance"] # "live")
       => ~audio /\ ~thread /\ ~active]_vars

\* Everything is made after what it rests on and freed before it, once.
Ordered == INSTANCE Lifetimes
MadeAndFreedInOrder == Ordered!Spec

Over == todo = <<>> \/ fault # "none"

\* A post of `done` ends the program, except where the code cannot see it:
\* while jalv_apply_state waits for a callback of a server that is gone, while
\* a dialog is open, and after run_custom_ui, which took the post, in a wait
\* for another.  A post that comes before jalv_open has made the semaphore is
\* forgotten.  (The internal client waits for the server instead.)
AskedToEnd ==
  done > 0 /\ life["done"] = "live" /\ cfg.frontend # "internal"

EndsWhenAsked ==
  AskedToEnd ~> \/ Over
                \/ Head(todo) = "apply_wait" /\ ~server
                \/ Head(todo) = "gtk_dialog"
                \/ Head(todo) = "wait" /\ cfg.mode = "ui"
=============================================================================
