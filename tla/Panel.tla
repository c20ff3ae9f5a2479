------------------------------- MODULE Panel -------------------------------
(***************************************************************************)
(* What the user and the plugin see of each other in the main thread: the  *)
(* ports and controls that jalv_open makes from the plugin's data, the     *)
(* widgets of the frontend, the values on their way to the plugin and back *)
(* in the rings, the presets and what the window says of them.             *)
(*                                                                         *)
(* A ring keeps of each port the last value that was written, as a cycle   *)
(* and an update read all that is there.                                   *)
(***************************************************************************)
EXTENDS Symap, Integers, Sequences, FiniteSets, Widgets

CONSTANTS Plugins,   \* records with the data of a plugin
          Frontends, \* of "console", "gtk", "qt"
          Lengths,   \* lengths of texts
          MaxLost    \* bound: how many blocks are lost

\* The data of a plugin: ports, a control port with one of the widgets that
\* there are, and properties, each with a URI of its own.  Whatever is mapped
\* is a symbol, and values are those of Widgets.
PortData ==
  [flow : {"input", "output", "none"}, class : {"control", "audio", "atom", "other"},
   look : Looks \union {"none"}, default : Values, number : Numbers,
   optional : BOOLEAN, primary : BOOLEAN, hidden : BOOLEAN]

PropertyData ==
  [uri : Symbol, writable : BOOLEAN, readable : BOOLEAN,
   range : Texts \union Numbers \union {"none"}]

ASSUME PluginsAssumption ==
  /\ \A p \in Plugins :
       /\ p.ports \in Seq(PortData)
       /\ \A i \in DOMAIN p.ports : p.ports[i].class = "control" => p.ports[i].look \in Looks
       /\ p.properties \subseteq PropertyData /\ IsFiniteSet(p.properties)
       /\ \A q, r \in p.properties : q.uri = r.uri => q = r
       /\ p.maps \subseteq Symbol
       /\ p.inputs \subseteq Values /\ p.shipped \in Values
  /\ Lengths \subseteq Nat /\ MaxLost \in Nat

VARIABLES
  plugin,    \* the plugin
  frontend,  \* the program's frontend
  phase,     \* how far jalv_open has come, then "running" or "failed"
  left,      \* the properties that a loop of jalv_create_controls has left
  making,    \* the property whose control is being made, or NoProperty
  ports,     \* flow and type of the ports made so far
  controlIn, \* process.control_in, or NoPort
  controls,  \* jalv->controls, with the widgets of each
  dials,     \* the positions of Qt's dials, by port
  buf,       \* process.controls_buf
  pending,   \* values in ui_to_plugin, by port
  toUi,      \* values in plugin_to_ui, by port
  crossed,   \* ports set while an older value was in plugin_to_ui, and outputs set
  preset,    \* jalv->preset
  disk,      \* the user's preset on disk: {} or {the values it has}
  menu,      \* the presets in the menu
  window,    \* what update_window has last put into title and actions
  blocks,    \* blocks of memory allocated for values
  lost,      \* those of them that nothing points to
  fault      \* what has led to undefined behaviour, or "none"

opening == <<plugin, frontend, phase, left, making, ports, controlIn>>
widgets == <<controls, dials>>
rings   == <<buf, pending, toUi, crossed>>
session == <<preset, disk, menu, window>>
memory  == <<blocks, lost, fault>>
vars == <<opening, widgets, rings, session, memory, symapVars>>

NoPort == 0 - 1
NoProperty == [uri |-> 0, writable |-> FALSE, readable |-> FALSE, range |-> "none"]
NoPreset == [name |-> "none", uri |-> "none"]
Shipped == [name |-> "shipped", uri |-> "published"]
Mine == [name |-> "mine", uri |-> "file"]
Unsaved == [name |-> "mine", uri |-> "none"] \* a state that was not saved
Plain == [title |-> "none", save |-> FALSE, delete |-> FALSE]

Only(S) == CHOOSE x \in S : TRUE

\* The values of both, the new ones where there are any.
Over(new, old) ==
  [p \in DOMAIN new \union DOMAIN old |-> IF p \in DOMAIN new THEN new[p] ELSE old[p]]

-----------------------------------------------------------------------------
(* Ports and controls                                                      *)

\* set_port_types
TypeOf(p) ==
  CASE p.class \in {"control", "audio"} -> p.class
    [] p.class = "atom"                 -> "event"
    [] OTHER                            -> "unknown"

\* jalv_process_port_init accepts the port.
Known(p) == (p.flow # "none" /\ TypeOf(p) # "unknown") \/ p.optional

NewControl(kind, node, id, look, type, value) ==
  [kind |-> kind, node |-> node, id |-> id, look |-> look, type |-> type,
   writable |-> FALSE, readable |-> FALSE, value |-> value, hidden |-> FALSE,
   widget |-> FALSE, scale |-> 0, spin |-> 0]

\* new_port_control: the default value is there from the beginning, an
\* integer as one.
PortControl(p, i) ==
  [NewControl("port", i, i, p.look, "Float", Put(NoValue, p.number, p.default))
     EXCEPT !.writable = (p.flow = "input"), !.readable = (p.flow = "output"),
            !.hidden = p.hidden]

\* new_property_control, of a property without a default value, with the ID
\* that its URI was mapped to
PropertyControl(q, id) ==
  NewControl("property", q.uri, id,
             IF q.range \in Texts THEN "text" ELSE "slider", q.range, NoValue)

\* lilv_node_equals() over the controls
RecordsOf(q) ==
  {i \in DOMAIN controls : /\ controls[i].kind = "property"
                           /\ controls[i].node = q.uri}

\* A mutant: the index is off by one.
NextControlsAt(p) == {i \in DOMAIN controls : i = p + 2}

\* get_port_control: the index of a port is taken for one of the controls.
ControlsAt(p) == {i \in DOMAIN controls : i = p + 1}

\* get_property_control
ControlsOf(id) ==
  {i \in DOMAIN controls :
     /\ controls[i].kind = "property" /\ controls[i].id = id
     /\ \A j \in 1..(i - 1) :
          controls[j].kind = "property" => controls[j].id # id}

\* A control port without a range; a dial's would be no number.
Endless == \E i \in DOMAIN plugin.ports : plugin.ports[i].look = "spinner"

-----------------------------------------------------------------------------
Init ==
  /\ SymapInit
  /\ plugin \in Plugins
  /\ frontend \in {f \in Frontends : f = "qt" => ~Endless}
  /\ phase = "ports" /\ left = {} /\ making = NoProperty
  /\ ports = <<>> /\ controlIn = NoPort
  /\ controls = <<>> /\ dials = <<>>
  /\ buf = [i \in 0..(Len(plugin.ports) - 1) |-> plugin.ports[i + 1].default]
  /\ pending = <<>> /\ toUi = <<>> /\ crossed = {}
  /\ preset = NoPreset /\ disk = {} /\ menu = {} /\ window = Plain
  /\ blocks = 0 /\ lost = 0 /\ fault = "none"
At(place) == fault = "none" /\ phase = place

-----------------------------------------------------------------------------
(* jalv_open                                                               *)

\* create_port: a port of unknown kind that is not optional ends it.
CreatePort ==
  /\ At("ports") /\ Len(ports) < Len(plugin.ports)
  /\ LET i == Len(ports)
         p == plugin.ports[i + 1]
     IN IF ~Known(p)
        THEN phase' = "failed" /\ UNCHANGED <<ports, controls, controlIn>>
        ELSE /\ ports' = Append(ports, [flow |-> p.flow, type |-> TypeOf(p)])
             /\ controls' = IF p.class = "control"
                            THEN Append(controls, PortControl(p, i))
                            ELSE controls
             /\ controlIn' = IF /\ controlIn = NoPort /\ p.primary
                               /\ p.flow = "input" /\ TypeOf(p) = "event"
                             THEN i ELSE controlIn
             /\ UNCHANGED phase
  /\ UNCHANGED <<plugin, frontend, left, making, dials, rings, session, memory,
                 symapVars>>

\* jalv_create_controls is called for what is writable, then for what is
\* readable, and takes the properties in any order.
NextLoop ==
  /\ fault = "none" /\ making = NoProperty /\ left = {}
  /\ \/ /\ phase = "ports" /\ Len(ports) = Len(plugin.ports)
        /\ phase' = "writable"
        /\ left' = {q \in plugin.properties : q.writable}
     \/ /\ phase = "writable"
        /\ phase' = "readable"
        /\ left' = {q \in plugin.properties : q.readable}
     \/ /\ phase = "readable"
        /\ phase' = "instantiate"
        /\ UNCHANGED left
  /\ UNCHANGED <<plugin, frontend, making, ports, controlIn, widgets, rings,
                 session, memory, symapVars>>

\* A mutant: what has a record is made again.
NeverReadable(q) == phase = "readable" /\ q.writable /\ RecordsOf(q) = {}

\* A readable property that has a record already is marked there.
AlsoReadable(q) == phase = "readable" /\ q.writable /\ RecordsOf(q) # {}

MarkReadable ==
  /\ phase = "readable" /\ fault = "none" /\ making = NoProperty
  /\ \E q \in left :
       /\ AlsoReadable(q)
       /\ left' = left \ {q}
       /\ controls' = [i \in DOMAIN controls |->
            [controls[i] EXCEPT !.readable = @ \/ i \in RecordsOf(q)]]
  /\ UNCHANGED <<plugin, frontend, phase, making, ports, controlIn, dials, rings,
                 session, memory, symapVars>>

\* Any other gets a record, for which its URI is mapped.
MakeControl ==
  /\ phase \in {"writable", "readable"} /\ fault = "none" /\ making = NoProperty
  /\ \E q \in left :
       /\ ~AlsoReadable(q)
       /\ making' = q
       /\ left' = left \ {q}
       /\ BeginMap(q.uri)
  /\ UNCHANGED <<plugin, frontend, phase, ports, controlIn, widgets, rings,
                 session, memory>>

MapUri ==
  /\ SymapSteps
  /\ UNCHANGED <<opening, widgets, rings, session, memory>>

\* A record whose range is of no known type is thrown away.
AddControl ==
  /\ making # NoProperty /\ Return
  /\ controls' =
       IF making.range = "none" THEN controls
       ELSE Append(controls,
                   [PropertyControl(making, call.id)
                      EXCEPT !.writable = (phase = "writable"),
                             !.readable = (phase = "readable")])
  /\ making' = NoProperty
  /\ UNCHANGED <<plugin, frontend, phase, left, ports, controlIn, dials, rings,
                 session, memory>>

\* The plugin maps URIs, as often as it likes.
PluginMaps ==
  /\ At("instantiate")
  /\ (\E sym \in plugin.maps : BeginMap(sym)) \/ Return
  /\ UNCHANGED <<opening, widgets, rings, session, memory>>

-----------------------------------------------------------------------------
(* Values on their way                                                     *)

InputControls == {i \in DOMAIN controls : controls[i].kind = "port" /\
                                          controls[i].writable}
InputPorts == {controls[i].id : i \in InputControls}

\* jalv_write_control of the last of the values that handlers have set; the
\* value of a property goes to the plugin as an event, which may ignore it.
Write(control, sent) ==
  IF control.kind = "property" \/ sent = <<>>
  THEN UNCHANGED <<pending, crossed>>
  ELSE /\ pending' = Over([p \in {control.id} |-> sent[Len(sent)]], pending)
       /\ crossed' = IF control.id \in DOMAIN toUi \/ ~control.writable
                     THEN crossed \union {control.id}
                     ELSE crossed \ {control.id}

\* The blocks that handlers release when they set a number.
Released(control, sent) == IF sent = <<>> THEN 0 ELSE Blocks(control.value, 4)

\* The values of a state reach the controls and, with the plugin paused, its
\* ports, with what was in the ring before.  A plugin with a thread-safe
\* restore() gets them in the ring.  set_port_value sends them to the UI, too.
SetPortValues(values, paused) ==
  /\ controls' = [i \in DOMAIN controls |->
       IF controls[i].kind = "port" /\ controls[i].id \in DOMAIN values
       THEN [controls[i] EXCEPT !.value = Put(@, "Float", values[controls[i].id])]
       ELSE controls[i]]
  /\ IF paused THEN buf' = Over(values, Over(pending, buf)) /\ pending' = <<>>
               ELSE pending' = Over(values, pending) /\ UNCHANGED buf
  /\ toUi' = Over(values, toUi)
  /\ crossed' = crossed \ DOMAIN values

ShippedValues == [p \in InputPorts |-> plugin.shipped]

\* The rest of jalv_open: a state that was given, then a value that was given
\* (`-c`), while the plugin does not run.
OpenState ==
  /\ At("instantiate") /\ call.step = "idle"
  /\ phase' = "arguments"
  /\ SetPortValues(ShippedValues, TRUE) \/ UNCHANGED <<controls, rings>>
  /\ menu' = {"shipped"}
  /\ UNCHANGED <<plugin, frontend, left, making, ports, controlIn, dials, preset,
                 disk, window, memory, symapVars>>

ControlArgument ==
  /\ At("arguments")
  /\ phase' = "window"
  /\ \/ UNCHANGED <<controls, pending, crossed>>
     \/ \E i \in DOMAIN controls, v \in plugin.inputs :
          /\ controls' = [controls EXCEPT ![i].value = Put(@, "Float", v)]
          /\ Write(controls[i], <<v>>)
  /\ UNCHANGED <<plugin, frontend, left, making, ports, controlIn, dials, buf, toUi,
                 session, memory, symapVars>>

\* jalv_refresh_ui: the control at the index of each control port.
Refreshed(record) ==
  [i \in DOMAIN record |->
     IF i \in DOMAIN ports /\ ports[i].type = "control" THEN Changed(record[i])
     ELSE Quiet(record[i])]

\* build_control_widget of Qt
MadeDials ==
  [p \in {q \in DOMAIN buf : /\ ports[q + 1].type = "control"
                            /\ ~plugin.ports[q + 1].hidden} |->
     DialFor(plugin.ports[p + 1].look, plugin.ports[p + 1].default)]

\* build_control_widget and the refresh: handlers write, as nothing is being
\* updated.  Qt's dials belong to the ports, and no control knows them.
OpenWindow ==
  /\ At("window")
  /\ phase' = "running"
  /\ LET built == IF frontend # "gtk" \/ plugin.custom THEN controls
                  ELSE [i \in DOMAIN controls |->
                          IF controls[i].hidden THEN controls[i]
                          ELSE Built(controls[i])]
         after == Refreshed(built)
         sent == {i \in DOMAIN built : after[i].sent # <<>> /\ built[i].kind = "port"}
         written == {built[i].id : i \in sent}
     IN /\ controls' = [i \in DOMAIN built |-> after[i].control]
        /\ pending' = Over([p \in written |->
                              LET i == Only({j \in sent : built[j].id = p})
                              IN after[i].sent[Len(after[i].sent)]], pending)
        /\ crossed' = crossed \union (written \cap DOMAIN toUi)
  /\ dials' = IF frontend # "qt" \/ plugin.custom THEN <<>> ELSE MadeDials
  /\ UNCHANGED <<plugin, frontend, left, making, ports, controlIn, buf, toUi,
                 session, memory, symapVars>>

-----------------------------------------------------------------------------
(* The user                                                                *)

\* A number widget of GTK
UserMoves ==
  /\ At("running")
  /\ \E i \in DOMAIN controls :
       /\ controls[i].widget /\ controls[i].writable
       /\ \E s \in Moves(controls[i], plugin.inputs) :
            /\ controls' = [controls EXCEPT ![i] = s.control]
            /\ Write(controls[i], s.sent)
            /\ blocks' = blocks + Released(controls[i], s.sent)
  /\ UNCHANGED <<opening, dials, buf, toUi, session, lost, fault, symapVars>>

\* A dial of Qt writes to the ring by itself.
UserTurnsDial ==
  /\ At("running")
  /\ \E p \in DOMAIN dials :
       LET look == plugin.ports[p + 1].look
       IN \E d \in DialPositions(look) \ {dials[p]} :
            /\ dials' = [dials EXCEPT ![p] = d]
            /\ pending' = Over([q \in {p} |-> DialValue(look, d)], pending)
  /\ UNCHANGED <<opening, controls, buf, toUi, crossed, session, memory, symapVars>>

\* What the widgets do when a text was typed into them, when an update moves
\* them, and when something else has set the value.
Followed(how, control, body) ==
  CASE how = "typed"  -> Quiet([control EXCEPT !.scale = body])
    [] how = "update" -> Changed(control)
    [] how = "set"    -> Quiet(control)

\* any_value_set of a control to a value of any type, and what follows.
SetValue(how, i, type, body) ==
  \E o \in Sets(controls[i].value, type, body) :
    /\ lost + o.lost <= MaxLost
    /\ lost' = lost + o.lost
    /\ IF o.status = "undefined"
       THEN fault' = "realloc" /\ UNCHANGED <<controls, blocks>>
       ELSE /\ UNCHANGED fault
            /\ LET set == [controls[i] EXCEPT !.value = o.value]
                   s == Followed(how, set, body)
               IN /\ controls' = [controls EXCEPT ![i] = s.control]
                  /\ blocks' = blocks + o.blocks + Released(set, s.sent)

\* What is typed into an entry or chosen as a file: the widget shows it, and
\* the property is set in the plugin, which may take it or not.
UserTypes ==
  /\ At("running")
  /\ \E i \in DOMAIN controls, n \in Lengths :
       /\ controls[i].widget /\ controls[i].look = "text"
       /\ controls[i].writable
       /\ SetValue("typed", i, controls[i].type, n)
  /\ UNCHANGED <<opening, dials, rings, session, symapVars>>

\* on_request_value: the plugin's UI asks the user for a file.
RequestValue ==
  /\ At("running") /\ frontend = "gtk" /\ plugin.custom
  /\ \E id \in 1..Size, n \in Lengths : \E i \in ControlsOf(id) :
       controls[i].type = "Path" /\ SetValue("set", i, "Path", n)
  /\ UNCHANGED <<opening, dials, rings, session, symapVars>>

-----------------------------------------------------------------------------
(* The commands of the console                                             *)

\* What may be typed, as a word and its arguments.
Lines == {[word |-> w, args |-> a] :
            w \in {"presets", "preset", "controls", "set", "jump"},
            a \in {<<>>, <<"index">>, <<"name">>, <<"index", "value">>,
                  <<"name", "value">>}}

\* parse_command: `set` with an index wants the end where the value would be.
Parsed(line) ==
  LET n == Len(line.args)
  IN CASE line.word \in {"presets", "controls"} ->
            IF n = 0 THEN line.word ELSE "expected end"
       [] line.word = "preset" ->
            IF n = 0 \/ line.args[1] = "index" THEN "expected alpha"
            ELSE IF n = 1 THEN "preset" ELSE "expected end"
       [] line.word = "set" /\ n > 0 /\ line.args[1] = "index" ->
            IF n = 1 THEN "set index" ELSE "expected end"
       [] line.word = "set" /\ n > 0 /\ line.args[1] = "name" ->
            IF n = 1 THEN "expected value" ELSE "set symbol"
       [] OTHER -> "error"

Typed(status) ==
  At("running") /\ frontend = "console" /\ \E line \in Lines : Parsed(line) = status

\* set_control_from_string, of a number
SetFromString(i, v) ==
  /\ controls[i].type \in Numbers
  /\ controls' = [controls EXCEPT ![i].value = Put(@, controls[i].type, v)]
  /\ blocks' = blocks + Released(controls[i], <<v>>)
  /\ Write(controls[i], <<v>>)
  /\ UNCHANGED <<opening, dials, buf, toUi, session, lost, fault, symapVars>>

ConsoleSets ==
  /\ Typed("set symbol")
  /\ \E i \in DOMAIN controls, v \in plugin.inputs : SetFromString(i, v)

\* What is set has no value, and the control may be one of another port.
ConsoleSetsIndex ==
  /\ Typed("set index")
  /\ \E i \in DOMAIN controls : SetFromString(i, 0)

\* A text
ConsoleSetsText ==
  /\ Typed("set symbol")
  /\ \E i \in DOMAIN controls, n \in Lengths :
       controls[i].type \in Texts /\ SetValue("set", i, controls[i].type, n)
  /\ UNCHANGED <<opening, dials, rings, session, symapVars>>

\* jalv_send_to_plugin by the plugin's own UI: jalv's control is not told.
PluginUiWrites ==
  /\ At("running") /\ plugin.custom /\ frontend # "console"
  /\ \E p \in InputPorts, v \in plugin.inputs :
       /\ pending' = Over([q \in {p} |-> v], pending)
       /\ crossed' = crossed \union {p}
  /\ UNCHANGED <<opening, widgets, buf, toUi, session, memory, symapVars>>

-----------------------------------------------------------------------------
(* The process thread and jalv_update                                      *)

Process ==
  /\ At("running") /\ pending # <<>>
  /\ buf' = Over(pending, buf)
  /\ pending' = <<>>
  /\ UNCHANGED <<opening, widgets, toUi, crossed, session, memory, symapVars>>

\* A control output of the plugin, sent to the UI by PortAudio's callback,
\* which has read the ring before.
Output ==
  /\ At("running") /\ pending = <<>>
  /\ \E p \in DOMAIN buf, v \in plugin.inputs :
       /\ ports[p + 1].flow = "output" /\ ports[p + 1].type = "control"
       /\ buf[p] # v
       /\ buf' = [buf EXCEPT ![p] = v]
       /\ toUi' = Over([q \in {p} |-> v], toUi)
       /\ crossed' = crossed \ {p}
  /\ UNCHANGED <<opening, widgets, pending, session, memory, symapVars>>

\* A mutant: the handlers that an update calls write to the plugin.
EchoUpdate(control, sent) == Write(control, sent)

\* jalv_set_control returns early while `updating`.
CutUpdate(control, sent) == UNCHANGED <<pending, crossed>>

\* ui_port_event: the values in the ring reach the controls and their widgets.
PortEvent ==
  /\ At("running")
  /\ \E p \in DOMAIN toUi :
       /\ toUi' = [q \in DOMAIN toUi \ {p} |-> toUi[q]]
       /\ IF ControlsAt(p) = {}
          THEN UNCHANGED <<controls, blocks, pending, crossed>>
          ELSE LET i == Only(ControlsAt(p))
                   set == [controls[i] EXCEPT !.value = Put(@, "Float", toUi[p])]
                   s == Changed(set)
               IN /\ controls' = [controls EXCEPT ![i] = s.control]
                  /\ blocks' = blocks + Released(controls[i], <<toUi[p]>>)
                  /\ CutUpdate(controls[i], s.sent)
  /\ UNCHANGED <<opening, dials, buf, session, lost, fault, symapVars>>

\* What the plugin tells comes from its event outputs.
Notifies ==
  \E i \in DOMAIN ports : ports[i].flow = "output" /\ ports[i].type = "event"

\* A property in a patch:Set or patch:Put of the plugin, with a value of the
\* control's type or of another.
PropertyEvent ==
  /\ At("running") /\ Notifies
  /\ \E id \in 1..Size : \E i \in ControlsOf(id) :
       \/ \E n \in Lengths :
            LET type == IF controls[i].type \in Texts THEN controls[i].type
                        ELSE "String"
            IN SetValue("update", i, type, n)
       \/ \E v \in plugin.inputs : SetValue("update", i, "Int", v)
  /\ UNCHANGED <<opening, dials, rings, session, symapVars>>

\* patch_set_get wants a property, but not a value.
ValuelessSet ==
  /\ At("running") /\ Notifies
  /\ \E id \in 1..Size : ControlsOf(id) # {}
  /\ fault' = "value"
  /\ UNCHANGED <<opening, widgets, rings, session, blocks, lost, symapVars>>

-----------------------------------------------------------------------------
(* Presets                                                                 *)

\* What the menu lists when the user's preset is there, or is not.
Listed(mine) == {"shipped"} \union (IF mine = {} THEN {} ELSE {"mine"})

\* What is in the world, and what get_port_value gives of the plugin's ports.
OnDisk == Listed(disk)
PortValues == [p \in InputPorts |-> buf[p]]

Chosen(name) == IF name = "shipped" THEN Shipped ELSE Mine
ValuesOf(name) == IF name = "shipped" THEN ShippedValues ELSE Only(disk)

WindowFor(state) ==
  [title |-> state.name, save |-> state.uri = "file", delete |-> state.uri = "file"]

\* A mutant: the title changes, the actions do not.
RetitledWindow(state) == IF frontend = "gtk" THEN [window EXCEPT !.title = state.name]
                         ELSE window

\* update_window of GTK; the others have none.
UpdatedWindow(state) == IF frontend = "gtk" THEN WindowFor(state) ELSE window

\* jalv_apply_preset: the current preset is freed, and one that is not found
\* leaves none.
ApplyPreset(name) ==
  IF name \in OnDisk
  THEN /\ preset' = Chosen(name)
       /\ SetPortValues(ValuesOf(name), ~plugin.safe)
  ELSE /\ preset' = NoPreset
       /\ UNCHANGED <<controls, rings>>

\* action_load_preset compares the URIs first; a state that was not saved has
\* none to compare.  Qt's action just applies the preset.
LoadPreset ==
  /\ At("running") /\ frontend # "console"
  /\ \E name \in menu :
       IF frontend = "gtk" /\ preset = Unsaved
       THEN fault' = "uri" /\ UNCHANGED <<preset, controls, rings, window>>
       ELSE /\ frontend = "gtk" => preset # Chosen(name)
            /\ ApplyPreset(name)
            /\ window' = UpdatedWindow(preset')
            /\ UNCHANGED fault
  /\ UNCHANGED <<opening, dials, disk, menu, blocks, lost, symapVars>>

\* A preset's URI, or a URI of nothing
ConsolePreset ==
  /\ Typed("preset")
  /\ \E name \in OnDisk \union {"unknown"} : ApplyPreset(name)
  /\ UNCHANGED <<opening, dials, disk, menu, window, memory, symapVars>>

\* action_save_preset looks at the URI first, which a state that was not
\* saved has not.  The state saved becomes the current one also when saving
\* failed; the warning then prints the URI of the one that was freed.
SavePreset ==
  /\ At("running") /\ window.save
  /\ \/ preset = Unsaved /\ fault' = "uri" /\ UNCHANGED <<preset, disk>>
     \/ preset.uri = "file" /\ preset' = Mine /\ disk' = {PortValues} /\ UNCHANGED fault
     \/ preset.uri = "file" /\ preset' = Unsaved /\ fault' = "freed" /\ UNCHANGED disk
  /\ UNCHANGED <<opening, widgets, rings, menu, window, blocks, lost, symapVars>>

\* action_save_preset_as, with a name and leave to overwrite
SavePresetAs ==
  /\ At("running") /\ frontend = "gtk"
  /\ \/ /\ preset' = Mine
        /\ disk' = {PortValues}
        /\ menu' = Listed(disk')
        /\ window' = UpdatedWindow(Mine)
     \/ preset' = Unsaved /\ UNCHANGED <<disk, menu, window>>
  /\ UNCHANGED <<opening, widgets, rings, memory, symapVars>>

\* action_delete_preset: the preset is the current one no more, whether the
\* dialog was accepted, and the preset deleted, or not.
DeletePreset ==
  /\ At("running") /\ window.delete /\ preset # NoPreset
  /\ \/ /\ disk' = IF preset.uri = "file" THEN {} ELSE disk
        /\ menu' = Listed(disk')
     \/ UNCHANGED <<disk, menu>>
  /\ preset' = NoPreset
  /\ window' = UpdatedWindow(NoPreset)
  /\ UNCHANGED <<opening, widgets, rings, memory, symapVars>>

-----------------------------------------------------------------------------
Opening == \/ CreatePort \/ NextLoop \/ MarkReadable \/ MakeControl \/ MapUri
           \/ AddControl \/ PluginMaps \/ OpenState \/ ControlArgument
           \/ OpenWindow

User == \/ UserMoves \/ UserTurnsDial \/ UserTypes \/ RequestValue
        \/ PluginUiWrites \/ LoadPreset \/ SavePreset \/ SavePresetAs
        \/ DeletePreset

Command == ConsoleSets \/ ConsoleSetsIndex \/ ConsoleSetsText \/ ConsolePreset

Update == PortEvent \/ PropertyEvent \/ ValuelessSet

Next == Opening \/ User \/ Command \/ Update \/ Process \/ Output

Spec == Init /\ [][Next]_vars

-----------------------------------------------------------------------------
(* Properties                                                              *)

\* Every variable has a value of its kind.
TypeOK ==
  /\ plugin \in Plugins /\ frontend \in Frontends
  /\ phase \in {"ports", "writable", "readable", "instantiate", "arguments",
                "window", "running", "failed"}
  /\ left \subseteq plugin.properties
  /\ making \in plugin.properties \union {NoProperty}
  /\ Len(ports) <= Len(plugin.ports) /\ controlIn \in -1..(Len(ports) - 1)
  /\ \A i \in DOMAIN controls :
       /\ controls[i].look \in {"slider", "log", "combo", "switch", "spinner", "text"}
       /\ controls[i].value.type \in Texts \union Numbers \union {"none"}
       /\ controls[i].value.word \in {"zero", "number", "wide", "pointer"}
  /\ DOMAIN pending \subseteq DOMAIN buf /\ DOMAIN toUi \subseteq DOMAIN buf
  /\ crossed \subseteq DOMAIN buf
  /\ preset \in {NoPreset, Shipped, Mine, Unsaved}
  /\ menu \subseteq {"shipped", "mine"}
  /\ blocks \in Nat /\ lost \in 0..MaxLost
  /\ fault \in {"none", "realloc", "value", "uri", "freed"}
  /\ SymapTypeOK

Made == phase \in {"instantiate", "arguments", "window", "running"}

\* Every control port has its control, in the order of the ports and before
\* the properties; every writable or readable property of a known type has
\* exactly one, found by its ID unless memory ran out, with both flags when it
\* is both, in whatever order the two loops meet them.
ControlsMatch ==
  Made =>
    LET isPort(i) == controls[i].kind = "port"
        classed == {p \in DOMAIN buf : plugin.ports[p + 1].class = "control"}
        known == {q \in plugin.properties : /\ q.writable \/ q.readable
                                           /\ q.range # "none"}
    IN /\ {controls[i].id : i \in {j \in DOMAIN controls : isPort(j)}} = classed
       /\ \A i, j \in DOMAIN controls :
            (i < j /\ isPort(j)) => isPort(i) /\ controls[i].id < controls[j].id
       /\ Len(controls) = Cardinality(classed) + Cardinality(known)
       /\ \A q \in known : \E i \in DOMAIN controls :
            /\ controls[i].kind = "property" /\ controls[i].node = q.uri
            /\ controls[i].writable = q.writable
            /\ controls[i].readable = q.readable
            /\ controls[i].id # 0 =>
                 /\ symbols[controls[i].id] = q.uri
                 /\ ControlsOf(controls[i].id) = {i}

\* What the widgets of GTK show when the plugin has the value v.
Shows(control, v) ==
  CASE control.look = "switch" -> control.scale = (IF v > 0 THEN 1 ELSE 0)
    [] control.look = "combo" -> v \in Points => control.scale = v
    [] control.look = "spinner" -> control.scale = (IF v < 0 THEN 0 ELSE v)
    [] control.look = "log" ->
         /\ control.spin = Clamp(v, Lowest, Highest)
         /\ control.writable => Shown(control) = control.spin
    [] OTHER -> Shown(control) = Clamp(v, Lowest, Highest)

\* With nothing on its way, the widgets of a control show what the plugin has
\* (and a preset saved now would have), after any exchange of moves, presets
\* and updates, through the handlers that move each other.  Three exceptions:
\* an older value was on its way when the user set the control (crossed); the
\* control is not at the index of its port; the scale of a logarithmic control
\* that is not writable.
InSync ==
  (phase = "running" /\ fault = "none" /\ ~plugin.custom) =>
    \A i \in DOMAIN controls :
      LET c == controls[i]
      IN (/\ c.kind = "port" /\ c.widget /\ c.id = i - 1
          /\ c.id \notin DOMAIN pending \union DOMAIN toUi \union crossed)
           => Shows(c, buf[c.id])

\* A value's word is a pointer exactly when it is longer than one, and every
\* block has one value that points to it, except those that were lost when a
\* value of exactly a pointer's size took the place of a longer one.
StorageKept ==
  fault # "realloc" =>
    /\ \A i \in DOMAIN controls :
         IsLong(controls[i].value.size) <=> controls[i].value.word = "pointer"
    /\ blocks = lost + Cardinality({i \in DOMAIN controls :
                                      controls[i].value.word = "pointer"})

\* The window tells of the current preset and the menu of those on disk,
\* unless saving has failed: the state that could not be saved is then the
\* current one, without a URI, and the only one whose URI is misused.
WindowTellsPreset ==
  /\ (frontend = "gtk" /\ phase = "running" /\ preset # Unsaved) =>
       window = WindowFor(preset) /\ menu = OnDisk
  /\ fault \in {"uri", "freed"} => preset = Unsaved

\* Nothing that an update does comes back to the plugin, and what the user
\* does with a widget writes a value in the range, except from the last
\* position of a logarithmic dial of Qt and from a spinner without a range.
WritesMeant ==
  [][/\ Update => pending' = pending
     /\ \A p \in DOMAIN pending' :
          \/ p \in DOMAIN pending /\ pending'[p] = pending[p]
          \/ ~(UserMoves \/ UserTurnsDial)
          \/ pending'[p] \in Lowest..Highest
          \/ plugin.ports[p + 1].look \in {"spinner", "switch"}
          \/ /\ plugin.ports[p + 1].look = "log" /\ frontend = "qt"
             /\ dials'[p] = Steps]_vars
=============================================================================
