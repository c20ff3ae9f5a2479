------------------------------ MODULE MCPanel ------------------------------
(* The plugins of the run: each is there for something that may go wrong.  *)
EXTENDS Panel

Port(flow, class, look) ==
  [flow |-> flow, class |-> class, look |-> look, default |-> 1, number |-> "Float",
   optional |-> FALSE, primary |-> FALSE, hidden |-> FALSE]

Property(uri, writable, readable, range) ==
  [uri |-> uri, writable |-> writable, readable |-> readable, range |-> range]

Device(portSeq, properties) ==
  [ports |-> portSeq, properties |-> properties, inputs |-> {0, 2, 4},
   maps |-> {}, shipped |-> 2, safe |-> FALSE, custom |-> FALSE]

EventIn == [Port("input", "atom", "none") EXCEPT !.primary = TRUE]
EventOut == Port("output", "atom", "none")

\* A logarithmic control; the same with a restore() that needs no pause, and
\* with the plugin's own UI.
Gain == Device(<<Port("input", "control", "log")>>, {})
SafeGain == [Gain EXCEPT !.safe = TRUE]
CustomGain == [Gain EXCEPT !.custom = TRUE]

\* Controls behind a port that is none, and outputs.
Shifted == [Device(<<Port("input", "audio", "none"),
                     Port("input", "control", "slider"),
                     Port("output", "control", "slider")>>, {})
              EXCEPT !.inputs = {2, 4}]
Meters == [Device(<<Port("input", "control", "combo"),
                    Port("output", "control", "log")>>, {})
             EXCEPT !.inputs = {1, 2}]

\* Widgets without a range, with a preset below FLT_MIN.
Spinner == [Device(<<Port("input", "control", "spinner")>>, {})
              EXCEPT !.inputs = {0, 1, 2}, !.shipped = 0 - 1]
Switch == [Device(<<[Port("input", "control", "switch") EXCEPT !.number = "Int"]>>, {})
             EXCEPT !.inputs = {0, 1, 2}]

\* Properties of every kind, and every order of four URIs.
Sampler == [Device(<<EventIn, EventIn, EventOut>>,
                   {Property(2, TRUE, TRUE, "Path"), Property(1, TRUE, FALSE, "Int"),
                    Property(3, FALSE, TRUE, "none")})
              EXCEPT !.inputs = {0, 2}]
Namer == [Device(<<EventOut>>, {Property(3, FALSE, TRUE, "String"),
                               Property(2, TRUE, FALSE, "Path")})
            EXCEPT !.custom = TRUE]
Mapper == [Device(<<>>, {Property(2, TRUE, TRUE, "Int"), Property(3, TRUE, TRUE, "none")})
             EXCEPT !.maps = Symbol]

\* Ports of unknown kinds
Optional == [Port("none", "other", "none") EXCEPT !.optional = TRUE]
Odd == Device(<<Optional, [Port("input", "control", "slider") EXCEPT !.hidden = TRUE]>>, {})
Unknown == Device(<<Port("input", "control", "log"), Port("input", "other", "none")>>, {})

AllPlugins == {Gain, SafeGain, CustomGain, Shifted, Meters, Spinner, Switch, Sampler,
               Namer, Mapper, Odd, Unknown}
=============================================================================
