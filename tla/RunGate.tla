------------------------------- MODULE RunGate -------------------------------
(***************************************************************************)
(* What pausing promises (jalv_apply_state in src/src/state.c against the  *)
(* process callbacks): a gate that the audio thread shuts and opens at the *)
(* request of the main thread, and through which it must go to run the     *)
(* plugin.  Once the main thread holds the gate, it stays shut until the   *)
(* main thread lets go of it, so that no run begins in between.            *)
(*                                                                         *)
(* The promise is no stronger than that: a run that had begun when the     *)
(* gate was shut goes on.  A request can be lost, and so can a release,    *)
(* which leaves the gate shut for ever.                                    *)
(***************************************************************************)
VARIABLES
  started,  \* the plugin has been activated
  gate,     \* "open" or "shut"
  holder,   \* the main thread: "none", "asking", "holding" or "leaving"
  inside    \* the audio thread is in a cycle that runs the plugin

vars == <<started, gate, holder, inside>>

Init == started = FALSE /\ gate = "shut" /\ holder = "none" /\ inside = FALSE

(* Activation opens the gate for the first time. *)
Start ==
  /\ ~started /\ holder = "none"
  /\ started' = TRUE /\ gate' = "open"
  /\ UNCHANGED <<holder, inside>>

Ask ==
  /\ started /\ gate = "open" /\ holder = "none"
  /\ holder' = "asking"
  /\ UNCHANGED <<started, gate, inside>>

Shut ==
  /\ holder = "asking" /\ gate = "open"
  /\ gate' = "shut"
  /\ UNCHANGED <<started, holder, inside>>

Hold ==
  /\ holder = "asking" /\ gate = "shut"
  /\ holder' = "holding"
  /\ UNCHANGED <<started, gate, inside>>

(* The main thread lets go; its release is on its way, or is lost. *)
Leave ==
  /\ holder = "holding"
  /\ holder' \in {"leaving", "none"}
  /\ UNCHANGED <<started, gate, inside>>

Open ==
  /\ holder = "leaving"
  /\ holder' = "none" /\ gate' = "open"
  /\ UNCHANGED <<started, inside>>

Enter ==
  /\ gate = "open" /\ ~inside
  /\ inside' = TRUE
  /\ UNCHANGED <<started, gate, holder>>

Exit ==
  /\ inside
  /\ inside' = FALSE
  /\ UNCHANGED <<started, gate, holder>>

Next == Start \/ Ask \/ Shut \/ Hold \/ Leave \/ Open \/ Enter \/ Exit

Spec == Init /\ [][Next]_vars
=============================================================================
