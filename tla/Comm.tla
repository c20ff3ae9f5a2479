-------------------------------- MODULE Comm --------------------------------
(***************************************************************************)
(* The messages of the communication rings between the main thread and the *)
(* audio thread (src/src/comm.h, src/src/comm.c), and the one-reader       *)
(* one-writer byte ring that carries them (zix_ring, outside src/).        *)
(*                                                                         *)
(* A ring is the sequence of the whole messages in it: jalv_write_control  *)
(* and jalv_write_split_message commit a header together with its body or  *)
(* nothing at all, so a reader never finds a part of a message.  What is   *)
(* kept of a message's data is its type, its payload and its size in       *)
(* bytes, which decides whether it still fits.                             *)
(***************************************************************************)
EXTENDS Naturals, Sequences, SequencesExt

(* sizeof(JalvMessageHeader), and the sizes of the payloads. *)
HeaderBytes  == 8
ControlBytes == 8
RunBytes     == 4
EventBytes   == 28     \* JalvEventTransfer, 12, with an atom body of 16

ControlPortChange(port, value) ==
  [type |-> "CONTROL_PORT_CHANGE", port |-> port, value |-> value]

EventTransfer == [type |-> "EVENT_TRANSFER"]

StateRequest == [type |-> "STATE_REQUEST"]

RunStateChange(state) == [type |-> "RUN_STATE_CHANGE", state |-> state]

ControlMessages(ports, values) ==
  [type : {"CONTROL_PORT_CHANGE"}, port : ports, value : values]

RunStates == {"JALV_RUNNING", "JALV_PAUSED"}

RunMessages == [type : {"RUN_STATE_CHANGE"}, state : RunStates]

(* The bytes a message takes in the ring, its header included. *)
MessageBytes(m) ==
  HeaderBytes + CASE m.type = "CONTROL_PORT_CHANGE" -> ControlBytes
                  [] m.type = "RUN_STATE_CHANGE"    -> RunBytes
                  [] m.type = "EVENT_TRANSFER"      -> EventBytes
                  [] m.type = "STATE_REQUEST"       -> 0

UsedBytes(ring) == FoldLeft(LAMBDA n, m : n + MessageBytes(m), 0, ring)

(* zix_ring_write and a zix_ring transaction succeed only when the whole   *)
(* message fits in what is left of the capacity.                           *)
Fits(ring, m, capacity) == UsedBytes(ring) + MessageBytes(m) <= capacity

(* The ring after an attempt to write a message. *)
Written(ring, m, capacity) ==
  IF Fits(ring, m, capacity) THEN Append(ring, m) ELSE ring

=============================================================================
