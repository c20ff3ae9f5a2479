-------------------------------- MODULE Evbuf --------------------------------
(***************************************************************************)
(* The event buffer of an event port (src/src/lv2_evbuf.c), to the byte,   *)
(* and how the program uses it: the host writes the events of an input     *)
(* port (src/src/jack.c from the beginning of the buffer, src/src/process.c*)
(* at its end), which the plugin reads in a run, and empties it after; the *)
(* plugin writes those of an output port, and the host reads them back.    *)
(*                                                                         *)
(* Sizes are 32-bit but the room that is left is computed in size_t, where *)
(* a difference below zero is a huge number.                               *)
(***************************************************************************)
EXTENDS Integers, Sequences

CONSTANTS
  Capacity,      \* evbuf->capacity: rsz:minimumSize of the port, or a default
  Sizes,         \* sizes of the bodies of events, in bytes
  Types,         \* types of events
  MayOverwrite,  \* Jack events may come upon a buffer that is not empty
  SizeMod        \* 2^64, the modulus of size_t

ASSUME EvbufAssumption ==
  /\ Capacity \in Nat /\ Capacity < SizeMod
  /\ Sizes \subseteq Nat /\ MayOverwrite \in BOOLEAN /\ SizeMod \in Nat

VARIABLES
  flow,      \* the flow of the port: "input" or "output"
  stage,     \* where the process callback is: see the actions
  atomSize,  \* buf.atom.size
  atomType,  \* buf.atom.type
  memory,    \* what is at an offset of the contents: an event, or anything
  iter,      \* the offset of the iterator jack.c writes at
  reader,    \* the offset of the iterator of who reads the buffer
  written,   \* history: the events the buffer has been given
  position,  \* history: how many of them the first iterator has passed
  read       \* history: what the reader has found

buf     == <<atomSize, atomType, memory>>
reading == <<reader, read>>
vars    == <<flow, stage, buf, iter, reading, written, position>>

AtomBytes  == 8    \* sizeof(LV2_Atom) and of LV2_Atom_Sequence_Body
EventBytes == 16   \* sizeof(LV2_Atom_Event): the header of an event

(* lv2_atom_pad_size: to the next multiple of 8. *)
PadSize(n) == ((n + 7) \div 8) * 8

Extent(event) == PadSize(EventBytes + event.size)

Events   == [size : Sizes, type : Types]
Anything == [size |-> -1]

Offsets == {8 * k : k \in 0..(Capacity \div 8)}

(* lv2_evbuf_get_size, lv2_evbuf_end and lv2_evbuf_is_valid. *)
GetSize == IF atomType = "Sequence" THEN atomSize - AtomBytes ELSE 0

End == PadSize(GetSize)

IsValid(offset) == offset < GetSize

(* A mutant: an event has room while there is any. *)
HasRoomForHeader(event) ==
  (Capacity - AtomBytes - atomSize) % SizeMod >= EventBytes

(* The check of lv2_evbuf_write, in size_t. *)
HasRoom(event) ==
  (Capacity - AtomBytes - atomSize) % SizeMod >= EventBytes + event.size

(* What lv2_evbuf_get finds at the iterator, and where lv2_evbuf_next goes  *)
(* from there; there is no telling what follows memory that holds no event. *)
Found == IF reader \in Offsets THEN memory[reader] ELSE Anything

NextOffset == IF Found = Anything THEN End ELSE reader + Extent(Found)

TypeOK ==
  /\ flow \in {"input", "output"}
  /\ stage \in {"idle", "sys", "ui", "bypass", "offered", "filling", "read"}
  /\ atomType \in {"Sequence", "Chunk"} /\ atomSize \in Nat
  /\ atomType = "Sequence" => atomSize >= AtomBytes
  /\ memory \in [Offsets -> Events \cup {Anything}]
  /\ iter \in Nat /\ reader \in Nat /\ position \in Nat
  /\ written \in Seq(Events) /\ read \in Seq(Events \cup {Anything})

(* The end of jalv_process_activate. *)
Init ==
  /\ flow \in {"input", "output"} /\ stage = "idle"
  /\ atomSize = IF flow = "input" THEN AtomBytes ELSE Capacity
  /\ atomType = IF flow = "input" THEN "Sequence" ELSE "Chunk"
  /\ memory = [o \in Offsets |-> Anything]
  /\ iter = 0 /\ reader = 0
  /\ written = <<>> /\ position = 0 /\ read = <<>>

(* An event written over what is in its place. *)
Overlaid(event, offset) ==
  [o \in Offsets |->
     IF o = offset THEN event
     ELSE IF offset < o /\ o < offset + Extent(event) THEN Anything
     ELSE memory[o]]

(* A mutant: the size of the buffer is not padded. *)
WriteUnpadded(event, offset) ==
  /\ memory' = Overlaid(event, offset)
  /\ atomSize' = atomSize + EventBytes + event.size
  /\ UNCHANGED atomType

(* lv2_evbuf_write where there is room: the buffer grows by the event. *)
Write(event, offset) ==
  /\ memory' = Overlaid(event, offset)
  /\ atomSize' = atomSize + Extent(event)
  /\ UNCHANGED atomType

(* A mutant: forgets the header of the sequence. *)
ClearToNothing ==
  /\ atomSize' = 0 /\ atomType' = "Sequence"
  /\ iter' = 0 /\ written' = <<>> /\ position' = 0
  /\ UNCHANGED <<flow, memory>>

(* lv2_evbuf_reset for input. *)
Clear ==
  /\ atomSize' = AtomBytes /\ atomType' = "Sequence"
  /\ iter' = 0 /\ written' = <<>> /\ position' = 0
  /\ UNCHANGED <<flow, memory>>

-----------------------------------------------------------------------------
(* Reading, by the plugin or by the host. *)

(* lv2_evbuf_begin. *)
BeginReading == reader' = 0 /\ read' = <<>>

(* A turn of the loop with lv2_evbuf_is_valid, _get and _next. *)
ReadEvent ==
  /\ stage = "read" /\ IsValid(reader)
  /\ read' = Append(read, Found)
  /\ reader' = NextOffset
  /\ UNCHANGED <<flow, stage, buf, iter, written, position>>

-----------------------------------------------------------------------------
(* The cycles of an input port. *)

(* The Jack callback begins to write at lv2_evbuf_begin, whatever is in    *)
(* the buffer.                                                             *)
BeginRun ==
  /\ flow = "input" /\ stage = "idle"
  /\ stage' = "sys"
  /\ iter' = 0 /\ position' = 0
  /\ UNCHANGED <<flow, buf, reading, written>>

(* The PortAudio callback empties the buffer first, and writes nothing. *)
BeginRunEmpty ==
  /\ flow = "input" /\ stage = "idle"
  /\ stage' = "ui"
  /\ Clear
  /\ UNCHANGED reading

(* Jack writes at the iterator, which moves on to the event that follows.  *)
(* What it wrote over is no longer in the buffer.                          *)
WriteAtIterator(event) ==
  /\ stage = "sys"
  /\ MayOverwrite \/ position = Len(written)
  /\ HasRoom(event)
  /\ Write(event, iter)
  /\ iter' = iter + Extent(event)
  /\ written' = IF position < Len(written)
                  THEN [written EXCEPT ![position + 1] = event]
                  ELSE Append(written, event)
  /\ position' = position + 1
  /\ UNCHANGED <<flow, stage, reading>>

(* apply_ui_events writes at lv2_evbuf_end, in a run or a bypass. *)
WriteAtEnd(event) ==
  /\ stage \in {"sys", "ui", "bypass"}
  /\ stage' = IF stage = "sys" THEN "ui" ELSE stage
  /\ HasRoom(event)
  /\ Write(event, End)
  /\ written' = Append(written, event)
  /\ UNCHANGED <<flow, iter, position, reading>>

(* The plugin runs and reads the buffer, to its end or not. *)
RunPlugin ==
  /\ stage \in {"sys", "ui"}
  /\ stage' = "read"
  /\ BeginReading
  /\ UNCHANGED <<flow, buf, iter, written, position>>

(* The plugin has run. *)
EndRun ==
  /\ flow = "input" /\ stage = "read"
  /\ stage' = "idle"
  /\ Clear
  /\ BeginReading

(* A cycle that bypasses the plugin leaves the buffer as it is. *)
BeginBypass ==
  /\ flow = "input" /\ stage = "idle"
  /\ stage' = "bypass"
  /\ UNCHANGED <<flow, buf, iter, reading, written, position>>

EndBypass ==
  /\ stage = "bypass"
  /\ stage' = "idle"
  /\ UNCHANGED <<flow, buf, iter, reading, written, position>>

-----------------------------------------------------------------------------
(* The runs of an output port. *)

(* lv2_evbuf_reset for output: the buffer is offered to the plugin, once   *)
(* the host has read what it wrote before.                                 *)
Offer ==
  /\ flow = "output"
  /\ stage = "idle" \/ (stage = "read" /\ ~IsValid(reader))
  /\ stage' = "offered"
  /\ atomSize' = Capacity /\ atomType' = "Chunk"
  /\ written' = <<>>
  /\ UNCHANGED <<flow, memory, iter, reading, position>>

(* The plugin (external) begins a sequence in what it was offered, or      *)
(* leaves it alone; it appends what fits, and returns.                     *)
PluginBegins ==
  /\ stage = "offered"
  /\ stage' = "filling"
  /\ atomSize' = AtomBytes /\ atomType' = "Sequence"
  /\ UNCHANGED <<flow, memory, iter, reading, written, position>>

PluginAppends(event) ==
  /\ stage = "filling" /\ atomSize + Extent(event) <= Capacity
  /\ Write(event, End)
  /\ written' = Append(written, event)
  /\ UNCHANGED <<flow, stage, iter, reading, position>>

(* The host begins to read. *)
PluginReturns ==
  /\ stage \in {"offered", "filling"}
  /\ stage' = "read"
  /\ BeginReading
  /\ UNCHANGED <<flow, buf, iter, written, position>>

Next ==
  \/ BeginRun \/ BeginRunEmpty \/ RunPlugin \/ EndRun \/ BeginBypass \/ EndBypass
  \/ \E event \in Events :
       WriteAtIterator(event) \/ WriteAtEnd(event) \/ PluginAppends(event)
  \/ Offer \/ PluginBegins \/ PluginReturns
  \/ ReadEvent

Spec == Init /\ [][Next]_vars

-----------------------------------------------------------------------------
(* Properties. *)

(* A reader finds exactly the events the buffer was given, in order, even  *)
(* those that wrote over others (lv2_evbuf.h of lv2_evbuf_write): what it  *)
(* has found so far is what was written first, and it comes to the end of  *)
(* the buffer when it has found it all.                                    *)
ReadsWhatWasWritten ==
  stage = "read" =>
    /\ Len(read) <= Len(written)
    /\ \A i \in DOMAIN read : read[i] = written[i]
    /\ ~IsValid(reader) => Len(read) = Len(written)

(* No event the host writes lies outside the buffer: lv2_evbuf_write fails *)
(* when there is no room.                                                  *)
WithinCapacity == flow = "input" => AtomBytes + GetSize <= Capacity

=============================================================================
