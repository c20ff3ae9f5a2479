----------------------------- MODULE EvbufProofs -----------------------------
(***************************************************************************)
(* The events that are written to an event buffer stay inside it, whatever *)
(* their sizes and their order, and who reads it finds exactly these,      *)
(* provided that the capacity of the buffer is a multiple of 8.  The proof *)
(* needs that the size of the buffer is one too, so that the room that is  *)
(* left for an event is room for its padding as well, and is never         *)
(* negative; and that the events follow each other without a gap from the  *)
(* beginning of the buffer to its end.                                     *)
(***************************************************************************)
EXTENDS Evbuf, SequenceTheorems, TLAPS

USE EvbufAssumption DEF EvbufAssumption

(* The padded size of a number is the next multiple of 8. *)
LEMMA PadSizeBounds ==
  ASSUME NEW n \in Nat
  PROVE  /\ PadSize(n) \in Nat /\ PadSize(n) % 8 = 0
         /\ n <= PadSize(n)
         /\ \A m \in Nat : m % 8 = 0 /\ n <= m => PadSize(n) <= m
<1>1. (n + 7) \div 8 \in Nat
  OBVIOUS
<1>2. n <= PadSize(n) /\ PadSize(n) <= n + 7 /\ PadSize(n) \in Nat
  BY <1>1 DEF PadSize
<1>3. PadSize(n) % 8 = 0
  BY <1>1 DEF PadSize
<1>4. ASSUME NEW m \in Nat, m % 8 = 0, n <= m
      PROVE  PadSize(n) <= m
  BY <1>2, <1>3, <1>4
<1> QED BY <1>2, <1>3, <1>4

(* An event of the host has a size and a place that are multiples of 8. *)
LEMMA ExtentType ==
  ASSUME NEW event \in Events
  PROVE  /\ EventBytes + event.size \in Nat /\ Extent(event) \in Nat
         /\ Extent(event) % 8 = 0 /\ EventBytes <= Extent(event)
         /\ \A m \in Nat : m % 8 = 0 /\ EventBytes + event.size <= m
                             => Extent(event) <= m
<1>1. event.size \in Nat /\ EventBytes + event.size \in Nat
      /\ EventBytes <= EventBytes + event.size /\ EventBytes \in Nat
  <2>1. event.size \in Sizes
    BY DEF Events
  <2>2. event.size \in Nat
    BY <2>1
  <2> QED BY <2>2 DEF EventBytes
<1> QED BY <1>1, PadSizeBounds DEF Extent

-----------------------------------------------------------------------------
(* Type correctness. *)

LEMMA OffsetType ==
  ASSUME TypeOK
  PROVE  /\ GetSize \in Nat /\ End \in Nat
         /\ Found \in Events \cup {Anything} /\ NextOffset \in Nat
<1>1. GetSize \in Nat
  BY DEF TypeOK, GetSize, AtomBytes
<1>2. End \in Nat
  BY <1>1, PadSizeBounds DEF End
<1>3. Found \in Events \cup {Anything}
  BY DEF TypeOK, Found
<1>4. NextOffset \in Nat
  <2>1. CASE Found = Anything
    BY <1>2, <2>1 DEF NextOffset
  <2>2. CASE Found # Anything
    <3>1. Extent(Found) \in Nat
      BY <1>3, <2>2, ExtentType
    <3> QED BY <2>2, <3>1 DEF NextOffset, TypeOK
  <2> QED BY <2>1, <2>2
<1> QED BY <1>1, <1>2, <1>3, <1>4

LEMMA WriteType ==
  ASSUME TypeOK, NEW event \in Events, NEW offset \in Nat, Write(event, offset)
  PROVE  /\ memory' \in [Offsets -> Events \cup {Anything}]
         /\ atomSize' \in Nat /\ atomSize <= atomSize' /\ atomType' = atomType
<1>1. Extent(event) \in Nat
  BY ExtentType
<1>2. memory' \in [Offsets -> Events \cup {Anything}]
  BY DEF Write, Overlaid, TypeOK
<1> QED BY <1>1, <1>2 DEF Write, TypeOK

LEMMA TypeInit == Init => TypeOK
BY DEF Init, TypeOK, AtomBytes

LEMMA TypeStep == TypeOK /\ [Next]_vars => TypeOK'
<1> SUFFICES ASSUME TypeOK, [Next]_vars PROVE TypeOK'
  OBVIOUS
<1> USE DEF buf, reading
<1>1. CASE BeginRun \/ BeginBypass \/ EndBypass
  BY <1>1 DEF BeginRun, BeginBypass, EndBypass, TypeOK
<1>0. <<>> \in Seq(Events) /\ <<>> \in Seq(Events \cup {Anything}) /\ 8 \in Nat
      /\ Capacity \in Nat /\ 0 \in Nat
  BY EmptySeq
<1>2. CASE BeginRunEmpty \/ EndRun
  <2>1. CASE BeginRunEmpty
    BY <1>0, <2>1 DEF BeginRunEmpty, Clear, TypeOK, AtomBytes
  <2>2. CASE EndRun
    BY <1>0, <2>2 DEF EndRun, Clear, BeginReading, TypeOK, AtomBytes
  <2> QED BY <1>2, <2>1, <2>2
<1>3. ASSUME NEW event \in Events, WriteAtIterator(event)
      PROVE  TypeOK'
  <2>1. iter \in Nat /\ Extent(event) \in Nat
    BY ExtentType DEF TypeOK
  <2>2. Write(event, iter) /\ iter' \in Nat /\ position' \in Nat
    BY <1>3, <2>1 DEF WriteAtIterator, TypeOK
  <2>3. written' \in Seq(Events)
    <3>1. CASE position < Len(written)
      BY <1>3, <3>1 DEF WriteAtIterator, TypeOK
    <3>2. CASE ~(position < Len(written))
      BY <1>3, <3>2 DEF WriteAtIterator, TypeOK
    <3> QED BY <3>1, <3>2
  <2> QED BY <1>3, <2>1, <2>2, <2>3, WriteType DEF WriteAtIterator, TypeOK, AtomBytes
<1>4. ASSUME NEW event \in Events, WriteAtEnd(event) \/ PluginAppends(event)
      PROVE  TypeOK'
  <2>1. Write(event, End) /\ End \in Nat
    BY <1>4, OffsetType DEF WriteAtEnd, PluginAppends
  <2>2. /\ written' = Append(written, event)
        /\ UNCHANGED <<flow, iter, position, reader, read>>
        /\ stage' \in {"ui", "bypass", "filling"}
    BY <1>4 DEF WriteAtEnd, PluginAppends
  <2>3. written' \in Seq(Events)
    BY <2>2 DEF TypeOK
  <2> QED BY <2>1, <2>2, <2>3, WriteType DEF TypeOK, AtomBytes
<1>5. CASE RunPlugin \/ PluginReturns
  BY <1>0, <1>5 DEF RunPlugin, PluginReturns, BeginReading, TypeOK
<1>6. CASE Offer \/ PluginBegins
  <2>1. CASE Offer
    BY <1>0, <2>1 DEF Offer, TypeOK
  <2>2. CASE PluginBegins
    BY <1>0, <2>2 DEF PluginBegins, TypeOK, AtomBytes
  <2> QED BY <1>6, <2>1, <2>2
<1>7. CASE ReadEvent
  BY <1>7, OffsetType DEF ReadEvent, TypeOK
<1>8. CASE UNCHANGED vars
  BY <1>8 DEF vars, TypeOK
<1> QED BY <1>1, <1>2, <1>3, <1>4, <1>5, <1>6, <1>7, <1>8 DEF Next

(* The buffer is a sequence with a header, or a chunk, and its contents    *)
(* are events or memory in which none is; whatever the capacity and the    *)
(* sizes of the events.                                                    *)
THEOREM TypeCorrect == Spec => []TypeOK
BY TypeInit, TypeStep, PTL DEF Spec

-----------------------------------------------------------------------------
(* Writing stays inside the buffer. *)

(* What is true of the buffer of an input port between two steps of the    *)
(* host, and makes the bound inductive.                                    *)
InputInv ==
  /\ stage \in {"sys", "ui", "bypass"} => flow = "input"
  /\ stage \in {"offered", "filling"} => flow = "output"
  /\ flow = "input" =>
       /\ atomType = "Sequence"
       /\ atomSize \in Nat /\ atomSize % 8 = 0
       /\ AtomBytes <= atomSize /\ atomSize <= Capacity - AtomBytes

(* A write that finds room leaves the size within the same bound.          *)
LEMMA WriteStaysWithin ==
  ASSUME InputInv, flow = "input", Capacity % 8 = 0,
         NEW event \in Events, NEW offset, HasRoom(event), Write(event, offset)
  PROVE  /\ atomType' = "Sequence" /\ atomSize' \in Nat /\ atomSize' % 8 = 0
         /\ AtomBytes <= atomSize' /\ atomSize' <= Capacity - AtomBytes
<1> DEFINE room == Capacity - AtomBytes - atomSize
<1>1. room \in Nat /\ room < SizeMod /\ room % 8 = 0
  BY DEF InputInv, AtomBytes
<1>2. room % SizeMod = room
  BY <1>1
<1>3. EventBytes + event.size <= room
  BY <1>2 DEF HasRoom
<1>4. Extent(event) <= room /\ Extent(event) \in Nat /\ Extent(event) % 8 = 0
  BY <1>1, <1>3, ExtentType
<1> QED BY <1>1, <1>4 DEF InputInv, Write, AtomBytes

LEMMA InputInvInit ==
  ASSUME Capacity >= 2 * AtomBytes, Init
  PROVE  InputInv
BY DEF Init, InputInv, AtomBytes

LEMMA InputInvStep ==
  ASSUME Capacity % 8 = 0, Capacity >= 2 * AtomBytes, InputInv, [Next]_vars
  PROVE  InputInv'
<1> USE DEF buf
<1>1. CASE \/ BeginRun \/ BeginBypass \/ EndBypass \/ RunPlugin \/ PluginReturns
           \/ ReadEvent
  BY <1>1 DEF BeginRun, BeginBypass, EndBypass, RunPlugin, PluginReturns, ReadEvent,
              InputInv
<1>2. CASE BeginRunEmpty \/ EndRun
  BY <1>2 DEF BeginRunEmpty, EndRun, Clear, InputInv, AtomBytes
<1>3. ASSUME NEW event \in Events, WriteAtIterator(event)
      PROVE  InputInv'
  <2>1. flow = "input" /\ flow' = flow /\ stage' = stage /\ stage = "sys"
    BY <1>3 DEF WriteAtIterator, InputInv
  <2>2. HasRoom(event) /\ Write(event, iter)
    BY <1>3 DEF WriteAtIterator
  <2> QED BY <2>1, <2>2, WriteStaysWithin DEF InputInv
<1>4. ASSUME NEW event \in Events, WriteAtEnd(event)
      PROVE  InputInv'
  <2>1. flow = "input" /\ flow' = flow /\ stage' \in {"ui", "bypass"}
    BY <1>4 DEF WriteAtEnd, InputInv
  <2>2. HasRoom(event) /\ Write(event, End)
    BY <1>4 DEF WriteAtEnd
  <2> QED BY <2>1, <2>2, WriteStaysWithin DEF InputInv
<1>5. CASE Offer \/ PluginBegins
  BY <1>5 DEF Offer, PluginBegins, InputInv
<1>6. ASSUME NEW event \in Events, PluginAppends(event)
      PROVE  InputInv'
  BY <1>6 DEF PluginAppends, InputInv
<1>7. CASE UNCHANGED vars
  BY <1>7 DEF vars, InputInv
<1> QED BY <1>1, <1>2, <1>3, <1>4, <1>5, <1>6, <1>7 DEF Next

(* The host never writes an event past the end of an input buffer whose    *)
(* capacity is a multiple of 8 and has room for the header of a sequence.  *)
THEOREM InputStaysWithin ==
  ASSUME Capacity % 8 = 0, Capacity >= 2 * AtomBytes
  PROVE  Spec => []WithinCapacity
<1>1. Init => InputInv
  BY InputInvInit
<1>2. InputInv /\ [Next]_vars => InputInv'
  BY InputInvStep
<1>3. InputInv => WithinCapacity
  BY DEF InputInv, WithinCapacity, GetSize, AtomBytes
<1> QED BY <1>1, <1>2, <1>3, PTL DEF Spec

-----------------------------------------------------------------------------
(* Reading finds what was written. *)

(* The sizes of a buffer that either side may write to. *)
SizeInv ==
  /\ atomType = "Chunk" => written = <<>>
  /\ atomType = "Sequence" => atomSize % 8 = 0 /\ atomSize <= Capacity
  /\ stage = "filling" => atomType = "Sequence"
  /\ stage = "offered" => atomType = "Chunk"

(* The places of the events that the buffer was given, and of its end: the *)
(* first is at the beginning, and each is where the one before it ends.    *)
Chain(places) ==
  /\ Len(places) = Len(written) + 1
  /\ places[1] = 0 /\ places[Len(written) + 1] = GetSize
  /\ \A i \in 1..Len(written) :
       /\ places[i] \in Offsets /\ memory[places[i]] = written[i]
       /\ places[i + 1] = places[i] + Extent(written[i])
  /\ \A i, j \in 1..(Len(written) + 1) : i < j => places[i] < places[j]

(* The reader is at the place of the event after those that it has found,  *)
(* and these are the first ones; and the iterator that jack.c writes at is *)
(* at the end when it has passed all events.                               *)
ReaderAt(places) ==
  stage = "read" =>
    /\ Len(read) <= Len(written)
    /\ reader = places[Len(read) + 1]
    /\ \A i \in DOMAIN read : read[i] = written[i]

WriterAtEnd == stage = "sys" /\ position = Len(written) => iter = GetSize

ReadingInv ==
  /\ SizeInv /\ WriterAtEnd
  /\ \E places \in Seq(Nat) : Chain(places) /\ ReaderAt(places)

LEMMA SumOfMultiples ==
  ASSUME NEW m \in Nat, NEW n \in Nat, m % 8 = 0, n % 8 = 0
  PROVE  (m + n) % 8 = 0
OBVIOUS

LEMMA OffsetsType == Offsets \subseteq Nat
BY DEF Offsets

(* An event that is written at the end of the buffer continues the chain.  *)
LEMMA ChainGrows ==
  ASSUME TypeOK, Capacity % 8 = 0, atomType = "Sequence", atomSize % 8 = 0,
         atomSize <= Capacity, NEW places \in Seq(Nat), Chain(places),
         NEW event \in Events, Write(event, GetSize), written' = Append(written, event),
         NEW new, new = Append(places, GetSize + Extent(event))
  PROVE  Chain(new)'
<1> DEFINE n == Len(written)
           g == GetSize
           e == Extent(event)
<1>1. /\ g \in Nat /\ g % 8 = 0 /\ g <= Capacity /\ e \in Nat /\ 0 < e
      /\ GetSize' = g + e
  <2>1. e \in Nat /\ EventBytes <= e
    BY ExtentType
  <2>2. GetSize = atomSize - 8 /\ atomSize >= 8 /\ atomSize \in Nat
    BY DEF GetSize, TypeOK, AtomBytes
  <2>3. GetSize' = atomSize' - 8 /\ atomSize' = atomSize + e
    BY DEF GetSize, Write, AtomBytes
  <2> QED BY <2>1, <2>2, <2>3 DEF EventBytes
<1>2. g \in Offsets
  <2>1. g \div 8 \in 0..(Capacity \div 8) /\ g = 8 * (g \div 8)
    BY <1>1
  <2> QED BY <2>1 DEF Offsets
<1>3. /\ n \in Nat /\ Len(written') = n + 1 /\ written'[n + 1] = event
      /\ \A i \in 1..n : written'[i] = written[i]
  BY DEF TypeOK
<1>4. /\ Len(places) = n + 1 /\ Len(new) = n + 2 /\ new[n + 2] = g + e
      /\ \A i \in 1..(n + 1) : new[i] = places[i] /\ places[i] \in Nat
  <2>1. Len(places) = n + 1 /\ g + e \in Nat
    BY <1>1 DEF Chain
  <2> QED BY <1>3, <2>1
<1>5. /\ places[1] = 0 /\ places[n + 1] = g
      /\ \A i \in 1..n : /\ places[i] \in Offsets /\ memory[places[i]] = written[i]
                         /\ places[i + 1] = places[i] + Extent(written[i])
      /\ \A i, j \in 1..(n + 1) : i < j => places[i] < places[j]
  BY DEF Chain
<1>6. memory' = [o \in Offsets |->
                   IF o = g THEN event
                   ELSE IF g < o /\ o < g + e THEN Anything ELSE memory[o]]
  BY DEF Write, Overlaid
<1>0. n \in Nat
  BY <1>3
<1>11. memory'[g] = event /\ \A o \in Offsets : o < g => memory'[o] = memory[o]
  BY <1>1, <1>2, <1>6, OffsetsType
<1>12. Chain(new)' <=>
         /\ Len(new) = Len(written') + 1
         /\ new[1] = 0 /\ new[Len(written') + 1] = GetSize'
         /\ \A i \in 1..Len(written') :
              /\ new[i] \in Offsets /\ memory'[new[i]] = written'[i]
              /\ new[i + 1] = new[i] + Extent(written'[i])
         /\ \A i, j \in 1..(Len(written') + 1) : i < j => new[i] < new[j]
  BY DEF Chain, Offsets, Extent, PadSize, EventBytes
<1> HIDE DEF g, e, n
<1>7. ASSUME NEW i \in 1..(n + 1)
      PROVE  /\ new[i] \in Offsets /\ memory'[new[i]] = written'[i]
             /\ new[i + 1] = new[i] + Extent(written'[i])
  <2>1. CASE i = n + 1
    <3>1. i + 1 = n + 2 /\ n + 1 \in 1..(n + 1)
      BY <1>0, <2>1
    <3>2. new[i] = g /\ new[i + 1] = g + e
      BY <1>4, <1>5, <2>1, <3>1
    <3> QED BY <1>2, <1>3, <1>11, <2>1, <3>2 DEF e
  <2>2. CASE i # n + 1
    <3>1. /\ i \in 1..n /\ i \in 1..(n + 1) /\ i < n + 1
          /\ i + 1 \in 1..(n + 1) /\ n + 1 \in 1..(n + 1)
      BY <1>0, <2>2
    <3>2. places[i] < g /\ places[i] \in Nat /\ places[i] \in Offsets
      BY <1>4, <1>5, <3>1
    <3>3. memory'[places[i]] = memory[places[i]]
      BY <1>11, <3>2
    <3> QED BY <1>3, <1>4, <1>5, <3>1, <3>3
  <2> QED BY <2>1, <2>2
<1>8. ASSUME NEW i \in 1..(n + 2), NEW j \in 1..(n + 2), i < j
      PROVE  new[i] < new[j]
  <2>1. CASE j = n + 2
    <3>1. i \in 1..(n + 1) /\ n + 1 \in 1..(n + 1) /\ (i < n + 1 \/ i = n + 1)
      BY <1>0, <1>8, <2>1
    <3>2. places[i] <= g /\ places[i] \in Nat
      BY <1>1, <1>4, <1>5, <3>1
    <3>3. new[i] = places[i] /\ new[j] = g + e
      BY <1>4, <2>1, <3>1
    <3>4. places[i] \in Nat /\ g \in Nat /\ e \in Nat /\ 0 < e /\ places[i] <= g
      BY <1>1, <3>2
    <3>5. places[i] < g + e
      BY <3>4
    <3> QED BY <3>3, <3>5
  <2>2. CASE j # n + 2
    <3>1. i \in 1..(n + 1) /\ j \in 1..(n + 1)
      BY <1>0, <1>8, <2>2
    <3> QED BY <1>4, <1>5, <1>8, <3>1
  <2> QED BY <2>1, <2>2
<1>9. new[1] = 0
  BY <1>3, <1>4, <1>5
<1>10. /\ Len(new) = Len(written') + 1 /\ new[Len(written') + 1] = GetSize'
  <2>1. (n + 1) + 1 = n + 2
    BY <1>0
  <2> QED BY <1>1, <1>3, <1>4, <2>1
<1>13. 1..Len(written') = 1..(n + 1) /\ 1..(Len(written') + 1) = 1..(n + 2)
  BY <1>0, <1>3
<1> QED BY <1>7, <1>8, <1>9, <1>10, <1>12, <1>13

LEMMA EndIsSize ==
  ASSUME TypeOK, atomType = "Sequence", atomSize % 8 = 0
  PROVE  End = GetSize
<1>1. GetSize = atomSize - 8 /\ GetSize \in Nat /\ GetSize % 8 = 0
  BY DEF TypeOK, GetSize, AtomBytes
<1>2. /\ PadSize(GetSize) \in Nat
      /\ GetSize <= PadSize(GetSize) /\ PadSize(GetSize) <= GetSize
  BY <1>1, PadSizeBounds
<1> QED BY <1>1, <1>2 DEF End

(* An empty buffer is a chain of no events, and a step that does not touch *)
(* the buffer leaves the chain as it is.                                   *)
LEMMA EmptyChain ==
  ASSUME written' = <<>>, GetSize' = 0, stage' # "read"
  PROVE  \E places \in Seq(Nat) : (Chain(places) /\ ReaderAt(places))'
<1> DEFINE places == <<0>>
<1>1. /\ places \in Seq(Nat) /\ Len(places) = 1 /\ places[1] = 0
  OBVIOUS
<1> HIDE DEF places
<1>2. Len(written') = 0
  OBVIOUS
<1>3. Chain(places)'
  BY <1>1, <1>2 DEF Chain
<1>4. ReaderAt(places)'
  BY DEF ReaderAt
<1> QED BY <1>1, <1>3, <1>4

LEMMA SameChain ==
  ASSUME UNCHANGED <<atomSize, atomType, memory, written>>,
         NEW places, Chain(places)
  PROVE  Chain(places)'
BY DEF Chain, GetSize, Offsets, Extent, PadSize, EventBytes, AtomBytes

LEMMA ReadingInvInit == ASSUME Capacity >= 2 * AtomBytes, Init PROVE ReadingInv
<1> DEFINE places == <<0>>
<1>1. places \in Seq(Nat) /\ Len(places) = 1 /\ places[1] = 0
  OBVIOUS
<1> HIDE DEF places
<1>2. Len(written) = 0 /\ GetSize = 0
  BY DEF Init, GetSize, AtomBytes
<1>3. Chain(places)
  BY <1>1, <1>2 DEF Chain
<1>4. ReaderAt(places) /\ SizeInv /\ WriterAtEnd
  BY DEF Init, ReaderAt, SizeInv, WriterAtEnd, AtomBytes
<1> QED BY <1>1, <1>3, <1>4 DEF ReadingInv

(* Writing an event at the end. *)
LEMMA WriteKeepsChain ==
  ASSUME TypeOK, Capacity % 8 = 0, ReadingInv,
         atomType = "Sequence", atomSize % 8 = 0, atomSize <= Capacity,
         NEW event \in Events, Write(event, GetSize),
         written' = Append(written, event), stage' # "read"
  PROVE  \E places \in Seq(Nat) : (Chain(places) /\ ReaderAt(places))'
<1>1. PICK places \in Seq(Nat) : Chain(places)
  BY DEF ReadingInv
<1>2. PICK new : new = Append(places, GetSize + Extent(event))
  OBVIOUS
<1>3. Chain(new)'
  BY <1>1, <1>2, ChainGrows
<1>4. new \in Seq(Nat)
  <2>1. GetSize + Extent(event) \in Nat
    BY OffsetType, ExtentType
  <2> QED BY <1>2, <2>1
<1>5. ReaderAt(new)'
  BY DEF ReaderAt
<1> QED BY <1>3, <1>4, <1>5

LEMMA ReadingInvStep ==
  ASSUME Capacity % 8 = 0, Capacity >= 2 * AtomBytes, ~MayOverwrite,
         TypeOK, InputInv, InputInv', ReadingInv, [Next]_vars
  PROVE  ReadingInv'
<1> USE DEF buf, reading
<1>1. PICK places \in Seq(Nat) : Chain(places) /\ ReaderAt(places)
  BY DEF ReadingInv
<1>2. /\ SizeInv /\ WriterAtEnd /\ Len(written) \in Nat /\ Len(read) \in Nat
      /\ \A i \in 1..(Len(written) + 1) : places[i] \in Nat
  <2>1. SizeInv /\ WriterAtEnd
    BY DEF ReadingInv
  <2>2. written \in Seq(Events) /\ read \in Seq(Events \cup {Anything})
    BY DEF TypeOK
  <2>3. Len(written) \in Nat /\ Len(read) \in Nat
    BY <2>2
  <2>4. Len(places) = Len(written) + 1
    BY <1>1 DEF Chain
  <2>5. \A i \in 1..Len(places) : places[i] \in Nat
    OBVIOUS
  <2> QED BY <2>1, <2>3, <2>4, <2>5
<1>3. ASSUME UNCHANGED <<atomSize, atomType, memory, written>>, stage' # "filling",
             stage' \notin {"read", "offered"}, WriterAtEnd'
      PROVE  ReadingInv'
  BY <1>1, <1>2, <1>3, SameChain DEF ReadingInv, SizeInv, ReaderAt
<1>4. CASE BeginRun
  <2>1. position' = 0 /\ iter' = 0 /\ stage' = "sys" /\ flow = "input"
        /\ UNCHANGED <<atomSize, atomType, memory, written>>
    BY <1>4 DEF BeginRun
  <2>2. Len(written) = 0 => GetSize = 0
    BY <1>1 DEF Chain
  <2>3. GetSize' = GetSize
    BY <2>1 DEF GetSize, AtomBytes
  <2> QED BY <1>3, <2>1, <2>2, <2>3 DEF WriterAtEnd
<1>5. CASE BeginBypass \/ EndBypass
  BY <1>3, <1>5 DEF BeginBypass, EndBypass, WriterAtEnd
<1>6. CASE BeginRunEmpty \/ EndRun
  <2>1. atomSize' = 8 /\ atomType' = "Sequence" /\ written' = <<>>
        /\ stage' \in {"ui", "idle"}
    BY <1>6 DEF BeginRunEmpty, EndRun, Clear, AtomBytes
  <2>2. GetSize' = 0
    BY <2>1 DEF GetSize, AtomBytes
  <2>3. SizeInv' /\ WriterAtEnd'
    BY <2>1 DEF SizeInv, WriterAtEnd, AtomBytes
  <2> QED BY <2>1, <2>2, <2>3, EmptyChain DEF ReadingInv
<1>7. ASSUME NEW event \in Events, WriteAtIterator(event)
      PROVE  ReadingInv'
  <2>1. /\ stage = "sys" /\ stage' = "sys" /\ flow = "input" /\ flow' = "input"
        /\ position = Len(written) /\ iter = GetSize
    BY <1>2, <1>7 DEF WriteAtIterator, WriterAtEnd, InputInv
  <2>2. /\ Write(event, GetSize) /\ written' = Append(written, event)
        /\ iter' = GetSize + Extent(event) /\ position' = Len(written) + 1
    BY <1>2, <1>7, <2>1 DEF WriteAtIterator
  <2>3. /\ atomType = "Sequence" /\ atomSize % 8 = 0 /\ atomSize <= Capacity
        /\ atomType' = "Sequence" /\ atomSize' % 8 = 0 /\ atomSize' <= Capacity
    BY <2>1 DEF InputInv, AtomBytes
  <2>4. GetSize' = iter'
    BY <2>2, <2>3, ExtentType DEF GetSize, Write, AtomBytes, TypeOK
  <2>5. SizeInv' /\ WriterAtEnd'
    BY <2>1, <2>3, <2>4 DEF SizeInv, WriterAtEnd
  <2> QED BY <2>1, <2>2, <2>3, <2>5, WriteKeepsChain DEF ReadingInv
<1>8. ASSUME NEW event \in Events, WriteAtEnd(event)
      PROVE  ReadingInv'
  <2>1. /\ stage' \in {"ui", "bypass"} /\ flow = "input" /\ flow' = "input"
        /\ Write(event, End) /\ written' = Append(written, event)
    BY <1>8 DEF WriteAtEnd, InputInv
  <2>2. /\ atomType = "Sequence" /\ atomSize % 8 = 0 /\ atomSize <= Capacity
        /\ atomType' = "Sequence" /\ atomSize' % 8 = 0 /\ atomSize' <= Capacity
    BY <2>1 DEF InputInv, AtomBytes
  <2>3. SizeInv' /\ WriterAtEnd'
    BY <2>1, <2>2 DEF SizeInv, WriterAtEnd
  <2> QED BY <2>1, <2>2, <2>3, EndIsSize, WriteKeepsChain DEF ReadingInv
<1>9. CASE RunPlugin \/ PluginReturns
  <2>1. /\ stage' = "read" /\ reader' = 0 /\ read' = <<>>
        /\ UNCHANGED <<atomSize, atomType, memory, written>>
    BY <1>9 DEF RunPlugin, PluginReturns, BeginReading
  <2>2. Len(read') = 0 /\ DOMAIN read' = {}
    BY <2>1
  <2>3. ReaderAt(places)'
    BY <1>1, <1>2, <2>1, <2>2 DEF ReaderAt, Chain
  <2>4. SizeInv' /\ WriterAtEnd'
    BY <1>2, <2>1 DEF SizeInv, WriterAtEnd
  <2> QED BY <1>1, <2>1, <2>3, <2>4, SameChain DEF ReadingInv
<1>10. CASE Offer
  <2>1. atomType' = "Chunk" /\ written' = <<>> /\ stage' = "offered"
    BY <1>10 DEF Offer
  <2>2. GetSize' = 0
    BY <2>1 DEF GetSize
  <2>3. SizeInv' /\ WriterAtEnd'
    BY <2>1 DEF SizeInv, WriterAtEnd
  <2> QED BY <2>1, <2>2, <2>3, EmptyChain DEF ReadingInv
<1>11. CASE PluginBegins
  <2>1. atomSize' = 8 /\ atomType' = "Sequence" /\ stage' = "filling"
        /\ written' = <<>>
    BY <1>2, <1>11 DEF PluginBegins, AtomBytes, SizeInv
  <2>2. GetSize' = 0
    BY <2>1 DEF GetSize, AtomBytes
  <2>3. SizeInv' /\ WriterAtEnd'
    BY <2>1 DEF SizeInv, WriterAtEnd, AtomBytes
  <2> QED BY <2>1, <2>2, <2>3, EmptyChain DEF ReadingInv
<1>12. ASSUME NEW event \in Events, PluginAppends(event)
       PROVE  ReadingInv'
  <2>1. /\ stage = "filling" /\ stage' = "filling" /\ Write(event, End)
        /\ written' = Append(written, event) /\ atomSize + Extent(event) <= Capacity
    BY <1>12 DEF PluginAppends
  <2>2. atomType = "Sequence" /\ atomSize % 8 = 0 /\ atomSize <= Capacity
    BY <1>2, <2>1 DEF SizeInv
  <2>3. atomType' = "Sequence" /\ atomSize' % 8 = 0 /\ atomSize' <= Capacity
    <3>1. /\ Extent(event) \in Nat /\ Extent(event) % 8 = 0 /\ atomSize \in Nat
          /\ atomSize' = atomSize + Extent(event) /\ atomType' = atomType
      BY <2>1, ExtentType DEF Write, TypeOK
    <3>2. atomSize' % 8 = 0
      BY <2>2, <3>1, SumOfMultiples
    <3> QED BY <2>1, <2>2, <3>1, <3>2
  <2>4. SizeInv' /\ WriterAtEnd'
    BY <2>1, <2>3 DEF SizeInv, WriterAtEnd
  <2> QED BY <2>1, <2>2, <2>4, EndIsSize, WriteKeepsChain DEF ReadingInv
<1>13. CASE ReadEvent
  <2>1. /\ stage = "read" /\ stage' = "read" /\ reader < GetSize
        /\ read' = Append(read, Found) /\ reader' = NextOffset
        /\ UNCHANGED <<atomSize, atomType, memory, written>>
    BY <1>13 DEF ReadEvent, IsValid
  <2>2. /\ Len(read) <= Len(written) /\ reader = places[Len(read) + 1]
        /\ \A i \in DOMAIN read : read[i] = written[i]
    BY <1>1, <2>1 DEF ReaderAt
  <2>3. Len(read) < Len(written)
    <3>1. places[Len(written) + 1] = GetSize /\ reader \in Nat
      BY <1>1 DEF Chain, TypeOK
    <3> QED BY <1>2, <2>1, <2>2, <3>1
  <2>4. PICK k \in 1..Len(written) : k = Len(read) + 1
    BY <1>2, <2>3
  <2>5. /\ Found = written[k] /\ written[k] \in Events
        /\ places[k + 1] = reader + Extent(written[k])
    <3>1. /\ reader = places[k] /\ places[k] \in Offsets
          /\ memory[places[k]] = written[k]
          /\ places[k + 1] = places[k] + Extent(written[k])
      BY <1>1, <2>2, <2>4 DEF Chain
    <3>2. written[k] \in Events
      BY <2>4 DEF TypeOK
    <3> QED BY <3>1, <3>2 DEF Found
  <2>6. Found # Anything
    <3>1. Found.size \in Nat
      BY <2>5 DEF Events
    <3> QED BY <3>1 DEF Anything
  <2>7. reader' = places[k + 1]
    BY <2>1, <2>5, <2>6 DEF NextOffset
  <2>8. /\ Len(read') = k /\ DOMAIN read' = 1..k /\ read'[k] = written[k]
        /\ \A i \in 1..k : i # k => read'[i] = read[i] /\ i \in DOMAIN read
    <3>1. Found \in Events \cup {Anything} /\ read \in Seq(Events \cup {Anything})
      BY OffsetType DEF TypeOK
    <3> QED BY <1>2, <2>1, <2>4, <2>5, <3>1
  <2>9. ReaderAt(places)'
    BY <2>1, <2>2, <2>4, <2>7, <2>8 DEF ReaderAt
  <2>10. SizeInv' /\ WriterAtEnd'
    BY <1>2, <2>1 DEF SizeInv, WriterAtEnd
  <2> QED BY <1>1, <2>1, <2>9, <2>10, SameChain DEF ReadingInv
<1>14. CASE UNCHANGED vars
  <2>1. ReaderAt(places)' /\ SizeInv' /\ WriterAtEnd'
    BY <1>1, <1>2, <1>14 DEF vars, ReaderAt, SizeInv, WriterAtEnd, GetSize, AtomBytes
  <2> QED BY <1>1, <1>14, <2>1, SameChain DEF ReadingInv, vars
<1> QED
  BY <1>4, <1>5, <1>6, <1>7, <1>8, <1>9, <1>10, <1>11, <1>12, <1>13, <1>14 DEF Next

LEMMA ReadingIsRight ==
  ASSUME TypeOK, ReadingInv
  PROVE  ReadsWhatWasWritten
<1> SUFFICES ASSUME stage = "read" PROVE ReadsWhatWasWritten
  BY DEF ReadsWhatWasWritten
<1>1. PICK places \in Seq(Nat) : Chain(places) /\ ReaderAt(places)
  BY DEF ReadingInv
<1>2. /\ Len(read) <= Len(written) /\ reader = places[Len(read) + 1]
      /\ \A i \in DOMAIN read : read[i] = written[i]
  BY <1>1 DEF ReaderAt
<1>3. ASSUME ~IsValid(reader)
      PROVE  Len(read) = Len(written)
  <2> SUFFICES ASSUME Len(read) # Len(written) PROVE FALSE
    OBVIOUS
  <2>1. Len(read) \in Nat /\ Len(written) \in Nat /\ Len(read) < Len(written)
    BY <1>2 DEF TypeOK
  <2>2. places[Len(read) + 1] < places[Len(written) + 1]
    BY <1>1, <2>1 DEF Chain
  <2>3. places[Len(written) + 1] = GetSize /\ GetSize \in Nat /\ reader \in Nat
    BY <1>1, OffsetType DEF Chain, TypeOK
  <2> QED BY <1>2, <1>3, <2>2, <2>3 DEF IsValid
<1> QED BY <1>2, <1>3 DEF ReadsWhatWasWritten

(* Whoever reads the buffer finds exactly the events that were written to  *)
(* it, in order: for any number of events of any sizes, written by Jack    *)
(* and by apply_ui_events, over several cycles when some are bypassed, or  *)
(* by the plugin.                                                          *)
THEOREM ReaderFindsWritten ==
  ASSUME Capacity % 8 = 0, Capacity >= 2 * AtomBytes, ~MayOverwrite
  PROVE  Spec => []ReadsWhatWasWritten
<1> DEFINE Inv == TypeOK /\ InputInv /\ ReadingInv
<1>1. Init => Inv
  BY InputInvInit, ReadingInvInit, TypeInit
<1>2. Inv /\ [Next]_vars => Inv'
  BY InputInvStep, ReadingInvStep, TypeStep
<1>3. Inv => ReadsWhatWasWritten
  BY ReadingIsRight
<1> QED BY <1>1, <1>2, <1>3, PTL DEF Spec

=============================================================================
