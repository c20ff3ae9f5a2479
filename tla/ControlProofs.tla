---------------------------- MODULE ControlProofs ----------------------------
(***************************************************************************)
(* What is proved of the controls and the window of Panel, for every       *)
(* plugin: the types; that a block of memory is the value of one control   *)
(* or one that was lost; that the widgets of GTK show what the plugin has; *)
(* that what the user does with them writes what it should; and that the   *)
(* ports and the properties of the plugin have their records. Three        *)
(* invariants are behind it, each on top of the ones before and of Symap's *)
(* for the map of URIs: PanelInv has the types and the counts of blocks,   *)
(* SyncInv what is in each place that a value passes through, and MatchInv *)
(* what the loops of jalv_create_controls have and have not come to.       *)
(***************************************************************************)
EXTENDS PanelProofs, FunctionTheorems, SequenceTheorems, FiniteSetTheorems

ValueRecord ==
  [size : Nat, type : Texts \union Numbers \union {"none"}, body : Int,
   word : {"zero", "number", "wide", "pointer"}]

\* A value holds a pointer exactly when it is longer than one.
ValueOK(v) ==
  /\ v \in ValueRecord
  /\ IsLong(v.size) <=> v.word = "pointer"
  /\ v.type \in Numbers => v.size = 4 /\ v.body \in Values

\* What may be in a value of a type.
Fits(type, body) ==
  /\ type \in Texts => body \in Nat
  /\ type \in Numbers => body \in Values

Held(v) == IF v.word = "pointer" THEN 1 ELSE 0

-----------------------------------------------------------------------------
LEMMA TypesApart ==
  /\ "String" \in Texts /\ "Path" \in Texts /\ "Float" \in Numbers /\ "Int" \in Numbers
  /\ Texts \cap Numbers = {} /\ "none" \notin Texts /\ "none" \notin Numbers
BY DEF Texts, Numbers

LEMMA ValuesAre == Values \subseteq Int /\ Marks \subseteq Values /\ 0 \in Values /\ Points \subseteq Marks
BY DEF Values, Marks, Points, Lowest, Highest

LEMMA NoValueOK == ValueOK(NoValue) /\ Held(NoValue) = 0
BY DEF ValueOK, ValueRecord, NoValue, IsLong, Numbers, Held

\* The word is a pointer exactly when the value is longer than one.
LEMMA WordIs ==
  ASSUME NEW v, ValueOK(v), NEW type \in Texts \union Numbers, NEW body,
         Fits(type, body), NEW word \in WordsOf(v, type, body)
  PROVE  /\ word \in {"zero", "number", "wide", "pointer"}
         /\ word = "pointer" <=> IsLong(SizeOf(type, body))
<1> DEFINE size == SizeOf(type, body)
           old  == ResetFor(v, size)
<1>1. /\ v.word \in {"zero", "number", "wide", "pointer"} /\ v.size \in Nat
      /\ v.word = "pointer" <=> v.size > 8
  BY DEF ValueOK, ValueRecord, IsLong
<1>2. size \in Nat /\ old.word \in {"zero", "number", "wide", "pointer"}
      /\ (old.word = "pointer" => size >= 8)
  <2>1. size \in Nat
    BY DEF SizeOf, Fits
  <2>2. CASE v.size > 8 /\ size < 8
    BY <2>1, <2>2 DEF ResetFor, IsLong, NoValue
  <2>3. CASE ~(v.size > 8 /\ size < 8)
    BY <1>1, <2>1, <2>3 DEF ResetFor, IsLong
  <2> QED
    BY <2>1, <2>2, <2>3
<1>3. CASE type \in Texts
  <2>1. word \in TextWords(old, body) /\ size = body + 1 /\ body \in Nat
    BY <1>3 DEF WordsOf, SizeOf, Fits
  <2> HIDE DEF size, old
  <2>2. CASE size > 8
    BY <2>1, <2>2 DEF TextWords, IsLong, size
  <2>3. CASE size <= 8 /\ body > 4
    BY <1>2, <2>1, <2>3 DEF TextWords, IsLong, size
  <2>4. CASE body <= 4
    BY <1>2, <2>1, <2>4 DEF TextWords, IsLong, size
  <2> QED
    BY <1>2, <2>1, <2>2, <2>3, <2>4
<1>4. CASE type \notin Texts
  <2>1. word = NumberWord(old, body) /\ size = 4
    BY <1>4 DEF WordsOf, SizeOf
  <2> QED
    BY <2>1 DEF NumberWord, IsLong
<1> QED
  BY <1>3, <1>4

LEMMA CopiedOK ==
  ASSUME NEW v, ValueOK(v), NEW type \in Texts \union Numbers, NEW body,
         Fits(type, body), NEW word \in WordsOf(v, type, body)
  PROVE  LET new == Copied(type, body, word)
         IN /\ ValueOK(new) /\ new.type = type /\ new.body = body
            /\ new.size = SizeOf(type, body) /\ SizeOf(type, body) \in Nat
<1> DEFINE size == SizeOf(type, body)
           new  == Copied(type, body, word)
<1>1. size \in Nat /\ (type \in Numbers => size = 4 /\ body \in Values) /\ body \in Int
  <2>1. CASE type \in Texts
    <3>1. type \notin Numbers /\ body \in Nat /\ size = body + 1
      BY <2>1, TypesApart DEF SizeOf, Fits
    <3> QED
      BY <3>1
  <2>2. CASE type \notin Texts
    <3>1. type \in Numbers /\ body \in Values /\ size = 4
      BY <2>2 DEF SizeOf, Fits
    <3> QED
      BY <3>1, ValuesAre
  <2> QED
    BY <2>1, <2>2
<1>2. new = [size |-> size, type |-> type, body |-> body, word |-> word]
  BY DEF Copied
<1>3. word \in {"zero", "number", "wide", "pointer"} /\ (word = "pointer" <=> IsLong(size))
  BY WordIs
<1> HIDE DEF size, new
<1>4. ValueOK(new)
  BY <1>1, <1>2, <1>3 DEF ValueOK, ValueRecord
<1> QED
  BY <1>1, <1>2, <1>4 DEF size, new

\* A number is copied as any value is.
LEMMA PutIsCopied ==
  ASSUME NEW v, NEW type \in Numbers, NEW body
  PROVE  \E word \in WordsOf(v, type, body) : Put(v, type, body) = Copied(type, body, word)
<1>1. type \notin Texts /\ SizeOf(type, body) = 4
  BY TypesApart DEF SizeOf
<1>2. WordsOf(v, type, body) = {NumberWord(ResetFor(v, 4), body)}
  BY <1>1 DEF WordsOf
<1> QED
  BY <1>2 DEF Put

LEMMA NumberIsShort ==
  ASSUME NEW v, ValueOK(v), v.type \in Numbers
  PROVE  Held(v) = 0 /\ Number(v) = v.body /\ Number(v) \in Values
BY DEF ValueOK, IsLong, Held, Number

\* The blocks of a value are counted right, unless the word is a number.
LEMMA CopyCounts ==
  ASSUME NEW v, ValueOK(v), NEW new, ValueOK(new), ~GrowsNumber(v, new.size)
  PROVE  /\ Blocks(v, new.size) \in Int
         /\ Held(new) = Held(v) + Blocks(v, new.size)
                           - (IF Loses(v, new.size) THEN 1 ELSE 0)
<1> DEFINE size == new.size
<1>1. /\ ValueOK(new) /\ new.size = size /\ size \in Nat /\ ~GrowsNumber(v, size)
  BY DEF ValueOK, ValueRecord
<1>2. new.word = "pointer" <=> size > 8
  BY <1>1 DEF ValueOK, IsLong
<1>3. /\ v.size \in Nat /\ v.word \in {"zero", "number", "wide", "pointer"}
      /\ v.word = "pointer" <=> v.size > 8
  BY DEF ValueOK, ValueRecord, IsLong
<1> HIDE DEF size
<1>4. CASE v.size > 8 /\ size < 8
  <2>1. ResetFor(v, size) = NoValue
    BY <1>4 DEF ResetFor, IsLong
  <2>2. Blocks(v, size) = -1
    BY <1>1, <1>3, <1>4, <2>1 DEF Blocks, Grows, IsLong
  <2> QED
    BY <1>1, <1>2, <1>3, <1>4, <2>2 DEF Held, Loses, IsLong, size
<1>5. CASE ~(v.size > 8 /\ size < 8)
  <2>1. ResetFor(v, size) = v
    BY <1>5 DEF ResetFor, IsLong
  <2>2. v # NoValue \/ v.word = "zero"
    BY DEF NoValue
  <2>3. Blocks(v, size) = IF size > 8 /\ size > v.size /\ v.word = "zero" THEN 1 ELSE 0
    BY <1>1, <1>3, <2>1, <2>2 DEF Blocks, Grows, IsLong
  <2>4. size > 8 /\ size > v.size => v.word \in {"zero", "pointer"}
    BY <1>1, <1>3 DEF GrowsNumber, Grows, IsLong
  <2> QED
    BY <1>1, <1>2, <1>3, <1>5, <2>3, <2>4 DEF Held, Loses, IsLong, size
<1> QED
  BY <1>4, <1>5

\* A number never needs memory.
LEMMA NumberCounts ==
  ASSUME NEW v, ValueOK(v), NEW type \in Numbers, NEW body \in Values
  PROVE  /\ ValueOK(Put(v, type, body)) /\ Held(Put(v, type, body)) = 0
         /\ Put(v, type, body).type = type /\ Put(v, type, body).body = body
         /\ Number(Put(v, type, body)) = body
         /\ Blocks(v, 4) = 0 - Held(v)
<1>1. SizeOf(type, body) = 4 /\ Fits(type, body)
  BY TypesApart DEF SizeOf, Fits
<1>2. ~GrowsNumber(v, 4) /\ ~Loses(v, 4)
  BY DEF GrowsNumber, Grows, IsLong, Loses
<1>3. /\ ValueOK(Put(v, type, body)) /\ Put(v, type, body).size = 4
      /\ Put(v, type, body).type = type /\ Put(v, type, body).body = body
  <2>1. PICK word \in WordsOf(v, type, body) : Put(v, type, body) = Copied(type, body, word)
    BY PutIsCopied
  <2> QED
    BY <1>1, <2>1, CopiedOK
<1>4. Held(Put(v, type, body)) = 0 /\ Number(Put(v, type, body)) = body
  BY <1>3, NumberIsShort
<1>5. Blocks(v, 4) \in Int /\ Held(Put(v, type, body)) = Held(v) + Blocks(v, 4)
  BY <1>2, <1>3, CopyCounts DEF Held
<1> QED
  BY <1>3, <1>4, <1>5 DEF Held

LEMMA SetsCount ==
  ASSUME NEW v, ValueOK(v), NEW type \in Texts \union Numbers, NEW body,
         Fits(type, body), NEW o \in Sets(v, type, body)
  PROVE  /\ ValueOK(o.value) /\ o.blocks \in Int /\ o.lost \in Nat
         /\ Held(o.value) = Held(v) + o.blocks - o.lost
         /\ o.value.type \in {v.type, type, "none"}
<1> DEFINE size == SizeOf(type, body)
<1>1. CASE GrowsNumber(v, size)
  <2>1. o = [value |-> v, blocks |-> 0, lost |-> 0, status |-> "undefined"]
    BY <1>1 DEF Sets
  <2> QED
    BY <2>1 DEF Held
<1>2. CASE ~GrowsNumber(v, size) /\ o.status # "memory"
  <2>1. PICK word \in WordsOf(v, type, body) :
          o = [value |-> Copied(type, body, word), blocks |-> Blocks(v, size),
               lost |-> IF Loses(v, size) THEN 1 ELSE 0, status |-> "done"]
    BY <1>2 DEF Sets
  <2> DEFINE new == Copied(type, body, word)
  <2>2. ValueOK(new) /\ new.type = type /\ new.size = size /\ size \in Nat
    BY CopiedOK
  <2> HIDE DEF new, size
  <2>3. /\ Blocks(v, size) \in Int
        /\ Held(new) = Held(v) + Blocks(v, size) - (IF Loses(v, size) THEN 1 ELSE 0)
    BY <1>2, <2>2, CopyCounts
  <2> QED
    BY <2>1, <2>2, <2>3 DEF new
<1>3. CASE ~GrowsNumber(v, size) /\ o.status = "memory"
  <2>1. o = [value |-> NoValue, blocks |-> IF IsLong(v.size) THEN 0 - 1 ELSE 0,
             lost |-> 0, status |-> "memory"]
    BY <1>3 DEF Sets
  <2>2. v.word = "pointer" <=> IsLong(v.size)
    BY DEF ValueOK
  <2> QED
    BY <2>1, <2>2, NoValueOK DEF Held, NoValue
<1> QED
  BY <1>1, <1>2, <1>3

-----------------------------------------------------------------------------
(* The handlers of widgets.                                                *)

ControlRecord ==
  [kind : {"port", "property"}, node : Int, id : Int, look : Looks \union {"text"},
   type : Texts \union Numbers, writable : BOOLEAN, readable : BOOLEAN,
   value : ValueRecord, hidden : BOOLEAN, widget : BOOLEAN, scale : Int, spin : Int]

ControlOK(c) ==
  /\ c \in ControlRecord /\ ValueOK(c.value)
  /\ c.look = "text" <=> c.type \in Texts
  /\ c.kind = "port" => c.type = "Float" /\ c.value.type \in Numbers

\* The scale and the spin button of a control that can be set agree, and a
\* switch is off or on.
Coherent(c) ==
  /\ (c.widget /\ c.writable /\ HasSpin(c.look)) =>
       c.scale \in Positions(c.look) /\ c.spin = ValueAt(c.look, c.scale)
  /\ (c.widget /\ c.look = "switch") => c.scale \in {0, 1}

Alike(c, d) ==
  /\ d.kind = c.kind /\ d.node = c.node /\ d.id = c.id /\ d.look = c.look
  /\ d.type = c.type /\ d.writable = c.writable /\ d.readable = c.readable
  /\ d.hidden = c.hidden

\* A control and what its handlers have sent.
Handling == [control : ControlRecord, sent : Seq(Values)]

LastOf(sent) == sent[Len(sent)]

\* What handlers leave of a control c.
Handled(c, s) ==
  /\ s \in Handling /\ ControlOK(s.control) /\ Alike(c, s.control)
  /\ s.control.widget = c.widget
  /\ s.sent = <<>> => s.control.value = c.value
  /\ s.sent # <<>> => c.writable /\ Held(s.control.value) = 0

\* The widgets show the last value that was sent.
ShowsLast(s) == s.sent # <<>> => Shows(s.control, LastOf(s.sent))

LEMMA ShowsIs ==
  ASSUME NEW c, NEW v
  PROVE  /\ c.look = "switch" => (Shows(c, v) <=> c.scale = (IF v > 0 THEN 1 ELSE 0))
         /\ c.look = "combo" => (Shows(c, v) <=> (v \in Points => c.scale = v))
         /\ c.look = "spinner" => (Shows(c, v) <=> c.scale = (IF v < 0 THEN 0 ELSE v))
         /\ c.look = "log" =>
              (Shows(c, v) <=> /\ c.spin = Clamp(v, Lowest, Highest)
                               /\ c.writable => Shown(c) = c.spin)
         /\ c.look = "slider" => (Shows(c, v) <=> Shown(c) = Clamp(v, Lowest, Highest))
<1>1. ASSUME c.look = "switch" PROVE Shows(c, v) <=> c.scale = (IF v > 0 THEN 1 ELSE 0)
  BY <1>1, Zenon DEF Shows
<1>2. ASSUME c.look = "combo" PROVE Shows(c, v) <=> (v \in Points => c.scale = v)
  BY <1>2, Zenon DEF Shows
<1>3. ASSUME c.look = "spinner" PROVE Shows(c, v) <=> c.scale = (IF v < 0 THEN 0 ELSE v)
  BY <1>3, Zenon DEF Shows
<1>4. ASSUME c.look = "log"
      PROVE  Shows(c, v) <=> /\ c.spin = Clamp(v, Lowest, Highest)
                             /\ c.writable => Shown(c) = c.spin
  BY <1>4, Zenon DEF Shows
<1>5. ASSUME c.look = "slider" PROVE Shows(c, v) <=> Shown(c) = Clamp(v, Lowest, Highest)
  BY <1>5, Zenon DEF Shows
<1> QED
  BY <1>1, <1>2, <1>3, <1>4, <1>5, Zenon

LEMMA ChangedIs ==
  ASSUME NEW c
  PROVE  LET f == Number(c.value)
             s == Quiet(c)
         IN /\ ~c.widget => Changed(c) = s
            /\ c.widget /\ c.look = "text" =>
                 Changed(c) = IF c.value.type = c.type
                              THEN Quiet([c EXCEPT !.scale = c.value.body]) ELSE s
            /\ c.widget /\ c.look = "switch" =>
                 Changed(c) = MoveScale(s, IF f > 0 THEN 1 ELSE 0)
            /\ c.widget /\ c.look = "combo" =>
                 Changed(c) = IF f \in Points THEN MoveScale(s, f) ELSE s
            /\ c.widget /\ c.look = "spinner" =>
                 Changed(c) = MoveScale(s, IF f < 0 THEN 0 ELSE f)
            /\ c.widget /\ HasSpin(c.look) =>
                 Changed(c) = TurnSpin(MoveScale(s, Nearest(c.look, f)),
                                       Clamp(f, Lowest, Highest))
<1>1. CASE ~c.widget
  BY <1>1, Zenon DEF Changed
<1>2. CASE c.widget /\ c.look = "text"
  <2>1. ~HasSpin(c.look)
    BY <1>2 DEF HasSpin
  <2> QED
    BY <1>2, <2>1, Zenon DEF Changed
<1>3. CASE c.widget /\ c.look = "switch"
  <2>1. ~HasSpin(c.look)
    BY <1>3 DEF HasSpin
  <2> QED
    BY <1>3, <2>1, Zenon DEF Changed
<1>4. CASE c.widget /\ c.look = "combo"
  <2>1. ~HasSpin(c.look)
    BY <1>4 DEF HasSpin
  <2> QED
    BY <1>4, <2>1, Zenon DEF Changed
<1>5. CASE c.widget /\ c.look = "spinner"
  <2>1. ~HasSpin(c.look)
    BY <1>5 DEF HasSpin
  <2> QED
    BY <1>5, <2>1, Zenon DEF Changed
<1>6. CASE c.widget /\ HasSpin(c.look)
  <2>1. c.look \notin {"text", "switch", "combo", "spinner"}
    BY <1>6 DEF HasSpin
  <2> QED
    BY <1>6, <2>1, Zenon DEF Changed
<1>7. CASE c.widget /\ ~HasSpin(c.look) /\ c.look \notin {"text", "switch", "combo", "spinner"}
  BY <1>7, Zenon
<1> QED
  BY <1>1, <1>2, <1>3, <1>4, <1>5, <1>6, <1>7, Zenon

LEMMA Powers ==
  ASSUME NEW n \in 0..2
  PROVE  2 ^ n \in Marks /\ (n = 0 <=> 2 ^ n = 1) /\ (n = 1 <=> 2 ^ n = 2) /\ (n = 2 <=> 2 ^ n = 4)
<1>1. CASE n = 0
  <2>1. 2 ^ 0 = 1
    OBVIOUS
  <2> QED
    BY <1>1, <2>1 DEF Marks
<1>2. CASE n = 1
  <2>1. 2 ^ 1 = 2
    OBVIOUS
  <2> QED
    BY <1>2, <2>1 DEF Marks
<1>3. CASE n = 2
  <2>1. 2 ^ 2 = 4
    OBVIOUS
  <2> QED
    BY <1>3, <2>1 DEF Marks
<1> QED
  BY <1>1, <1>2, <1>3

\* Each mark has one place on a scale.
LEMMA PlaceOfMark ==
  ASSUME NEW look, HasSpin(look)
  PROVE  /\ Positions(look) \subseteq Int
         /\ \A position \in Positions(look) : ValueAt(look, position) \in Marks
         /\ \A v \in Marks :
              PositionOf(look, v) \in Positions(look) /\ ValueAt(look, PositionOf(look, v)) = v
<1>0. look = "log" \/ look = "slider"
  BY DEF HasSpin
<1>1. CASE look = "log"
  <2>1. /\ Positions(look) = 0..2
        /\ \A position : ValueAt(look, position) = 2 ^ position
    BY <1>1 DEF Positions, ValueAt
  <2>2. ASSUME NEW v \in Marks
        PROVE  PositionOf(look, v) \in 0..2 /\ ValueAt(look, PositionOf(look, v)) = v
    <3>1. \E p \in 0..2 : 2 ^ p = v
      <4>1. 2 ^ 0 = 1 /\ 2 ^ 1 = 2 /\ 2 ^ 2 = 4
        OBVIOUS
      <4>2. v = 1 \/ v = 2 \/ v = 4
        BY DEF Marks
      <4>3. 0 \in 0..2 /\ 1 \in 0..2 /\ 2 \in 0..2
        OBVIOUS
      <4> QED
        BY <4>1, <4>2, <4>3, Zenon
    <3>2. \E p \in Positions(look) : ValueAt(look, p) = v
      BY <2>1, <3>1, Zenon
    <3>3. PositionOf(look, v) \in Positions(look) /\ ValueAt(look, PositionOf(look, v)) = v
      BY <3>2, Zenon DEF PositionOf
    <3> QED
      BY <2>1, <3>3, Zenon
  <2>3. ASSUME NEW position \in 0..2
        PROVE  ValueAt(look, position) \in Marks
    <3>1. ValueAt(look, position) = 2 ^ position /\ 2 ^ position \in Marks
      BY <2>1, Powers
    <3> QED
      BY <3>1
  <2> QED
    BY <2>1, <2>2, <2>3
<1>2. CASE look = "slider"
  <2>1. /\ Positions(look) = Marks
        /\ \A position : ValueAt(look, position) = position
    BY <1>2 DEF Positions, ValueAt
  <2>2. ASSUME NEW v \in Marks
        PROVE  PositionOf(look, v) \in Marks /\ ValueAt(look, PositionOf(look, v)) = v
    <3>1. \E p \in Positions(look) : ValueAt(look, p) = v
      BY <2>1
    <3> QED
      BY <2>1, <3>1, Zenon DEF PositionOf
  <2> QED
    BY <2>1, <2>2 DEF Marks
<1> QED
  BY <1>0, <1>1, <1>2

LEMMA AppendLast ==
  ASSUME NEW S, NEW sent \in Seq(S), NEW v \in S
  PROVE  /\ Append(sent, v) \in Seq(S) /\ Append(sent, v) # <<>>
         /\ LastOf(Append(sent, v)) = v
BY DEF LastOf

LEMMA SetNumberIs ==
  ASSUME NEW s \in Handling, ControlOK(s.control), s.control.type \in Numbers,
         NEW v \in Values
  PROVE  LET r == SetNumber(s, v)
         IN /\ r \in Handling /\ ControlOK(r.control) /\ Alike(s.control, r.control)
            /\ r.control.widget = s.control.widget
            /\ r.control.scale = s.control.scale
            /\ r.control.spin = IF HasSpin(s.control.look) THEN v ELSE 0
            /\ r.sent # <<>> /\ LastOf(r.sent) = v /\ Held(r.control.value) = 0
<1> DEFINE c == s.control
           new == Put(c.value, c.type, v)
           r == SetNumber(s, v)
<1>1. ValueOK(new) /\ Held(new) = 0 /\ new.type = c.type
  BY NumberCounts DEF ControlOK
<1>2. r = [control |-> [c EXCEPT !.value = new, !.spin = IF HasSpin(c.look) THEN v ELSE 0],
           sent |-> Append(s.sent, v)]
  BY DEF SetNumber
<1> HIDE DEF new
<1>3. v \in Int /\ c \in ControlRecord /\ new \in ValueRecord /\ s.sent \in Seq(Values)
  <2>1. v \in Int
    BY ValuesAre
  <2>2. new \in ValueRecord
    BY <1>1 DEF ValueOK
  <2>3. s.sent \in Seq(Values) /\ c \in ControlRecord
    BY DEF Handling
  <2> QED
    BY <2>1, <2>2, <2>3
<1>4. /\ Append(s.sent, v) \in Seq(Values) /\ Append(s.sent, v) # <<>>
      /\ LastOf(Append(s.sent, v)) = v
  BY <1>3, AppendLast
<1>5. r.control = [c EXCEPT !.value = new, !.spin = IF HasSpin(c.look) THEN v ELSE 0]
  BY <1>2
<1>8. ControlOK(c) /\ c.type \in Numbers
  OBVIOUS
<1>9. r.sent = Append(s.sent, v) /\ r = [control |-> r.control, sent |-> r.sent]
  BY <1>2
<1> HIDE DEF c, r
<1>6. r.control \in ControlRecord
  <2>1. ASSUME NEW n \in Int
        PROVE  [c EXCEPT !.value = new, !.spin = n] \in ControlRecord
    BY <1>3 DEF ControlRecord
  <2>2. (IF HasSpin(c.look) THEN v ELSE 0) \in Int
    BY <1>3
  <2> QED
    BY <1>5, <2>1, <2>2
<1>7. /\ r.control.value = new /\ r.control.widget = c.widget
      /\ r.control.scale = c.scale /\ Alike(c, r.control)
      /\ r.control.spin = IF HasSpin(c.look) THEN v ELSE 0
  BY <1>3, <1>5 DEF ControlRecord, Alike
<1>10. ControlOK(r.control)
  BY <1>1, <1>6, <1>7, <1>8 DEF ControlOK, Alike
<1>11. r \in Handling
  BY <1>3, <1>4, <1>6, <1>9 DEF Handling
<1> QED
  BY <1>1, <1>4, <1>7, <1>9, <1>10, <1>11 DEF c, r
\* Where a scale, or the only widget of a control, may be.
Places(look) ==
  IF look = "log" THEN 0..2
  ELSE IF look = "slider" THEN Marks
  ELSE IF look = "combo" THEN Points
  ELSE IF look = "switch" THEN {0, 1}
  ELSE Values \cap Nat

LEMMA PlaceIs ==
  ASSUME NEW look \in Looks, NEW position \in Places(look)
  PROVE  /\ position \in Int /\ ValueAt(look, position) \in Values
         /\ HasSpin(look) => position \in Positions(look) /\ ValueAt(look, position) \in Marks
         /\ look # "log" => ValueAt(look, position) = position
<1>1. CASE HasSpin(look)
  <2>1. Places(look) = Positions(look)
    BY <1>1 DEF Places, Positions, HasSpin
  <2>2. position \in Int /\ ValueAt(look, position) \in Marks
    BY <1>1, <2>1, PlaceOfMark
  <2> QED
    BY <2>1, <2>2, ValuesAre DEF ValueAt
<1>2. CASE ~HasSpin(look)
  <2>1. look # "log" /\ look # "slider"
    BY <1>2 DEF HasSpin
  <2>2. position \in Values
    BY <2>1, ValuesAre DEF Places, Looks, Values, Marks, Lowest, Highest, Points
  <2> QED
    BY <1>2, <2>1, <2>2, ValuesAre DEF ValueAt
<1> QED
  BY <1>1, <1>2

\* Where the widgets agree they show the value that the scale stands for.
LEMMA ShowsPlace ==
  ASSUME NEW d, d.look \in Looks, d.scale \in Places(d.look),
         HasSpin(d.look) => d.spin = ValueAt(d.look, d.scale)
  PROVE  Shows(d, ValueAt(d.look, d.scale))
<1> DEFINE v == ValueAt(d.look, d.scale)
<1>0. /\ d.scale \in Int /\ v \in Int /\ (d.look # "log" => v = d.scale)
      /\ HasSpin(d.look) => v \in Marks
  BY PlaceIs, ValuesAre
<1>1. CASE d.look = "switch"
  <2>1. v = d.scale /\ d.scale \in {0, 1}
    BY <1>0, <1>1 DEF Places
  <2> QED
    BY <1>1, <2>1, ShowsIs
<1>2. CASE d.look = "combo"
  <2>1. v = d.scale
    BY <1>0, <1>2
  <2> QED
    BY <1>2, <2>1, ShowsIs
<1>3. CASE d.look = "spinner"
  <2>1. v = d.scale /\ d.scale \in Nat
    BY <1>0, <1>3 DEF Places
  <2> QED
    BY <1>3, <2>1, ShowsIs
<1>4. CASE HasSpin(d.look)
  <2>1. Clamp(v, Lowest, Highest) = v /\ d.spin = v
    BY <1>0, <1>4 DEF Marks, Clamp, Lowest, Highest
  <2>2. Shown(d) = v
    BY DEF Shown
  <2>3. /\ d.look = "log" =>
             (Shows(d, v) <=> (/\ d.spin = Clamp(v, Lowest, Highest)
                               /\ d.writable => Shown(d) = d.spin))
        /\ d.look = "slider" => (Shows(d, v) <=> Shown(d) = Clamp(v, Lowest, Highest))
    BY ShowsIs
  <2> HIDE DEF v
  <2>4. Shows(d, v)
    BY <1>4, <2>1, <2>2, <2>3 DEF HasSpin
  <2> QED
    BY <2>4 DEF v
<1> QED
  BY <1>1, <1>2, <1>3, <1>4 DEF Looks, HasSpin

LEMMA MoveScaleIs ==
  ASSUME NEW c, NEW s, Handled(c, s), c.look \in Looks,
         NEW position \in Places(c.look)
  PROVE  LET r == MoveScale(s, position)
         IN /\ Handled(c, r) /\ r.control.scale = position
            /\ ShowsLast(s) \/ (c.writable /\ s.control.scale # position) => ShowsLast(r)
            /\ (~c.writable \/ s.control.scale = position) =>
                 r.control.spin = s.control.spin /\ r.sent = s.sent
            /\ (c.writable /\ s.control.scale # position) =>
                 /\ HasSpin(c.look) => r.control.spin = ValueAt(c.look, position)
                 /\ r.sent # <<>> /\ LastOf(r.sent) = ValueAt(c.look, position)
<1> DEFINE moved == [s EXCEPT !.control.scale = position]
           v == ValueAt(c.look, position)
<1>0. /\ s \in Handling /\ ControlOK(s.control) /\ Alike(c, s.control)
      /\ s.control.widget = c.widget /\ s.control.writable = c.writable
      /\ s.control.look = c.look /\ s.control.writable \in BOOLEAN
  BY DEF Handled, Alike, Handling, ControlRecord
<1>1. position \in Int /\ v \in Values
  BY PlaceIs
<1>2. /\ moved \in Handling /\ ControlOK(moved.control) /\ Alike(s.control, moved.control)
      /\ moved.control.widget = c.widget /\ moved.control.scale = position
      /\ moved.control.spin = s.control.spin /\ moved.sent = s.sent
      /\ moved.control.value = s.control.value
  <2>1. s.control \in ControlRecord /\ s.sent \in Seq(Values)
        /\ s = [control |-> s.control, sent |-> s.sent]
    BY <1>0 DEF Handling
  <2>2. /\ moved.control = [s.control EXCEPT !.scale = position]
        /\ moved.sent = s.sent /\ moved = [control |-> moved.control, sent |-> moved.sent]
    BY <2>1
  <2> HIDE DEF moved
  <2>3. /\ moved.control \in ControlRecord /\ Alike(s.control, moved.control)
        /\ moved.control.widget = c.widget /\ moved.control.scale = position
        /\ moved.control.spin = s.control.spin
        /\ moved.control.value = s.control.value
    BY <1>0, <1>1, <2>1, <2>2 DEF ControlRecord, Alike
  <2>4. ControlOK(moved.control)
    BY <1>0, <2>3 DEF ControlOK, Alike
  <2>5. moved \in Handling
    BY <2>1, <2>2, <2>3 DEF Handling
  <2> QED
    BY <2>2, <2>3, <2>4, <2>5
<1>3. Alike(c, moved.control)
  BY <1>0, <1>2 DEF Alike
<1>4. CASE s.control.scale = position
  <2>1. moved = s
    BY <1>0, <1>4 DEF Handling, ControlRecord
  <2>2. MoveScale(s, position) = moved
    BY <1>4 DEF MoveScale
  <2> QED
    BY <1>4, <2>1, <2>2
<1>5. CASE s.control.scale # position /\ ~c.writable
  <2>1. MoveScale(s, position) = moved
    BY <1>0, <1>5 DEF MoveScale
  <2>2. s.sent = <<>>
    BY <1>5 DEF Handled
  <2> HIDE DEF moved
  <2>3. Handled(c, moved) /\ ShowsLast(moved)
    BY <1>2, <1>3, <2>2 DEF Handled, ShowsLast
  <2> QED
    BY <1>2, <1>5, <2>1, <2>3
<1>6. CASE s.control.scale # position /\ c.writable
  <2>1. MoveScale(s, position) = SetNumber(moved, v)
    BY <1>0, <1>6 DEF MoveScale
  <2>2. moved.control.type \in Numbers /\ moved.control.look = c.look
    <3>1. moved.control.type \in Texts \union Numbers /\ moved.control.look = c.look
      BY <1>2, <1>3 DEF ControlOK, ControlRecord, Alike
    <3>2. c.look # "text"
      BY DEF Looks
    <3> QED
      BY <1>2, <3>1, <3>2 DEF ControlOK
  <2> HIDE DEF moved
  <2> DEFINE r == SetNumber(moved, v)
  <2>3. /\ r \in Handling /\ ControlOK(r.control) /\ Alike(moved.control, r.control)
        /\ r.control.widget = c.widget
        /\ r.control.scale = position
        /\ r.control.spin = IF HasSpin(c.look) THEN v ELSE 0
        /\ r.sent # <<>> /\ LastOf(r.sent) = v /\ Held(r.control.value) = 0
    BY <1>1, <1>2, <2>2, SetNumberIs
  <2> HIDE DEF r
  <2>4. Alike(c, r.control) /\ r.control.look = c.look
    BY <1>3, <2>3 DEF Alike
  <2>5. Shows(r.control, v)
    BY <2>3, <2>4, ShowsPlace
  <2>6. Handled(c, r) /\ ShowsLast(r)
    BY <1>6, <2>3, <2>4, <2>5 DEF Handled, ShowsLast
  <2> QED
    BY <1>6, <2>1, <2>3, <2>6 DEF r
<1> QED
  BY <1>0, <1>4, <1>5, <1>6

LEMMA TurnSpinIs ==
  ASSUME NEW c, NEW s, Handled(c, s), ShowsLast(s), HasSpin(c.look),
         NEW v \in Marks
  PROVE  LET r == TurnSpin(s, v)
         IN /\ Handled(c, r) /\ ShowsLast(r) /\ r.control.spin = v
            /\ (~c.writable \/ s.control.spin = v \/ r.sent = <<>>) =>
                 r.control.scale = s.control.scale
            /\ (c.writable /\ s.control.spin # v) =>
                 /\ r.control.scale \in Positions(c.look)
                 /\ ValueAt(c.look, r.control.scale) = v
<1> DEFINE turned == [s EXCEPT !.control.spin = v]
           position == PositionOf(c.look, v)
<1>0. /\ s \in Handling /\ ControlOK(s.control) /\ Alike(c, s.control)
      /\ s.control.widget = c.widget /\ s.control.writable = c.writable
      /\ s.control.look = c.look /\ s.control.writable \in BOOLEAN
      /\ v \in Int /\ v \in Values /\ c.look \in Looks
  <2>1. v \in Int /\ v \in Values
    BY ValuesAre
  <2> QED
    BY <2>1 DEF Handled, Alike, Handling, ControlRecord, HasSpin, Looks
<1>1. position \in Positions(c.look) /\ ValueAt(c.look, position) = v
      /\ position \in Places(c.look)
  <2>1. Places(c.look) = Positions(c.look)
    BY DEF Places, Positions, HasSpin
  <2> QED
    BY <2>1, PlaceOfMark
<1>2. /\ turned \in Handling /\ ControlOK(turned.control) /\ Alike(c, turned.control)
      /\ turned.control.widget = c.widget /\ turned.control.scale = s.control.scale
      /\ turned.control.spin = v /\ turned.sent = s.sent
      /\ turned.control.value = s.control.value
  <2>1. s.control \in ControlRecord /\ s.sent \in Seq(Values)
        /\ s = [control |-> s.control, sent |-> s.sent]
    BY <1>0 DEF Handling
  <2>2. /\ turned.control = [s.control EXCEPT !.spin = v]
        /\ turned.sent = s.sent /\ turned = [control |-> turned.control, sent |-> turned.sent]
    BY <2>1
  <2> HIDE DEF turned
  <2>3. /\ turned.control \in ControlRecord /\ Alike(s.control, turned.control)
        /\ turned.control.widget = c.widget /\ turned.control.spin = v
        /\ turned.control.scale = s.control.scale
        /\ turned.control.value = s.control.value
    BY <1>0, <2>1, <2>2 DEF ControlRecord, Alike
  <2>4. ControlOK(turned.control) /\ Alike(c, turned.control)
    BY <1>0, <2>3 DEF ControlOK, Alike
  <2>5. turned \in Handling
    BY <2>1, <2>2, <2>3 DEF Handling
  <2> QED
    BY <2>2, <2>3, <2>4, <2>5
<1>3. TurnSpin(s, v) = IF s.control.spin = v \/ ~c.writable \/ s.control.scale = position
                       THEN turned ELSE MoveScale(turned, position)
  BY <1>0 DEF TurnSpin
<1>4. CASE s.control.spin = v
  <2>1. turned = s
    BY <1>0, <1>4 DEF Handling, ControlRecord
  <2> QED
    BY <1>3, <1>4, <2>1
<1>5. CASE s.control.spin # v /\ ~c.writable
  <2>1. s.sent = <<>>
    BY <1>5 DEF Handled
  <2> HIDE DEF turned
  <2>2. Handled(c, turned) /\ ShowsLast(turned)
    BY <1>2, <2>1 DEF Handled, ShowsLast
  <2> QED
    BY <1>2, <1>3, <1>5, <2>2
<1>6. CASE s.control.spin # v /\ c.writable
  <2> HIDE DEF turned, position
  <2>1. Handled(c, turned)
    <3>1. s.sent = <<>> => s.control.value = c.value
      BY DEF Handled
    <3>2. s.sent # <<>> => Held(s.control.value) = 0
      BY DEF Handled
    <3> QED
      BY <1>2, <1>6, <3>1, <3>2 DEF Handled
  <2>2. CASE s.control.scale = position
    <3>1. CASE s.sent = <<>>
      BY <1>1, <1>2, <1>3, <1>6, <2>1, <2>2, <3>1 DEF ShowsLast
    <3>2. CASE s.sent # <<>> /\ c.look = "log"
      <4>1. Shows(s.control, LastOf(s.sent)) /\ s.control.look = "log"
        BY <1>0, <3>2 DEF ShowsLast
      <4>2. Shown(s.control) = s.control.spin
        BY <1>0, <1>6, <4>1, ShowsIs
      <4> QED
        BY <1>0, <1>1, <1>6, <2>2, <4>2 DEF Shown
    <3>3. CASE s.sent # <<>> /\ c.look = "slider"
      <4> DEFINE w == LastOf(s.sent)
      <4>1. Shows(s.control, w) /\ s.control.look = "slider" /\ turned.control.look = "slider"
        BY <1>0, <1>2, <3>3 DEF ShowsLast, Alike
      <4>2. Shown(turned.control) = Shown(s.control)
        BY <1>2, <4>1 DEF Shown
      <4>3. Shows(turned.control, w)
        BY <4>1, <4>2, ShowsIs
      <4>4. ShowsLast(turned)
        BY <1>2, <4>3 DEF ShowsLast
      <4> QED
        BY <1>1, <1>2, <1>3, <1>6, <2>1, <2>2, <4>4
    <3> QED
      BY <3>1, <3>2, <3>3 DEF HasSpin
  <2>3. CASE s.control.scale # position
    <3>1. TurnSpin(s, v) = MoveScale(turned, position)
      BY <1>3, <1>6, <2>3
    <3>2. turned.control.scale # position
      BY <1>2, <2>3
    <3> QED
      BY <1>0, <1>1, <1>6, <2>1, <3>1, <3>2, MoveScaleIs
  <2> QED
    BY <2>2, <2>3
<1> QED
  BY <1>0, <1>4, <1>5, <1>6

LEMMA QuietIs ==
  ASSUME NEW c, ControlOK(c)
  PROVE  /\ Handled(c, Quiet(c)) /\ ShowsLast(Quiet(c))
         /\ Quiet(c).control = c /\ Quiet(c).sent = <<>>
<1>1. Quiet(c) \in Handling
  BY DEF Quiet, Handling, ControlOK
<1> QED
  BY <1>1 DEF Quiet, Handled, ShowsLast, Alike

LEMMA NumberIs ==
  ASSUME NEW v, ValueOK(v)
  PROVE  Number(v) \in Values /\ Number(v) \in Int
BY ValuesAre DEF Number, ValueOK

LEMMA NearestIs ==
  ASSUME NEW look, HasSpin(look), NEW f \in Values
  PROVE  /\ Nearest(look, f) \in Places(look) /\ Clamp(f, Lowest, Highest) \in Marks
         /\ look = "slider" => Nearest(look, f) = Clamp(f, Lowest, Highest)
<1>1. f \in Int
  BY ValuesAre
<1>2. Clamp(f, Lowest, Highest) \in Marks
  BY <1>1 DEF Clamp, Lowest, Highest, Marks, Values
<1>3. Clamp(f, 0, 2) \in 0..2
  BY <1>1 DEF Clamp
<1> QED
  BY <1>2, <1>3 DEF Nearest, Places, HasSpin

\* Widgets that are told of a new value show it, whatever they have shown
\* before, and their handlers send nothing but what they show.
LEMMA ChangedOK ==
  ASSUME NEW c, ControlOK(c), Coherent(c)
  PROVE  LET r == Changed(c)
         IN /\ Handled(c, r) /\ ShowsLast(r) /\ Coherent(r.control)
            /\ (c.widget /\ c.look # "text") => Shows(r.control, Number(c.value))
<1> DEFINE f == Number(c.value)
           s == Quiet(c)
           r == Changed(c)
<1>0. /\ c \in ControlRecord /\ f \in Values /\ f \in Int
      /\ Handled(c, s) /\ ShowsLast(s) /\ s.control = c /\ s.sent = <<>>
  BY QuietIs, NumberIs DEF ControlOK
<1>1. CASE ~c.widget
  <2>1. Changed(c) = s
    BY <1>1, ChangedIs
  <2> QED
    BY <1>0, <1>1, <2>1
<1>2. CASE c.widget /\ c.look = "text"
  <2>1. ~HasSpin(c.look)
    BY <1>2 DEF HasSpin
  <2>2. CASE c.value.type # c.type
    <3>1. r = s
      BY <1>2, <2>2, ChangedIs
    <3> QED
      BY <1>0, <1>2, <3>1
  <2>3. CASE c.value.type = c.type
    <3> DEFINE d == [c EXCEPT !.scale = c.value.body]
    <3>1. r = Quiet(d)
      BY <1>2, <2>3, ChangedIs
    <3>2. c.value.body \in Int
      BY DEF ControlOK, ValueOK, ValueRecord
    <3>3. /\ d \in ControlRecord /\ Alike(c, d) /\ d.widget = c.widget /\ d.value = c.value
      BY <1>0, <3>2 DEF ControlRecord, Alike
    <3> HIDE DEF d
    <3>4. ControlOK(d)
      BY <3>3 DEF ControlOK, Alike
    <3>5. /\ Handled(d, Quiet(d)) /\ ShowsLast(Quiet(d))
          /\ Quiet(d).control = d /\ Quiet(d).sent = <<>>
      BY <3>4, QuietIs
    <3>6. Handled(c, Quiet(d)) /\ Coherent(d)
      BY <1>2, <2>1, <3>3, <3>5 DEF Handled, Coherent, Alike
    <3> QED
      BY <1>2, <3>1, <3>5, <3>6
  <2> QED
    BY <2>2, <2>3
<1>3. CASE c.widget /\ c.look \in {"switch", "combo", "spinner"}
  <2>1. ~HasSpin(c.look) /\ c.look \in Looks
    BY <1>3 DEF HasSpin, Looks
  <2>2. ASSUME NEW position \in Places(c.look), r = MoveScale(s, position)
        PROVE  Handled(c, r) /\ ShowsLast(r) /\ Coherent(r.control) /\ r.control.scale = position
               /\ r.control.look = c.look
    <3>1. Handled(c, r) /\ ShowsLast(r) /\ r.control.scale = position
      BY <1>0, <2>1, <2>2, MoveScaleIs
    <3>2. r.control.look = c.look
      BY <3>1 DEF Handled, Alike
    <3> QED
      BY <2>1, <3>1, <3>2 DEF Coherent, Places
  <2>3. CASE c.look = "switch"
    <3>1. r = MoveScale(s, IF f > 0 THEN 1 ELSE 0)
      BY <1>3, <2>3, ChangedIs
    <3>2. (IF f > 0 THEN 1 ELSE 0) \in Places(c.look)
      BY <2>3 DEF Places
    <3> QED
      BY <2>2, <2>3, <3>1, <3>2, ShowsIs
  <2>4. CASE c.look = "combo" /\ f \in Points
    <3>1. r = MoveScale(s, f)
      BY <1>3, <2>4, ChangedIs
    <3>2. f \in Places(c.look)
      BY <2>4 DEF Places
    <3> QED
      BY <2>2, <2>4, <3>1, <3>2, ShowsIs
  <2>5. CASE c.look = "combo" /\ f \notin Points
    <3>1. r = s
      BY <1>3, <2>5, ChangedIs
    <3> QED
      BY <1>0, <2>5, <3>1, ShowsIs
  <2>6. CASE c.look = "spinner"
    <3>1. r = MoveScale(s, IF f < 0 THEN 0 ELSE f)
      BY <1>3, <2>6, ChangedIs
    <3>2. (IF f < 0 THEN 0 ELSE f) \in Places(c.look)
      BY <1>0, <2>6, ValuesAre DEF Places
    <3> QED
      BY <2>2, <2>6, <3>1, <3>2, ShowsIs
  <2> QED
    BY <1>3, <2>3, <2>4, <2>5, <2>6
<1>4. CASE c.widget /\ HasSpin(c.look)
  <2> DEFINE near == Nearest(c.look, f)
             v == Clamp(f, Lowest, Highest)
             m == MoveScale(s, near)
  <2>0. /\ c.look \in Looks /\ near \in Places(c.look) /\ v \in Marks
        /\ c.look = "slider" => near = v
    BY <1>0, <1>4, NearestIs DEF HasSpin, Looks
  <2>1. r = TurnSpin(m, v)
    BY <1>4, ChangedIs
  <2>2. /\ Handled(c, m) /\ ShowsLast(m) /\ m.control.scale = near
        /\ (~c.writable \/ c.scale = near) => m.control.spin = c.spin
        /\ (c.writable /\ c.scale # near) => m.control.spin = ValueAt(c.look, near)
    BY <1>0, <1>4, <2>0, MoveScaleIs
  <2>3. c.writable => m.control.spin = ValueAt(c.look, near)
    BY <1>4, <2>2 DEF Coherent
  <2> HIDE DEF m, near
  <2>4. /\ Handled(c, r) /\ ShowsLast(r) /\ r.control.spin = v
        /\ (~c.writable \/ m.control.spin = v) => r.control.scale = near
        /\ (c.writable /\ m.control.spin # v) =>
             r.control.scale \in Positions(c.look) /\ ValueAt(c.look, r.control.scale) = v
    BY <1>4, <2>0, <2>1, <2>2, TurnSpinIs
  <2>5. r.control.look = c.look /\ r.control.writable = c.writable
    BY <2>4 DEF Handled, Alike
  <2>6. near \in Positions(c.look)
    BY <1>4, <2>0, PlaceIs
  <2>7. c.writable => r.control.scale \in Positions(c.look) /\ ValueAt(c.look, r.control.scale) = v
    BY <2>3, <2>4, <2>6
  <2>8. Coherent(r.control)
    BY <1>4, <2>4, <2>5, <2>7 DEF Coherent, HasSpin
  <2>9. Shows(r.control, f)
    <3>1. CASE c.look = "log"
      <4>1. c.writable => Shown(r.control) = v
        BY <2>5, <2>7 DEF Shown
      <4> QED
        BY <2>4, <2>5, <3>1, <4>1, ShowsIs
    <3>2. CASE c.look = "slider"
      <4>1. ~c.writable => r.control.scale = v
        BY <2>0, <2>4, <3>2
      <4>2. Shown(r.control) = r.control.scale /\ ValueAt(c.look, r.control.scale) = r.control.scale
        BY <2>5, <3>2 DEF Shown, ValueAt
      <4>3. Shown(r.control) = v
        BY <2>7, <4>1, <4>2, <1>0 DEF ControlRecord
      <4> QED
        BY <2>5, <3>2, <4>3, ShowsIs
    <3> QED
      BY <1>4, <3>1, <3>2 DEF HasSpin
  <2> QED
    BY <2>4, <2>8, <2>9
<1> QED
  <2>1. c.look \in Looks \union {"text"}
    BY <1>0 DEF ControlRecord
  <2> QED
    BY <1>1, <1>2, <1>3, <1>4, <2>1 DEF Looks, HasSpin

\* The widgets of a control when they are made.
LEMMA BuiltOK ==
  ASSUME NEW c, ControlOK(c)
  PROVE  /\ ControlOK(Built(c)) /\ Alike(c, Built(c)) /\ Coherent(Built(c))
         /\ Built(c).value = c.value
<1> DEFINE f == Number(c.value)
           v == Clamp(f, Lowest, Highest)
           place == FirstPosition(c.look, f)
           spin == IF HasSpin(c.look) THEN v ELSE 0
<1>0. c \in ControlRecord /\ f \in Values /\ f \in Int
  BY NumberIs DEF ControlOK
<1>1. HasSpin(c.look) =>
        /\ place = PositionOf(c.look, v) /\ v \in Marks
        /\ place \in Positions(c.look) /\ place \in Int /\ ValueAt(c.look, place) = v
  <2>1. ASSUME HasSpin(c.look) PROVE place = PositionOf(c.look, v)
    <3>1. c.look \notin {"switch", "combo", "spinner"}
      BY <2>1 DEF HasSpin
    <3> QED
      BY <2>1, <3>1, Zenon DEF FirstPosition
  <2>2. HasSpin(c.look) => v \in Marks
    BY <1>0, NearestIs
  <2> QED
    BY <2>1, <2>2, PlaceOfMark
<1>2. ~HasSpin(c.look) =>
        place \in Int /\ (c.look = "switch" => place \in {0, 1})
  <2>0. 0 \in Int /\ 1 \in Int /\ Nothing \in Int /\ (f < 0 \/ ~(f < 0))
    BY DEF Nothing
  <2>1. CASE c.look = "switch"
    <3>1. place = IF f # 0 THEN 1 ELSE 0
      <4>1. ~HasSpin(c.look)
        BY <2>1 DEF HasSpin
      <4> QED
        BY <2>1, <4>1, Zenon DEF FirstPosition
    <3> HIDE DEF place, f
    <3> QED
      BY <3>1
  <2>2. CASE c.look = "combo"
    <3>1. place = IF f \in Points THEN f ELSE Nothing
      <4>1. ~HasSpin(c.look)
        BY <2>2 DEF HasSpin
      <4> QED
        BY <2>2, <4>1, Zenon DEF FirstPosition
    <3> HIDE DEF place, f
    <3> QED
      BY <1>0, <2>0, <2>2, <3>1
  <2>3. CASE c.look = "spinner"
    <3>1. place = IF f < 0 THEN 0 ELSE f
      <4>1. ~HasSpin(c.look)
        BY <2>3 DEF HasSpin
      <4> QED
        BY <2>3, <4>1, Zenon DEF FirstPosition
    <3> HIDE DEF place, f
    <3> QED
      BY <1>0, <2>3, <3>1
  <2>4. CASE c.look = "text"
    <3>1. place = 0
      <4>1. ~HasSpin(c.look)
        BY <2>4 DEF HasSpin
      <4> QED
        BY <2>4, <4>1, Zenon DEF FirstPosition
    <3> QED
      BY <2>4, <3>1
  <2>5. c.look \in Looks \union {"text"}
    BY <1>0 DEF ControlRecord
  <2> QED
    BY <2>1, <2>2, <2>3, <2>4, <2>5 DEF Looks, HasSpin
<1>3. spin \in Int
  BY <1>1, ValuesAre
<1>4. Built(c) = [c EXCEPT !.widget = TRUE, !.scale = place, !.spin = spin]
  BY DEF Built
<1>5. place \in Int /\ (HasSpin(c.look) => spin = v)
  BY <1>1, <1>2
<1> HIDE DEF place, spin
<1> DEFINE d == Built(c)
<1>6. /\ d \in ControlRecord /\ d.scale = place /\ d.spin = spin
      /\ Alike(c, d) /\ d.value = c.value
  BY <1>0, <1>3, <1>4, <1>5 DEF ControlRecord, Alike
<1> HIDE DEF d
<1>7. ControlOK(d)
  BY <1>6 DEF ControlOK, Alike
<1>8. Coherent(d)
  BY <1>1, <1>2, <1>5, <1>6 DEF Coherent, Alike, HasSpin
<1> QED
  BY <1>6, <1>7, <1>8 DEF d

\* What a control shows is in its scale and its spin button.
LEMMA ShowsSame ==
  ASSUME NEW c \in ControlRecord, c.look # "text", NEW d, Alike(c, d),
         d.scale = c.scale, d.spin = c.spin, NEW v, Shows(c, v)
  PROVE  Shows(d, v)
<1>1. c.look \in Looks /\ d.look = c.look /\ d.writable = c.writable /\ Shown(d) = Shown(c)
  BY DEF ControlRecord, Alike, Shown
<1> QED
  BY <1>1, ShowsIs DEF Looks

\* A user who moves a widget sets what the widgets then show.
LEMMA MovesOK ==
  ASSUME NEW c, ControlOK(c), Coherent(c), c.widget, c.writable,
         NEW inputs \in SUBSET Values, NEW r \in Moves(c, inputs)
  PROVE  /\ Handled(c, r) /\ ShowsLast(r) /\ Coherent(r.control) /\ c.look # "text"
         /\ r.sent = <<>> => \A v : Shows(c, v) => Shows(r.control, v)
<1> DEFINE s == Quiet(c)
<1>0. /\ c \in ControlRecord /\ Handled(c, s) /\ ShowsLast(s) /\ s.control = c
      /\ s.sent = <<>>
  BY QuietIs DEF ControlOK
<1>1. ASSUME NEW position \in Places(c.look), c.look \in Looks,
             r = MoveScale(s, position)
      PROVE  /\ Handled(c, r) /\ ShowsLast(r) /\ Coherent(r.control)
             /\ r.sent = <<>> => \A v : Shows(c, v) => Shows(r.control, v)
  <2>1. /\ Handled(c, r) /\ ShowsLast(r) /\ r.control.scale = position
        /\ c.scale = position => r.control.spin = c.spin
        /\ c.scale # position =>
             /\ HasSpin(c.look) => r.control.spin = ValueAt(c.look, position)
             /\ r.sent # <<>>
    BY <1>0, <1>1, MoveScaleIs
  <2>2. Alike(c, r.control) /\ r.control.look = c.look /\ r.control.widget = c.widget
        /\ r.control.writable = c.writable
    BY <2>1 DEF Handled, Alike
  <2>3. HasSpin(c.look) => position \in Positions(c.look)
    BY <1>1, PlaceIs
  <2>4. Coherent(r.control)
    BY <2>1, <2>2, <2>3 DEF Coherent, Places
  <2>5. ASSUME r.sent = <<>>, NEW v, Shows(c, v)
        PROVE  Shows(r.control, v)
    <3>1. c.look # "text"
      BY <1>1 DEF Looks
    <3>2. r.control.scale = c.scale /\ r.control.spin = c.spin
      BY <2>1, <2>5
    <3> QED
      BY <1>0, <2>2, <2>5, <3>1, <3>2, ShowsSame
  <2> QED
    BY <2>1, <2>4, <2>5
<1>2. ASSUME HasSpin(c.look), NEW v \in Marks, r = TurnSpin(s, v)
      PROVE  /\ Handled(c, r) /\ ShowsLast(r) /\ Coherent(r.control)
             /\ r.sent = <<>> => \A w : Shows(c, w) => Shows(r.control, w)
  <2>1. /\ Handled(c, r) /\ ShowsLast(r) /\ r.control.spin = v
        /\ (c.spin = v \/ r.sent = <<>>) => r.control.scale = c.scale
        /\ c.spin # v =>
             r.control.scale \in Positions(c.look) /\ ValueAt(c.look, r.control.scale) = v
    BY <1>0, <1>2, TurnSpinIs
  <2>2. Alike(c, r.control) /\ r.control.look = c.look /\ r.control.widget = c.widget
        /\ r.control.writable = c.writable
    BY <2>1 DEF Handled, Alike
  <2>3. c.scale \in Positions(c.look) /\ c.spin = ValueAt(c.look, c.scale)
    BY <1>2 DEF Coherent
  <2>4. Coherent(r.control)
    BY <1>2, <2>1, <2>2, <2>3 DEF Coherent, HasSpin
  <2>5. ASSUME r.sent = <<>>, NEW w, Shows(c, w)
        PROVE  Shows(r.control, w)
    <3>1. c.look # "text"
      BY <1>2 DEF HasSpin
    <3>2. r.control.scale = c.scale /\ r.control.spin = c.spin
      BY <2>1, <2>3, <2>5
    <3> QED
      BY <1>0, <2>2, <2>5, <3>1, <3>2, ShowsSame
  <2> QED
    BY <2>1, <2>4, <2>5
<1>3. CASE c.look = "switch"
  <2>1. Moves(c, inputs) = {MoveScale(s, 1 - c.scale)}
    <3>1. ~HasSpin(c.look)
      BY <1>3 DEF HasSpin
    <3> QED
      BY <1>3, <3>1, Zenon DEF Moves
  <2>2. (1 - c.scale) \in Places(c.look) /\ c.look \in Looks
    BY <1>3 DEF Places, Looks, Coherent
  <2> QED
    BY <1>1, <1>3, <2>1, <2>2
<1>4. CASE c.look = "combo"
  <2>1. Moves(c, inputs) = {MoveScale(s, p) : p \in Points}
    <3>1. ~HasSpin(c.look)
      BY <1>4 DEF HasSpin
    <3> QED
      BY <1>4, <3>1, Zenon DEF Moves
  <2>2. Points = Places(c.look) /\ c.look \in Looks
    BY <1>4 DEF Places, Looks
  <2> QED
    BY <1>1, <1>4, <2>1, <2>2
<1>5. CASE HasSpin(c.look)
  <2>1. Moves(c, inputs) = {MoveScale(s, p) : p \in Positions(c.look)}
                             \union {TurnSpin(s, v) : v \in Marks}
    <3>1. c.look \notin {"switch", "combo", "spinner"}
      BY <1>5 DEF HasSpin
    <3> QED
      BY <1>5, <3>1, Zenon DEF Moves
  <2>2. Positions(c.look) = Places(c.look) /\ c.look \in Looks /\ c.look # "text"
    BY <1>5 DEF Places, Positions, Looks, HasSpin
  <2>3. CASE \E p \in Positions(c.look) : r = MoveScale(s, p)
    BY <1>1, <2>2, <2>3
  <2>4. CASE \E v \in Marks : r = TurnSpin(s, v)
    BY <1>2, <1>5, <2>2, <2>4
  <2> QED
    BY <2>1, <2>3, <2>4
<1>6. CASE c.look = "spinner"
  <2>1. Moves(c, inputs) = {MoveScale(s, v) : v \in inputs \cap Nat}
    <3>1. ~HasSpin(c.look)
      BY <1>6 DEF HasSpin
    <3> QED
      BY <1>6, <3>1, Zenon DEF Moves
  <2>2. inputs \cap Nat \subseteq Places(c.look) /\ c.look \in Looks
    BY <1>6 DEF Places, Looks
  <2> QED
    BY <1>1, <1>6, <2>1, <2>2
<1>7. c.look # "text"
  <2>1. ASSUME c.look = "text" PROVE Moves(c, inputs) = {}
    <3>1. ~HasSpin(c.look)
      BY <2>1 DEF HasSpin
    <3> QED
      BY <2>1, <3>1, Zenon DEF Moves
  <2> QED
    BY <2>1
<1> QED
  BY <1>0, <1>3, <1>4, <1>5, <1>6, <1>7 DEF ControlRecord, Looks, HasSpin

-----------------------------------------------------------------------------
(* The types of the panel.                                                 *)

PortIds == 0..(Len(plugin.ports) - 1)

\* A value for each of some ports.
Partial(f) == DOMAIN f \subseteq PortIds /\ \A p \in DOMAIN f : f[p] \in Values

\* The record of a control port has the port's data.
OfPort(c) ==
  /\ c.id \in 0..(Len(ports) - 1)
  /\ plugin.ports[c.id + 1].class = "control"
  /\ c.look = plugin.ports[c.id + 1].look
  /\ c.writable = (plugin.ports[c.id + 1].flow = "input")

OpeningTyped ==
  /\ plugin \in Plugins /\ frontend \in Frontends
  /\ phase \in {"ports", "writable", "readable", "instantiate", "arguments",
                "window", "running", "failed"}
  /\ left \subseteq plugin.properties
  /\ making \in plugin.properties \union {NoProperty}
  /\ ports \in Seq([flow : {"input", "output", "none"},
                    type : {"control", "audio", "event", "unknown"}])
  /\ Len(ports) <= Len(plugin.ports)
  /\ \A i \in DOMAIN ports : /\ ports[i].flow = plugin.ports[i].flow
                             /\ ports[i].type = TypeOf(plugin.ports[i])
  /\ controlIn \in -1..(Len(ports) - 1)
  /\ making # NoProperty => phase \in {"writable", "readable"}

ControlsTyped ==
  /\ controls \in Seq(ControlRecord)
  /\ \A i \in DOMAIN controls :
       /\ ControlOK(controls[i]) /\ Coherent(controls[i])
       /\ controls[i].kind = "port" => OfPort(controls[i])

RingsTyped ==
  /\ buf \in [PortIds -> Values]
  /\ Partial(pending) /\ Partial(toUi)
  /\ crossed \subseteq PortIds
  /\ \A state \in disk : Partial(state)
  /\ DOMAIN dials \subseteq PortIds

\* Before the window is there, no control has a widget or needs memory.
Early ==
  phase # "running" =>
    /\ \A i \in DOMAIN controls : ~controls[i].widget /\ Held(controls[i].value) = 0
    /\ dials = <<>> /\ blocks = 0 /\ lost = 0 /\ fault = "none"

PanelTyped == OpeningTyped /\ ControlsTyped /\ RingsTyped /\ Early

-----------------------------------------------------------------------------
LEMMA PluginIs ==
  ASSUME plugin \in Plugins
  PROVE  /\ plugin.ports \in Seq(PortData) /\ Len(plugin.ports) \in Nat
         /\ DOMAIN plugin.ports = 1..Len(plugin.ports)
         /\ \A i \in 1..Len(plugin.ports) :
              /\ plugin.ports[i] \in PortData
              /\ plugin.ports[i].class = "control" => plugin.ports[i].look \in Looks
         /\ plugin.properties \subseteq PropertyData /\ IsFiniteSet(plugin.properties)
         /\ \A q, r \in plugin.properties : q.uri = r.uri => q = r
         /\ plugin.maps \subseteq Symbol
         /\ plugin.inputs \subseteq Values /\ plugin.shipped \in Values
<1>1. /\ plugin.ports \in Seq(PortData)
      /\ \A i \in DOMAIN plugin.ports :
           plugin.ports[i].class = "control" => plugin.ports[i].look \in Looks
      /\ plugin.properties \subseteq PropertyData /\ IsFiniteSet(plugin.properties)
      /\ \A q, r \in plugin.properties : q.uri = r.uri => q = r
      /\ plugin.maps \subseteq Symbol
      /\ plugin.inputs \subseteq Values /\ plugin.shipped \in Values
  BY PluginsAssumption
<1> QED
  BY <1>1

LEMMA TypeOfIs ==
  ASSUME NEW p
  PROVE  /\ TypeOf(p) \in {"control", "audio", "event", "unknown"}
         /\ TypeOf(p) = "control" <=> p.class = "control"
         /\ TypeOf(p) = "event" <=> p.class = "atom"
<1>1. CASE p.class \in {"control", "audio"}
  <2>1. p.class # "atom"
    BY <1>1
  <2>2. TypeOf(p) = p.class
    BY <1>1, <2>1, Zenon DEF TypeOf
  <2> QED
    BY <1>1, <2>2
<1>2. CASE p.class = "atom"
  <2>1. p.class \notin {"control", "audio"}
    BY <1>2
  <2>2. TypeOf(p) = "event"
    BY <1>2, <2>1, Zenon DEF TypeOf
  <2> QED
    BY <1>2, <2>2
<1>3. CASE p.class \notin {"control", "audio"} /\ p.class # "atom"
  <2>1. TypeOf(p) = "unknown"
    BY <1>3, Zenon DEF TypeOf
  <2> QED
    BY <1>3, <2>1
<1> QED
  BY <1>1, <1>2, <1>3

LEMMA OverIs ==
  ASSUME NEW f, NEW g
  PROVE  /\ DOMAIN Over(f, g) = DOMAIN f \union DOMAIN g
         /\ \A p \in DOMAIN f \union DOMAIN g :
              Over(f, g)[p] = IF p \in DOMAIN f THEN f[p] ELSE g[p]
BY DEF Over

LEMMA OverPartial ==
  ASSUME NEW f, NEW g, Partial(f), Partial(g)
  PROVE  Partial(Over(f, g))
<1> DEFINE h == Over(f, g)
<1>1. /\ DOMAIN h = DOMAIN f \union DOMAIN g
      /\ \A p \in DOMAIN f \union DOMAIN g : h[p] = IF p \in DOMAIN f THEN f[p] ELSE g[p]
  BY DEF Over
<1> HIDE DEF h
<1>2. Partial(h)
  BY <1>1 DEF Partial
<1> QED
  BY <1>2 DEF h

\* A sequence with a place for each place of another.
LEMMA SameLength ==
  ASSUME NEW S, NEW s \in Seq(S), NEW T, NEW t \in [DOMAIN s -> T]
  PROVE  t \in Seq(T) /\ Len(t) = Len(s) /\ DOMAIN t = DOMAIN s
<1>1. DOMAIN s = 1..Len(s) /\ Len(s) \in Nat
  OBVIOUS
<1>2. t \in Seq(T)
  BY <1>1, SeqDef
<1>3. DOMAIN t = 1..Len(t) /\ Len(t) \in Nat
  BY <1>2
<1> QED
  BY <1>1, <1>2, <1>3

\* Controls that are made anew one by one keep their types.
LEMMA RemadeTyped ==
  ASSUME ControlsTyped, NEW new, controls' = new, DOMAIN new = DOMAIN controls,
         new = [i \in DOMAIN new |-> new[i]],
         \A i \in DOMAIN controls :
           ControlOK(new[i]) /\ Coherent(new[i]) /\ Alike(controls[i], new[i]),
         UNCHANGED <<plugin, ports>>
  PROVE  ControlsTyped'
<1>1. \A i \in DOMAIN controls : new[i] \in ControlRecord
  BY DEF ControlOK
<1>2. new \in [DOMAIN controls -> ControlRecord]
  BY <1>1
<1>3. new \in Seq(ControlRecord)
  BY <1>2, SameLength DEF ControlsTyped
<1>4. ASSUME NEW i \in DOMAIN controls, new[i].kind = "port"
      PROVE  OfPort(new[i])'
  <2>1. OfPort(controls[i])
    BY <1>4 DEF ControlsTyped, Alike
  <2> QED
    BY <2>1 DEF OfPort, Alike
<1> QED
  BY <1>3, <1>4 DEF ControlsTyped

LEMMA OneRemade ==
  ASSUME ControlsTyped, NEW i \in DOMAIN controls, NEW d,
         ControlOK(d), Coherent(d), Alike(controls[i], d),
         controls' = [controls EXCEPT ![i] = d], UNCHANGED <<plugin, ports>>
  PROVE  ControlsTyped'
<1> DEFINE new == [controls EXCEPT ![i] = d]
<1>1. /\ DOMAIN new = DOMAIN controls /\ new[i] = d
      /\ \A j \in DOMAIN controls : j # i => new[j] = controls[j]
      /\ new = [j \in DOMAIN new |-> new[j]]
  BY DEF ControlsTyped
<1>2. \A j \in DOMAIN controls :
        ControlOK(controls[j]) /\ Coherent(controls[j]) /\ Alike(controls[j], controls[j])
  BY DEF ControlsTyped, Alike
<1> HIDE DEF new
<1>3. \A j \in DOMAIN controls :
        ControlOK(new[j]) /\ Coherent(new[j]) /\ Alike(controls[j], new[j])
  BY <1>1, <1>2
<1>4. controls' = new
  BY DEF new
<1> QED
  BY <1>1, <1>3, <1>4, RemadeTyped

LEMMA SinglePartial ==
  ASSUME NEW p \in PortIds, NEW v \in Values
  PROVE  Partial([q \in {p} |-> v]) /\ DOMAIN [q \in {p} |-> v] = {p}
         /\ [q \in {p} |-> v][p] = v
BY DEF Partial

\* What handlers release is what the value has held.
LEMMA ReleasedIs ==
  ASSUME NEW c, ControlOK(c), NEW s, Handled(c, s)
  PROVE  Released(c, s.sent) \in Int
         /\ Held(s.control.value) = Held(c.value) + Released(c, s.sent)
<1>1. CASE s.sent = <<>>
  BY <1>1 DEF Handled, Released, Held
<1>2. CASE s.sent # <<>>
  <2>1. Blocks(c.value, 4) = 0 - Held(c.value)
    BY NumberCounts, TypesApart, ValuesAre DEF ControlOK
  <2> QED
    BY <1>2, <2>1 DEF Handled, Released, Held
<1> QED
  BY <1>1, <1>2

\* jalv_write_control keeps the rings' types.
LEMMA WriteTyped ==
  ASSUME PanelTyped, NEW i \in DOMAIN controls, NEW sent \in Seq(Values),
         Write(controls[i], sent), UNCHANGED <<plugin, buf, toUi, disk, dials>>
  PROVE  RingsTyped'
<1> DEFINE c == controls[i]
<1>0. PortIds' = PortIds
  BY DEF PortIds
<1>1. CASE c.kind = "property" \/ sent = <<>>
  BY <1>0, <1>1 DEF Write, PanelTyped, RingsTyped, Partial
<1>2. CASE c.kind # "property" /\ sent # <<>>
  <2>1. c.kind = "port" /\ OfPort(c)
    BY <1>2 DEF PanelTyped, ControlsTyped, ControlRecord, ControlOK
  <2>2. c.id \in PortIds
    <3>1. Len(ports) <= Len(plugin.ports) /\ Len(ports) \in Nat /\ Len(plugin.ports) \in Nat
      BY PluginIs DEF PanelTyped, OpeningTyped
    <3> QED
      BY <2>1, <3>1 DEF OfPort, PortIds
  <2>3. sent[Len(sent)] \in Values
    BY <1>2
  <2> DEFINE new == [p \in {c.id} |-> sent[Len(sent)]]
  <2>4. Partial(new)
    BY <2>2, <2>3, SinglePartial
  <2> HIDE DEF new
  <2>5. pending' = Over(new, pending)
    BY <1>2 DEF Write, new
  <2>6. Partial(Over(new, pending))
    BY <2>4, OverPartial DEF PanelTyped, RingsTyped
  <2>7. crossed' \subseteq PortIds
    BY <1>2, <2>2 DEF Write, PanelTyped, RingsTyped
  <2> QED
    BY <1>0, <2>5, <2>6, <2>7 DEF PanelTyped, RingsTyped, Partial
<1> QED
  BY <1>1, <1>2

\* The ports of the controls that are there.
LEMMA InputPortsAre ==
  ASSUME PanelTyped
  PROVE  InputPorts \subseteq PortIds
         /\ \A i \in DOMAIN controls : controls[i].kind = "port" => controls[i].id \in PortIds
<1>1. ASSUME NEW i \in DOMAIN controls, controls[i].kind = "port"
      PROVE  controls[i].id \in PortIds
  <2>1. Len(ports) <= Len(plugin.ports) /\ Len(ports) \in Nat /\ Len(plugin.ports) \in Nat
    BY PluginIs DEF PanelTyped, OpeningTyped
  <2>2. OfPort(controls[i])
    BY <1>1 DEF PanelTyped, ControlsTyped
  <2> QED
    BY <2>1, <2>2 DEF OfPort, PortIds
<1> QED
  BY <1>1 DEF InputPorts, InputControls

\* set_port_value of the values of a state.
LEMMA SetPortValuesTyped ==
  ASSUME PanelTyped, NEW values, Partial(values), NEW paused \in BOOLEAN,
         SetPortValues(values, paused), UNCHANGED <<plugin, ports, disk, dials>>
  PROVE  /\ ControlsTyped' /\ RingsTyped'
         /\ DOMAIN controls' = DOMAIN controls
         /\ \A i \in DOMAIN controls :
              /\ controls'[i].widget = controls[i].widget
              /\ Held(controls'[i].value) = Held(controls[i].value)
<1>0. PortIds' = PortIds
  BY DEF PortIds
<1> DEFINE new == [i \in DOMAIN controls |->
             IF controls[i].kind = "port" /\ controls[i].id \in DOMAIN values
             THEN [controls[i] EXCEPT !.value = Put(@, "Float", values[controls[i].id])]
             ELSE controls[i]]
<1>1. ASSUME NEW i \in DOMAIN controls
      PROVE  /\ ControlOK(new[i]) /\ Coherent(new[i]) /\ Alike(controls[i], new[i])
             /\ new[i].widget = controls[i].widget
             /\ Held(new[i].value) = Held(controls[i].value)
  <2> DEFINE c == controls[i]
  <2>0. c \in ControlRecord /\ ControlOK(c) /\ Coherent(c)
    BY DEF PanelTyped, ControlsTyped, ControlOK
  <2>1. CASE ~(c.kind = "port" /\ c.id \in DOMAIN values)
    <3>1. new[i] = c
      BY <2>1
    <3> QED
      BY <2>0, <3>1 DEF Alike
  <2>2. CASE c.kind = "port" /\ c.id \in DOMAIN values
    <3> DEFINE value == Put(c.value, "Float", values[c.id])
               d == [c EXCEPT !.value = value]
    <3>1. new[i] = d
      BY <2>2
    <3>2. values[c.id] \in Values /\ "Float" \in Numbers /\ ValueOK(c.value)
      BY <2>0, <2>2, TypesApart DEF Partial, ControlOK
    <3>3. ValueOK(value) /\ Held(value) = 0 /\ value.type = "Float"
      BY <3>2, NumberCounts
    <3>4. Held(c.value) = 0
      BY <2>0, <2>2, <3>2, NumberIsShort DEF ControlOK
    <3> HIDE DEF value
    <3>5. /\ d \in ControlRecord /\ d.value = value /\ Alike(c, d)
          /\ d.widget = c.widget /\ d.scale = c.scale /\ d.spin = c.spin
      BY <2>0, <3>3 DEF ControlRecord, Alike, ValueOK
    <3> HIDE DEF d
    <3>6. ControlOK(d) /\ Coherent(d)
      BY <2>0, <3>2, <3>3, <3>5 DEF ControlOK, Coherent, Alike
    <3> QED
      BY <3>1, <3>3, <3>4, <3>5, <3>6
  <2> QED
    BY <2>1, <2>2
<1>2. controls' = new /\ DOMAIN new = DOMAIN controls /\ new = [i \in DOMAIN new |-> new[i]]
  BY DEF SetPortValues
<1> HIDE DEF new
<1>3. ControlsTyped'
  BY <1>1, <1>2, RemadeTyped DEF PanelTyped
<1>4. Partial(pending) /\ Partial(toUi) /\ Partial(buf) /\ buf \in [PortIds -> Values]
      /\ crossed \subseteq PortIds /\ DOMAIN dials \subseteq PortIds
      /\ \A state \in disk : Partial(state)
  BY DEF PanelTyped, RingsTyped, Partial
<1>5. Partial(toUi') /\ crossed' \subseteq PortIds
  BY <1>4, OverPartial DEF SetPortValues
<1>6. buf' \in [PortIds -> Values] /\ Partial(pending')
  <2>1. CASE paused
    <3> DEFINE rest == Over(pending, buf)
               all == Over(values, rest)
    <3>1. Partial(rest) /\ DOMAIN rest = PortIds
      BY <1>4, OverPartial, OverIs DEF Partial
    <3> HIDE DEF rest
    <3>2. Partial(all) /\ DOMAIN all = PortIds /\ all = [p \in DOMAIN all |-> all[p]]
      <4>1. Partial(all) /\ DOMAIN all = PortIds
        <5>1. Partial(all)
          BY <1>0, <3>1, OverPartial
        <5>2. DOMAIN all = DOMAIN values \union DOMAIN rest
          BY DEF Over
        <5>3. DOMAIN values \subseteq PortIds
          BY DEF Partial
        <5> QED
          BY <3>1, <5>1, <5>2, <5>3
      <4> QED
        BY <4>1 DEF Over
    <3> HIDE DEF all
    <3>3. buf' = all /\ pending' = <<>>
      BY <2>1 DEF SetPortValues, all, rest
    <3> QED
      BY <3>2, <3>3 DEF Partial
  <2>2. CASE ~paused
    BY <1>4, <2>2, OverPartial DEF SetPortValues
  <2> QED
    BY <2>1, <2>2
<1>7. RingsTyped'
  BY <1>0, <1>4, <1>5, <1>6 DEF RingsTyped, Partial
<1> QED
  BY <1>1, <1>2, <1>3, <1>7

-----------------------------------------------------------------------------
(* The memory of values.                                                   *)

Pointers == {i \in DOMAIN controls : controls[i].value.word = "pointer"}

Storage ==
  /\ lost \in 0..MaxLost /\ blocks \in Nat
  /\ blocks = lost + Cardinality(Pointers)

MenuTyped ==
  /\ menu \subseteq {"shipped", "mine"}
  /\ fault \in {"none", "realloc", "value", "uri", "freed"}

PanelInv == PanelTyped /\ Storage /\ MenuTyped

LEMMA PointersFinite ==
  ASSUME ControlsTyped
  PROVE  /\ DOMAIN controls = 1..Len(controls) /\ Len(controls) \in Nat
         /\ IsFiniteSet(DOMAIN controls)
         /\ IsFiniteSet(Pointers) /\ Cardinality(Pointers) \in Nat
<1>1. DOMAIN controls = 1..Len(controls) /\ Len(controls) \in Nat
  BY DEF ControlsTyped
<1>2. IsFiniteSet(DOMAIN controls)
  BY <1>1, FS_Interval
<1>3. Pointers \subseteq DOMAIN controls
  BY DEF Pointers
<1>4. IsFiniteSet(Pointers)
  BY <1>2, <1>3, FS_Subset
<1> QED
  BY <1>1, <1>2, <1>4, FS_CardinalityType

\* One control is replaced, and blocks are counted as its value needs.
LEMMA OneCounted ==
  ASSUME ControlsTyped, Storage, NEW i \in DOMAIN controls, NEW d,
         controls' = [controls EXCEPT ![i] = d],
         lost' \in 0..MaxLost, blocks' \in Int,
         blocks' - lost' = blocks - lost + Held(d.value) - Held(controls[i].value)
  PROVE  Storage'
<1>1. /\ IsFiniteSet(Pointers) /\ Cardinality(Pointers) \in Nat
      /\ MaxLost \in Nat /\ lost' \in Int /\ lost \in Int /\ blocks \in Int
  BY PointersFinite, PluginsAssumption DEF Storage
<1>2. /\ DOMAIN controls' = DOMAIN controls /\ controls'[i] = d
      /\ \A j \in DOMAIN controls : j # i => controls'[j] = controls[j]
  BY DEF ControlsTyped
<1>3. Pointers' = {j \in DOMAIN controls' : controls'[j].value.word = "pointer"}
  BY DEF Pointers
<1>4. i \in Pointers <=> Held(controls[i].value) = 1
  BY DEF Pointers, Held
<1>5. i \notin Pointers <=> Held(controls[i].value) = 0
  BY DEF Pointers, Held
<1>6. CASE d.value.word = "pointer"
  <2>1. Pointers' = Pointers \union {i} /\ Held(d.value) = 1
    BY <1>2, <1>3, <1>6 DEF Pointers, Held
  <2>2. IsFiniteSet(Pointers') /\ Cardinality(Pointers') =
          IF i \in Pointers THEN Cardinality(Pointers) ELSE Cardinality(Pointers) + 1
    BY <1>1, <2>1, FS_AddElement
  <2>3. Cardinality(Pointers') = Cardinality(Pointers) + 1 - Held(controls[i].value)
    BY <1>1, <1>4, <1>5, <2>2
  <2>4. Cardinality(Pointers') \in Nat
    BY <2>2, FS_CardinalityType
  <2>5. blocks = lost + Cardinality(Pointers) /\ Held(controls[i].value) \in Int
    BY DEF Storage, Held
  <2>6. blocks' = lost' + Cardinality(Pointers') /\ blocks' \in Nat
    BY <1>1, <2>1, <2>3, <2>4, <2>5
  <2> QED
    BY <2>6 DEF Storage
<1>7. CASE d.value.word # "pointer"
  <2>1. Pointers' = Pointers \ {i} /\ Held(d.value) = 0
    BY <1>2, <1>3, <1>7 DEF Pointers, Held
  <2>2. IsFiniteSet(Pointers') /\ Cardinality(Pointers') =
          IF i \in Pointers THEN Cardinality(Pointers) - 1 ELSE Cardinality(Pointers)
    BY <1>1, <2>1, FS_RemoveElement
  <2>3. Cardinality(Pointers') = Cardinality(Pointers) - Held(controls[i].value)
    BY <1>1, <1>4, <1>5, <2>2
  <2>4. Cardinality(Pointers') \in Nat
    BY <2>2, FS_CardinalityType
  <2>5. blocks = lost + Cardinality(Pointers) /\ Held(controls[i].value) \in Int
    BY DEF Storage, Held
  <2>6. blocks' = lost' + Cardinality(Pointers') /\ blocks' \in Nat
    BY <1>1, <2>1, <2>3, <2>4, <2>5
  <2> QED
    BY <2>6 DEF Storage
<1> QED
  BY <1>6, <1>7

\* Every control holds what it has held.
LEMMA AllCounted ==
  ASSUME Storage, DOMAIN controls' = DOMAIN controls,
         \A i \in DOMAIN controls : Held(controls'[i].value) = Held(controls[i].value),
         UNCHANGED <<blocks, lost>>
  PROVE  Storage'
<1>1. Pointers' = {i \in DOMAIN controls' : controls'[i].value.word = "pointer"}
  BY DEF Pointers
<1>2. \A i \in DOMAIN controls :
        controls'[i].value.word = "pointer" <=> controls[i].value.word = "pointer"
  BY DEF Held
<1>3. Pointers' = Pointers
  BY <1>1, <1>2 DEF Pointers
<1> QED
  BY <1>3 DEF Storage

\* No control needs memory.
LEMMA NoneCounted ==
  ASSUME \A i \in DOMAIN controls : Held(controls[i].value) = 0, blocks = 0, lost = 0
  PROVE  Storage
<1>1. Pointers = {}
  BY DEF Pointers, Held
<1>2. Cardinality(Pointers) = 0
  BY <1>1, FS_EmptySet
<1> QED
  BY <1>2, PluginsAssumption DEF Storage

\* A control is set, with what its handlers do.
LEMMA OneHandled ==
  ASSUME PanelTyped, Storage, NEW i \in DOMAIN controls, NEW set, NEW s,
         ControlOK(set), Coherent(set), Alike(controls[i], set),
         Handled(set, s), Coherent(s.control),
         controls' = [controls EXCEPT ![i] = s.control], UNCHANGED <<plugin, ports>>,
         lost' \in 0..MaxLost,
         blocks' \in Int,
         blocks' - lost' = blocks - lost + Held(s.control.value) - Held(controls[i].value)
  PROVE  ControlsTyped' /\ Storage'
<1>1. ControlsTyped
  BY DEF PanelTyped
<1>2. ControlOK(s.control) /\ Alike(controls[i], s.control)
  BY DEF Handled, Alike
<1>3. ControlsTyped'
  BY <1>1, <1>2, OneRemade
<1> QED
  BY <1>1, <1>3, OneCounted

\* What has to be shown of a step of the running program.
LEMMA RunningKeeps ==
  ASSUME PanelInv, UNCHANGED opening, phase = "running",
         ControlsTyped', RingsTyped', Storage', MenuTyped'
  PROVE  PanelInv'
<1>1. OpeningTyped'
  <2>1. OpeningTyped /\ UNCHANGED <<plugin, frontend, phase, left, making, ports, controlIn>>
    BY DEF PanelInv, PanelTyped, opening
  <2> QED
    BY <2>1 DEF OpeningTyped
<1>2. Early'
  BY DEF Early, opening
<1> QED
  BY <1>1, <1>2 DEF PanelInv, PanelTyped

LEMMA SameRings ==
  ASSUME RingsTyped, UNCHANGED <<plugin, rings, disk, dials>>
  PROVE  RingsTyped'
<1>1. PortIds' = PortIds
  BY DEF PortIds
<1> QED
  BY <1>1 DEF RingsTyped, Partial, rings

LEMMA SameControls ==
  ASSUME ControlsTyped, UNCHANGED <<plugin, ports, controls>>
  PROVE  ControlsTyped' /\ (Storage /\ UNCHANGED <<blocks, lost>> => Storage')
<1>1. ControlsTyped'
  BY DEF ControlsTyped, OfPort
<1>2. Pointers' = Pointers
  BY DEF Pointers
<1> QED
  BY <1>1, <1>2 DEF Storage

-----------------------------------------------------------------------------
(* The steps of the running program.                                       *)

\* A value is set without a frontend's handlers, or before they are called.
LEMMA SetNumberOf ==
  ASSUME NEW c, ControlOK(c), Coherent(c), NEW type \in Numbers, NEW v \in Values,
         c.kind = "port" => type = "Float"
  PROVE  LET d == [c EXCEPT !.value = Put(@, type, v)]
         IN /\ ControlOK(d) /\ Coherent(d) /\ Alike(c, d) /\ Held(d.value) = 0
            /\ d.value.body = v /\ Number(d.value) = v
            /\ d.widget = c.widget /\ d.scale = c.scale /\ d.spin = c.spin
<1> DEFINE value == Put(c.value, type, v)
           d == [c EXCEPT !.value = value]
<1>1. ValueOK(c.value) /\ c \in ControlRecord
  BY DEF ControlOK
<1>2. ValueOK(value) /\ Held(value) = 0 /\ value.type = type /\ value.body = v /\ Number(value) = v
  BY <1>1, NumberCounts
<1>3. value \in ValueRecord
  BY <1>2 DEF ValueOK
<1> HIDE DEF value
<1>4. /\ d \in ControlRecord /\ d.value = value /\ Alike(c, d)
      /\ d.widget = c.widget /\ d.scale = c.scale /\ d.spin = c.spin
  BY <1>1, <1>3 DEF ControlRecord, Alike
<1> HIDE DEF d
<1>5. ControlOK(d) /\ Coherent(d)
  BY <1>1, <1>2, <1>4 DEF ControlOK, Coherent, Alike
<1>6. [c EXCEPT !.value = Put(@, type, v)] = d
  BY DEF d, value
<1> QED
  BY <1>2, <1>4, <1>5, <1>6

\* A value of any type comes into a control that is no port's.
LEMMA SetAnyOf ==
  ASSUME NEW c, ControlOK(c), Coherent(c), c.kind # "port", NEW value, ValueOK(value)
  PROVE  LET d == [c EXCEPT !.value = value]
         IN /\ ControlOK(d) /\ Coherent(d) /\ Alike(c, d) /\ d.value = value
            /\ d.widget = c.widget /\ d.scale = c.scale /\ d.spin = c.spin
<1> DEFINE d == [c EXCEPT !.value = value]
<1>1. ValueOK(c.value) /\ c \in ControlRecord
  BY DEF ControlOK
<1>3. value \in ValueRecord
  BY DEF ValueOK
<1>4. /\ d \in ControlRecord /\ d.value = value /\ Alike(c, d)
      /\ d.widget = c.widget /\ d.scale = c.scale /\ d.spin = c.spin
  BY <1>1, <1>3 DEF ControlRecord, Alike
<1> HIDE DEF d
<1>5. ControlOK(d) /\ Coherent(d)
  BY <1>1, <1>4 DEF ControlOK, Coherent, Alike
<1> QED
  BY <1>4, <1>5 DEF d

LEMMA FollowedIs ==
  ASSUME NEW c, NEW body
  PROVE  /\ Followed("typed", c, body) = Quiet([c EXCEPT !.scale = body])
         /\ Followed("update", c, body) = Changed(c)
         /\ Followed("set", c, body) = Quiet(c)
BY Zenon DEF Followed

LEMMA TypedIs ==
  ASSUME NEW c, ControlOK(c), c.look = "text", NEW n \in Int
  PROVE  LET s == Quiet([c EXCEPT !.scale = n])
         IN Handled(c, s) /\ Coherent(s.control) /\ s.sent = <<>>
<1> DEFINE d == [c EXCEPT !.scale = n]
<1>1. /\ d \in ControlRecord /\ d.value = c.value /\ Alike(c, d) /\ d.widget = c.widget
  BY DEF ControlRecord, Alike, ControlOK
<1> HIDE DEF d
<1>2. ControlOK(d) /\ Coherent(d)
  BY <1>1 DEF ControlOK, Coherent, Alike, HasSpin
<1>3. Quiet(d).control = d /\ Quiet(d).sent = <<>> /\ Handled(d, Quiet(d))
  BY <1>2, QuietIs
<1> QED
  BY <1>1, <1>2, <1>3 DEF d, Handled, Alike

LEMMA MovesKeep ==
  ASSUME PanelInv, UserMoves
  PROVE  PanelInv'
<1>1. PICK i \in DOMAIN controls :
        /\ controls[i].widget /\ controls[i].writable
        /\ \E s \in Moves(controls[i], plugin.inputs) :
             /\ controls' = [controls EXCEPT ![i] = s.control]
             /\ Write(controls[i], s.sent)
             /\ blocks' = blocks + Released(controls[i], s.sent)
  BY DEF UserMoves
<1>2. PICK s \in Moves(controls[i], plugin.inputs) :
        /\ controls' = [controls EXCEPT ![i] = s.control]
        /\ Write(controls[i], s.sent)
        /\ blocks' = blocks + Released(controls[i], s.sent)
  BY <1>1
<1>3. UNCHANGED <<opening, dials, buf, toUi, session, lost, fault>> /\ phase = "running"
  BY DEF UserMoves, At
<1>4. ControlOK(controls[i]) /\ Coherent(controls[i])
  BY DEF PanelInv, PanelTyped, ControlsTyped
<1>5. plugin.inputs \subseteq Values
  BY PluginIs DEF PanelInv, PanelTyped, OpeningTyped
<1>6. Handled(controls[i], s) /\ Coherent(s.control)
  BY <1>1, <1>4, <1>5, MovesOK
<1>7. /\ Released(controls[i], s.sent) \in Int
      /\ Held(s.control.value) = Held(controls[i].value) + Released(controls[i], s.sent)
      /\ Held(controls[i].value) \in Int
  BY <1>4, <1>6, ReleasedIs DEF Held
<1>8. lost' \in 0..MaxLost /\ lost' = lost /\ lost \in Int /\ blocks \in Int
  BY <1>3, PluginsAssumption DEF PanelInv, Storage
<1>9. /\ blocks' \in Int
      /\ blocks' - lost' = blocks - lost + Held(s.control.value) - Held(controls[i].value)
  BY <1>2, <1>7, <1>8
<1>10. Alike(controls[i], controls[i]) /\ UNCHANGED <<plugin, ports>>
  BY <1>3 DEF Alike, opening
<1>11. ControlsTyped' /\ Storage'
  BY <1>2, <1>4, <1>6, <1>8, <1>9, <1>10, OneHandled DEF PanelInv
<1>12. RingsTyped'
  <2>1. s.sent \in Seq(Values)
    BY <1>6 DEF Handled, Handling
  <2> QED
    BY <1>2, <1>3, <2>1, WriteTyped DEF PanelInv, opening, session
<1>13. MenuTyped'
  BY <1>3 DEF PanelInv, MenuTyped, session
<1> QED
  BY <1>3, <1>11, <1>12, <1>13, RunningKeeps

LEMMA SetValueKeeps ==
  ASSUME PanelInv, phase = "running", UNCHANGED <<opening, dials, rings, session>>,
         NEW how \in {"typed", "update", "set"}, NEW i \in DOMAIN controls,
         NEW type \in Texts \union Numbers, NEW body, Fits(type, body),
         SetValue(how, i, type, body),
         controls[i].kind # "port",
         how = "typed" => controls[i].look = "text" /\ body \in Int
  PROVE  PanelInv'
<1> DEFINE c == controls[i]
<1>1. PICK o \in Sets(c.value, type, body) :
        /\ lost + o.lost <= MaxLost
        /\ lost' = lost + o.lost
        /\ IF o.status = "undefined"
           THEN fault' = "realloc" /\ UNCHANGED <<controls, blocks>>
           ELSE /\ UNCHANGED fault
                /\ LET set == [c EXCEPT !.value = o.value]
                       s == Followed(how, set, body)
                   IN /\ controls' = [controls EXCEPT ![i] = s.control]
                      /\ blocks' = blocks + o.blocks + Released(set, s.sent)
  BY DEF SetValue
<1>2. ControlOK(c) /\ Coherent(c) /\ ValueOK(c.value)
  BY DEF PanelInv, PanelTyped, ControlsTyped, ControlOK
<1>3. /\ ValueOK(o.value) /\ o.blocks \in Int /\ o.lost \in Nat
      /\ Held(o.value) = Held(c.value) + o.blocks - o.lost
  BY <1>2, SetsCount
<1>4. lost \in Nat /\ blocks \in Int /\ MaxLost \in Nat /\ Held(c.value) \in Int
  BY PluginsAssumption DEF PanelInv, Storage, Held
<1>5. lost' \in 0..MaxLost
  BY <1>1, <1>3, <1>4
<1>6. RingsTyped' /\ UNCHANGED <<plugin, ports, menu>>
  BY SameRings DEF PanelInv, PanelTyped, opening, session
<1>7. CASE o.status = "undefined"
  <2>1. o.lost = 0
    BY <1>7 DEF Sets
  <2>2. lost' = lost /\ fault' = "realloc" /\ UNCHANGED <<controls, blocks>>
    BY <1>1, <1>4, <1>7, <2>1
  <2>3. ControlsTyped' /\ Storage'
    BY <1>6, <2>2, SameControls DEF PanelInv, PanelTyped
  <2>4. MenuTyped'
    BY <1>6, <2>2 DEF PanelInv, MenuTyped
  <2> QED
    BY <1>6, <2>3, <2>4, RunningKeeps
<1>8. CASE o.status # "undefined"
  <2> DEFINE set == [c EXCEPT !.value = o.value]
             s == Followed(how, set, body)
  <2>1. /\ UNCHANGED fault
        /\ controls' = [controls EXCEPT ![i] = s.control]
        /\ blocks' = blocks + o.blocks + Released(set, s.sent)
    BY <1>1, <1>8
  <2>2. ControlOK(set) /\ Coherent(set) /\ Alike(c, set) /\ set.value = o.value
    BY <1>2, <1>3, SetAnyOf
  <2>3. how = "typed" => s = Quiet([set EXCEPT !.scale = body])
    BY FollowedIs
  <2>4. how = "update" => s = Changed(set)
    BY FollowedIs
  <2>5. how = "set" => s = Quiet(set)
    BY FollowedIs
  <2> HIDE DEF s, set
  <2>6. Handled(set, s) /\ Coherent(s.control)
    <3>1. CASE how = "typed"
      <4>1. set.look = "text"
        BY <2>2, <3>1 DEF Alike
      <4> QED
        BY <2>2, <2>3, <3>1, <4>1, TypedIs
    <3>2. CASE how = "update"
      BY <2>2, <2>4, <3>2, ChangedOK
    <3>3. CASE how = "set"
      BY <2>2, <2>5, <3>3, QuietIs
    <3> QED
      BY <3>1, <3>2, <3>3
  <2>7. /\ Released(set, s.sent) \in Int
        /\ Held(s.control.value) = Held(o.value) + Released(set, s.sent)
    BY <2>2, <2>6, ReleasedIs
  <2>8. /\ blocks' \in Int
        /\ blocks' - lost' = blocks - lost + Held(s.control.value) - Held(c.value)
    BY <1>1, <1>3, <1>4, <2>1, <2>7
  <2> HIDE DEF c
  <2>9. ControlsTyped' /\ Storage'
    BY <1>5, <1>6, <2>1, <2>2, <2>6, <2>8, OneHandled DEF PanelInv, c
  <2>10. MenuTyped'
    BY <1>6, <2>1 DEF PanelInv, MenuTyped
  <2> QED
    BY <1>6, <2>9, <2>10, RunningKeeps
<1> QED
  BY <1>7, <1>8

LEMMA FromStringKeeps ==
  ASSUME PanelInv, phase = "running", NEW i \in DOMAIN controls, NEW v \in Values,
         SetFromString(i, v)
  PROVE  PanelInv'
<1> DEFINE c == controls[i]
           d == [c EXCEPT !.value = Put(@, c.type, v)]
<1>1. /\ c.type \in Numbers
      /\ controls' = [controls EXCEPT ![i].value = Put(@, c.type, v)]
      /\ blocks' = blocks + Released(c, <<v>>)
      /\ Write(c, <<v>>)
      /\ UNCHANGED <<opening, dials, buf, toUi, session, lost, fault>>
  BY DEF SetFromString
<1>2. ControlOK(c) /\ Coherent(c) /\ ValueOK(c.value) /\ controls \in Seq(ControlRecord)
  BY DEF PanelInv, PanelTyped, ControlsTyped, ControlOK
<1>3. controls' = [controls EXCEPT ![i] = d]
  BY <1>1, <1>2
<1>4. c.kind = "port" => c.type = "Float"
  BY <1>2 DEF ControlOK
<1>5. ControlOK(d) /\ Coherent(d) /\ Alike(c, d) /\ Held(d.value) = 0
  BY <1>1, <1>2, <1>4, SetNumberOf
<1>6. Released(c, <<v>>) = 0 - Held(c.value)
  <2>1. Blocks(c.value, 4) = 0 - Held(c.value)
    BY <1>1, <1>2, NumberCounts
  <2> QED
    BY <2>1 DEF Released
<1> HIDE DEF d
<1>7. /\ lost' \in 0..MaxLost /\ lost \in Int /\ blocks \in Int /\ lost' = lost
      /\ Held(c.value) \in Int /\ UNCHANGED <<plugin, ports, menu, disk>>
  BY <1>1, PluginsAssumption DEF PanelInv, Storage, Held, opening, session
<1>8. blocks' \in Int /\ blocks' - lost' = blocks - lost + Held(d.value) - Held(c.value)
  BY <1>1, <1>5, <1>6, <1>7
<1>9. ControlsTyped'
  BY <1>3, <1>5, <1>7, OneRemade DEF PanelInv, PanelTyped
<1>10. Storage'
  BY <1>3, <1>7, <1>8, OneCounted DEF PanelInv, PanelTyped
<1>11. RingsTyped'
  <2>1. <<v>> \in Seq(Values)
    OBVIOUS
  <2> QED
    BY <1>1, <1>7, <2>1, WriteTyped DEF PanelInv
<1>12. MenuTyped'
  BY <1>1, <1>7 DEF PanelInv, MenuTyped
<1> QED
  BY <1>1, <1>9, <1>10, <1>11, <1>12, RunningKeeps

LEMMA OnlyOf ==
  ASSUME NEW S, S # {}
  PROVE  Only(S) \in S
BY DEF Only

LEMMA ControlAtIs ==
  ASSUME ControlsTyped, NEW p \in Int, ControlsAt(p) # {}
  PROVE  Only(ControlsAt(p)) = p + 1 /\ p + 1 \in DOMAIN controls
<1>1. Only(ControlsAt(p)) \in ControlsAt(p)
  BY OnlyOf
<1> QED
  BY <1>1 DEF ControlsAt

\* The control at the index of a port gets a value of the ring.
LEMMA PortEventIs ==
  ASSUME PanelInv, NEW p \in DOMAIN toUi, ControlsAt(p) # {}
  PROVE  LET i == Only(ControlsAt(p))
             set == [controls[i] EXCEPT !.value = Put(@, "Float", toUi[p])]
             s == Changed(set)
         IN /\ i = p + 1 /\ i \in DOMAIN controls
            /\ ControlOK(set) /\ Coherent(set) /\ Alike(controls[i], set)
            /\ Number(set.value) = toUi[p] /\ set.widget = controls[i].widget
            /\ Handled(set, s) /\ Coherent(s.control) /\ Held(s.control.value) = 0
            /\ Released(controls[i], <<toUi[p]>>) = 0 - Held(controls[i].value)
            /\ (set.widget /\ set.look # "text") => Shows(s.control, toUi[p])
<1> DEFINE i == Only(ControlsAt(p))
           set == [controls[i] EXCEPT !.value = Put(@, "Float", toUi[p])]
           s == Changed(set)
<1>1. p \in Int /\ toUi[p] \in Values
  BY PluginIs DEF PanelInv, PanelTyped, RingsTyped, Partial, PortIds, OpeningTyped
<1>2. i = p + 1 /\ i \in DOMAIN controls
  BY <1>1, ControlAtIs DEF PanelInv, PanelTyped
<1> HIDE DEF i
<1>3. ControlOK(controls[i]) /\ Coherent(controls[i]) /\ ValueOK(controls[i].value)
  BY <1>2 DEF PanelInv, PanelTyped, ControlsTyped, ControlOK
<1>4. /\ ControlOK(set) /\ Coherent(set) /\ Alike(controls[i], set) /\ Held(set.value) = 0
      /\ Number(set.value) = toUi[p] /\ set.widget = controls[i].widget
  BY <1>1, <1>3, TypesApart, SetNumberOf
<1> HIDE DEF set
<1>5. /\ Handled(set, s) /\ Coherent(s.control)
      /\ (set.widget /\ set.look # "text") => Shows(s.control, Number(set.value))
  BY <1>4, ChangedOK
<1> HIDE DEF s
<1>6. Held(s.control.value) = 0
  BY <1>4, <1>5 DEF Handled
<1>7. Released(controls[i], <<toUi[p]>>) = 0 - Held(controls[i].value)
  <2>1. Blocks(controls[i].value, 4) = 0 - Held(controls[i].value)
    BY <1>1, <1>3, TypesApart, NumberCounts
  <2> QED
    BY <2>1 DEF Released
<1> QED
  BY <1>2, <1>4, <1>5, <1>6, <1>7 DEF i, set, s

LEMMA PortEventKeeps ==
  ASSUME PanelInv, PortEvent
  PROVE  PanelInv'
<1>1. PICK p \in DOMAIN toUi :
       /\ toUi' = [q \in DOMAIN toUi \ {p} |-> toUi[q]]
       /\ IF ControlsAt(p) = {}
          THEN UNCHANGED <<controls, blocks, pending, crossed>>
          ELSE LET i == Only(ControlsAt(p))
                   set == [controls[i] EXCEPT !.value = Put(@, "Float", toUi[p])]
                   s == Changed(set)
               IN /\ controls' = [controls EXCEPT ![i] = s.control]
                  /\ blocks' = blocks + Released(controls[i], <<toUi[p]>>)
                  /\ CutUpdate(controls[i], s.sent)
  BY DEF PortEvent
<1>2. UNCHANGED <<opening, dials, buf, session, lost, fault>> /\ phase = "running"
  BY DEF PortEvent, At
<1>3. UNCHANGED <<pending, crossed, plugin, ports, menu, disk, dials, buf, lost, fault>>
  BY <1>1, <1>2 DEF CutUpdate, opening, session
<1>4. RingsTyped'
  <2>1. PortIds' = PortIds
    BY <1>3 DEF PortIds
  <2>2. DOMAIN toUi' \subseteq DOMAIN toUi /\ \A q \in DOMAIN toUi' : toUi'[q] = toUi[q]
    BY <1>1
  <2> QED
    BY <1>3, <2>1, <2>2 DEF PanelInv, PanelTyped, RingsTyped, Partial
<1>5. MenuTyped'
  BY <1>3 DEF PanelInv, MenuTyped
<1>6. CASE ControlsAt(p) = {}
  <2>1. ControlsTyped' /\ Storage'
    BY <1>1, <1>3, <1>6, SameControls DEF PanelInv, PanelTyped
  <2> QED
    BY <1>2, <1>4, <1>5, <2>1, RunningKeeps
<1>7. CASE ControlsAt(p) # {}
  <2> DEFINE i == Only(ControlsAt(p))
             set == [controls[i] EXCEPT !.value = Put(@, "Float", toUi[p])]
             s == Changed(set)
  <2>1. /\ i \in DOMAIN controls
        /\ ControlOK(set) /\ Coherent(set) /\ Alike(controls[i], set)
        /\ Handled(set, s) /\ Coherent(s.control) /\ Held(s.control.value) = 0
        /\ Released(controls[i], <<toUi[p]>>) = 0 - Held(controls[i].value)
    BY <1>7, PortEventIs
  <2>2. /\ controls' = [controls EXCEPT ![i] = s.control]
        /\ blocks' = blocks + Released(controls[i], <<toUi[p]>>)
    BY <1>1, <1>7
  <2> HIDE DEF s, set, i
  <2>3. /\ lost' \in 0..MaxLost /\ lost \in Int /\ blocks \in Int /\ lost' = lost
        /\ Held(controls[i].value) \in Int
    BY <1>3, PluginsAssumption DEF PanelInv, Storage, Held
  <2>4. /\ blocks' \in Int
        /\ blocks' - lost' = blocks - lost + Held(s.control.value) - Held(controls[i].value)
    BY <2>1, <2>2, <2>3
  <2>5. ControlsTyped' /\ Storage'
    BY <1>3, <2>1, <2>2, <2>3, <2>4, OneHandled DEF PanelInv
  <2> QED
    BY <1>2, <1>4, <1>5, <2>5, RunningKeeps
<1> QED
  BY <1>6, <1>7

\* The values of a state that jalv may apply.
LEMMA StateValues ==
  ASSUME PanelInv
  PROVE  /\ Partial(ShippedValues) /\ Partial(PortValues)
         /\ \A name \in OnDisk : Partial(ValuesOf(name))
<1>1. InputPorts \subseteq PortIds
  BY InputPortsAre DEF PanelInv
<1>2. Partial(ShippedValues)
  BY <1>1, PluginIs DEF PanelInv, PanelTyped, OpeningTyped, ShippedValues, Partial
<1>3. Partial(PortValues)
  BY <1>1 DEF PanelInv, PanelTyped, RingsTyped, PortValues, Partial
<1>4. ASSUME NEW name \in OnDisk PROVE Partial(ValuesOf(name))
  <2>1. CASE name = "shipped"
    BY <1>2, <2>1 DEF ValuesOf
  <2>2. CASE name # "shipped"
    <3>1. disk # {}
      BY <2>2 DEF OnDisk, Listed
    <3>2. Only(disk) \in disk
      BY <3>1, OnlyOf
    <3> QED
      BY <2>2, <3>2 DEF ValuesOf, PanelInv, PanelTyped, RingsTyped
  <2> QED
    BY <2>1, <2>2
<1> QED
  BY <1>2, <1>3, <1>4

LEMMA ApplyTyped ==
  ASSUME PanelInv, NEW name, ApplyPreset(name), UNCHANGED <<plugin, ports, disk, dials>>,
         UNCHANGED <<blocks, lost>>
  PROVE  ControlsTyped' /\ RingsTyped' /\ Storage'
<1>1. CASE name \in OnDisk
  <2>1. SetPortValues(ValuesOf(name), ~plugin.safe) /\ Partial(ValuesOf(name))
    BY <1>1, StateValues DEF ApplyPreset
  <2>2. (~plugin.safe) \in BOOLEAN
    OBVIOUS
  <2>3. /\ ControlsTyped' /\ RingsTyped'
        /\ DOMAIN controls' = DOMAIN controls
        /\ \A i \in DOMAIN controls : Held(controls'[i].value) = Held(controls[i].value)
    BY <2>1, <2>2, SetPortValuesTyped DEF PanelInv
  <2> QED
    BY <2>3, AllCounted DEF PanelInv
<1>2. CASE name \notin OnDisk
  <2>1. UNCHANGED <<controls, rings>>
    BY <1>2 DEF ApplyPreset
  <2>2. RingsTyped'
    BY <2>1, SameRings DEF PanelInv, PanelTyped
  <2> QED
    BY <2>1, <2>2, SameControls DEF PanelInv, PanelTyped
<1> QED
  BY <1>1, <1>2

LEMMA PortsAre ==
  ASSUME PanelInv
  PROVE  /\ plugin.inputs \subseteq Values /\ plugin.shipped \in Values
         /\ \A p \in PortIds : p \in Int /\ plugin.ports[p + 1] \in PortData
         /\ Lengths \subseteq Nat
<1>1. /\ DOMAIN plugin.ports = 1..Len(plugin.ports) /\ Len(plugin.ports) \in Nat
      /\ plugin.inputs \subseteq Values /\ plugin.shipped \in Values
      /\ \A i \in 1..Len(plugin.ports) : plugin.ports[i] \in PortData
  BY PluginIs DEF PanelInv, PanelTyped, OpeningTyped
<1>2. \A p \in PortIds : p \in Int /\ p + 1 \in 1..Len(plugin.ports)
  BY <1>1 DEF PortIds
<1> QED
  BY <1>1, <1>2, PluginsAssumption

LEMMA DialIs ==
  ASSUME NEW look, NEW d \in DialPositions(look)
  PROVE  DialValue(look, d) \in Values
<1>1. CASE look = "log"
  <2>1. d \in 1..3
    BY <1>1, Zenon DEF DialPositions, Steps
  <2>2. DialValue(look, d) = 2 ^ d
    BY <1>1, Zenon DEF DialValue
  <2>3. 2 ^ 1 = 2 /\ 2 ^ 2 = 4 /\ 2 ^ 3 = 8
    OBVIOUS
  <2>4. d = 1 \/ d = 2 \/ d = 3
    BY <2>1
  <2>5. 2 ^ d \in {2, 4, 8}
    BY <2>3, <2>4
  <2> QED
    BY <2>2, <2>5 DEF Values, Lowest, Highest, Marks
<1>2. CASE look = "combo"
  <2>1. DialValue(look, d) = IF d = 0 THEN Lowest ELSE Highest
    BY <1>2, Zenon DEF DialValue
  <2> QED
    BY <2>1 DEF Values, Lowest, Highest, Marks
<1>3. CASE look \notin {"log", "combo"}
  <2>1. DialValue(look, d) = d
    BY <1>3, Zenon DEF DialValue
  <2>2. DialPositions(look) = IF look = "switch" THEN 0..1 ELSE Marks
    <3>1. CASE look = "switch"
      BY <3>1, Zenon DEF DialPositions
    <3>2. CASE look # "switch"
      BY <1>3, <3>2, Zenon DEF DialPositions
    <3> QED
      BY <3>1, <3>2
  <2> QED
    BY <2>1, <2>2 DEF Values, Lowest, Highest, Marks
<1> QED
  BY <1>1, <1>2, <1>3

\* Values that are put into one of the rings.
LEMMA RingsKeep ==
  ASSUME PanelInv, phase = "running", UNCHANGED <<opening, controls, session, memory>>,
         RingsTyped'
  PROVE  PanelInv'
<1>1. UNCHANGED <<plugin, ports, menu, fault, blocks, lost>>
  BY DEF opening, session, memory
<1>2. ControlsTyped' /\ Storage'
  BY <1>1, SameControls DEF PanelInv, PanelTyped
<1>3. MenuTyped'
  BY <1>1 DEF PanelInv, MenuTyped
<1> QED
  BY <1>2, <1>3, RunningKeeps

LEMMA OnePending ==
  ASSUME PanelInv, NEW p \in PortIds, NEW v \in Values
  PROVE  /\ Partial(Over([q \in {p} |-> v], pending))
         /\ Partial(Over([q \in {p} |-> v], toUi))
<1> DEFINE one == [q \in {p} |-> v]
<1>1. Partial(one)
  BY SinglePartial
<1> HIDE DEF one
<1>2. Partial(Over(one, pending)) /\ Partial(Over(one, toUi))
  BY <1>1, OverPartial DEF PanelInv, PanelTyped, RingsTyped
<1> QED
  BY <1>2 DEF one

LEMMA DialKeeps ==
  ASSUME PanelInv, UserTurnsDial
  PROVE  PanelInv'
<1>1. PICK p \in DOMAIN dials :
        LET look == plugin.ports[p + 1].look
        IN \E d \in DialPositions(look) \ {dials[p]} :
             /\ dials' = [dials EXCEPT ![p] = d]
             /\ pending' = Over([q \in {p} |-> DialValue(look, d)], pending)
  BY DEF UserTurnsDial
<1>2. PICK d \in DialPositions(plugin.ports[p + 1].look) \ {dials[p]} :
        /\ dials' = [dials EXCEPT ![p] = d]
        /\ pending' = Over([q \in {p} |-> DialValue(plugin.ports[p + 1].look, d)], pending)
  BY <1>1
<1>3. /\ UNCHANGED <<opening, controls, buf, toUi, crossed, session, memory>>
      /\ phase = "running"
  BY DEF UserTurnsDial, At
<1>4. p \in PortIds /\ DialValue(plugin.ports[p + 1].look, d) \in Values
  BY DialIs DEF PanelInv, PanelTyped, RingsTyped
<1>5. Partial(pending')
  BY <1>2, <1>4, OnePending
<1>6. DOMAIN dials' = DOMAIN dials
  BY <1>2
<1>7. UNCHANGED <<plugin, disk>>
  BY <1>3 DEF opening, session
<1>8. PortIds' = PortIds
  BY <1>7 DEF PortIds
<1>9. RingsTyped'
  BY <1>3, <1>5, <1>6, <1>7, <1>8 DEF PanelInv, PanelTyped, RingsTyped, Partial
<1> QED
  BY <1>3, <1>9, RingsKeep

LEMMA PluginUiKeeps ==
  ASSUME PanelInv, PluginUiWrites
  PROVE  PanelInv'
<1>1. PICK p \in InputPorts, v \in plugin.inputs :
        /\ pending' = Over([q \in {p} |-> v], pending)
        /\ crossed' = crossed \union {p}
  BY DEF PluginUiWrites
<1>2. UNCHANGED <<opening, widgets, buf, toUi, session, memory>> /\ phase = "running"
  BY DEF PluginUiWrites, At
<1>3. p \in PortIds /\ v \in Values
  BY PortsAre, InputPortsAre DEF PanelInv
<1>4. Partial(pending') /\ crossed' \subseteq PortIds
  BY <1>1, <1>3, OnePending DEF PanelInv, PanelTyped, RingsTyped
<1>5. UNCHANGED <<plugin, disk, controls, dials>>
  BY <1>2 DEF opening, session, widgets
<1>6. PortIds' = PortIds
  BY <1>5 DEF PortIds
<1>7. RingsTyped'
  BY <1>2, <1>4, <1>5, <1>6 DEF PanelInv, PanelTyped, RingsTyped, Partial
<1> QED
  BY <1>2, <1>5, <1>7, RingsKeep

\* What the plugin has read is what was pending.
LEMMA BufTyped ==
  ASSUME PanelInv
  PROVE  Over(pending, buf) \in [PortIds -> Values] /\ Partial(<< >>)
<1>1. Partial(pending) /\ buf \in [PortIds -> Values]
  BY DEF PanelInv, PanelTyped, RingsTyped
<1>2. DOMAIN pending \union DOMAIN buf = PortIds
  BY <1>1 DEF Partial
<1>3. Over(pending, buf) =
        [p \in PortIds |-> IF p \in DOMAIN pending THEN pending[p] ELSE buf[p]]
  BY <1>2 DEF Over
<1>4. \A p \in PortIds : (IF p \in DOMAIN pending THEN pending[p] ELSE buf[p]) \in Values
  BY <1>1 DEF Partial
<1> QED
  BY <1>3, <1>4 DEF Partial

LEMMA ProcessKeeps ==
  ASSUME PanelInv, Process
  PROVE  PanelInv'
<1>1. /\ buf' = Over(pending, buf) /\ pending' = <<>> /\ phase = "running"
      /\ UNCHANGED <<opening, widgets, toUi, crossed, session, memory>>
  BY DEF Process, At
<1>2. buf' \in [PortIds -> Values] /\ Partial(pending')
  BY <1>1, BufTyped
<1>3. UNCHANGED <<plugin, disk, controls, dials>>
  BY <1>1 DEF opening, session, widgets
<1>4. PortIds' = PortIds
  BY <1>3 DEF PortIds
<1>5. RingsTyped'
  BY <1>1, <1>2, <1>3, <1>4 DEF PanelInv, PanelTyped, RingsTyped, Partial
<1> QED
  BY <1>1, <1>3, <1>5, RingsKeep

LEMMA OutputKeeps ==
  ASSUME PanelInv, Output
  PROVE  PanelInv'
<1>1. PICK p \in DOMAIN buf, v \in plugin.inputs :
       /\ buf' = [buf EXCEPT ![p] = v]
       /\ toUi' = Over([q \in {p} |-> v], toUi)
       /\ crossed' = crossed \ {p}
  BY DEF Output
<1>2. phase = "running" /\ UNCHANGED <<opening, widgets, pending, session, memory>>
  BY DEF Output, At
<1>3. p \in PortIds /\ v \in Values /\ buf \in [PortIds -> Values]
  BY PortsAre DEF PanelInv, PanelTyped, RingsTyped
<1>4. buf' \in [PortIds -> Values] /\ Partial(toUi') /\ crossed' \subseteq PortIds
  BY <1>1, <1>3, OnePending DEF PanelInv, PanelTyped, RingsTyped
<1>5. UNCHANGED <<plugin, disk, controls, dials>>
  BY <1>2 DEF opening, session, widgets
<1>6. PortIds' = PortIds
  BY <1>5 DEF PortIds
<1>7. RingsTyped'
  BY <1>2, <1>4, <1>5, <1>6 DEF PanelInv, PanelTyped, RingsTyped, Partial
<1> QED
  BY <1>2, <1>5, <1>7, RingsKeep

-----------------------------------------------------------------------------
(* Texts and events of properties.                                         *)

LEMMA TextFits ==
  ASSUME NEW type \in Texts, NEW n \in Nat
  PROVE  Fits(type, n) /\ type \in Texts \union Numbers
BY TypesApart DEF Fits

LEMMA TextIsNoPorts ==
  ASSUME PanelInv, NEW i \in DOMAIN controls
  PROVE  /\ controls[i].type \in Texts => controls[i].kind # "port"
         /\ controls[i].look = "text" <=> controls[i].type \in Texts
BY TypesApart DEF PanelInv, PanelTyped, ControlsTyped, ControlOK

LEMMA ControlsOfIs ==
  ASSUME NEW id, NEW i \in ControlsOf(id)
  PROVE  i \in DOMAIN controls /\ controls[i].kind # "port"
BY DEF ControlsOf

LEMMA TypesKeep ==
  ASSUME PanelInv, UserTypes \/ RequestValue \/ ConsoleSetsText
  PROVE  PanelInv'
<1>1. CASE UserTypes
  <2>1. PICK i \in DOMAIN controls, n \in Lengths :
          controls[i].look = "text" /\ SetValue("typed", i, controls[i].type, n)
    BY <1>1 DEF UserTypes
  <2>2. phase = "running" /\ UNCHANGED <<opening, dials, rings, session>>
    BY <1>1 DEF UserTypes, At
  <2>3. controls[i].type \in Texts /\ controls[i].kind # "port" /\ n \in Nat
    BY <2>1, TextIsNoPorts, PortsAre
  <2>4. Fits(controls[i].type, n) /\ controls[i].type \in Texts \union Numbers
    BY <2>3, TextFits
  <2> QED
    BY <2>1, <2>2, <2>3, <2>4, SetValueKeeps
<1>2. CASE RequestValue
  <2>1. PICK id \in 1..Size, n \in Lengths :
          \E i \in ControlsOf(id) : SetValue("set", i, "Path", n)
    BY <1>2 DEF RequestValue
  <2>2. PICK i \in ControlsOf(id) : SetValue("set", i, "Path", n)
    BY <2>1
  <2>3. phase = "running" /\ UNCHANGED <<opening, dials, rings, session>>
    BY <1>2 DEF RequestValue, At
  <2>4. i \in DOMAIN controls /\ controls[i].kind # "port" /\ n \in Nat
    BY ControlsOfIs, PortsAre
  <2>5. Fits("Path", n) /\ "Path" \in Texts \union Numbers
    BY <2>4, TypesApart, TextFits
  <2> QED
    BY <2>2, <2>3, <2>4, <2>5, SetValueKeeps
<1>3. CASE ConsoleSetsText
  <2>1. PICK i \in DOMAIN controls, n \in Lengths :
          controls[i].type \in Texts /\ SetValue("set", i, controls[i].type, n)
    BY <1>3 DEF ConsoleSetsText
  <2>2. phase = "running" /\ UNCHANGED <<opening, dials, rings, session>>
    BY <1>3 DEF ConsoleSetsText, Typed, At
  <2>3. controls[i].kind # "port" /\ n \in Nat
    BY <2>1, TextIsNoPorts, PortsAre
  <2>4. Fits(controls[i].type, n) /\ controls[i].type \in Texts \union Numbers
    BY <2>1, <2>3, TextFits
  <2> QED
    BY <2>1, <2>2, <2>3, <2>4, SetValueKeeps
<1> QED
  BY <1>1, <1>2, <1>3

LEMMA PropertyEventKeeps ==
  ASSUME PanelInv, PropertyEvent \/ ValuelessSet
  PROVE  PanelInv'
<1>1. CASE ValuelessSet
  <2>1. /\ fault' = "value" /\ phase = "running"
        /\ UNCHANGED <<opening, widgets, rings, session, blocks, lost>>
    BY <1>1 DEF ValuelessSet, At
  <2>2. UNCHANGED <<plugin, ports, controls, dials, disk, menu>>
    BY <2>1 DEF opening, widgets, session
  <2>3. ControlsTyped' /\ Storage'
    BY <2>1, <2>2, SameControls DEF PanelInv, PanelTyped
  <2>4. RingsTyped'
    BY <2>1, <2>2, SameRings DEF PanelInv, PanelTyped
  <2>5. MenuTyped'
    BY <2>1, <2>2 DEF PanelInv, MenuTyped
  <2> QED
    BY <2>1, <2>3, <2>4, <2>5, RunningKeeps
<1>2. CASE PropertyEvent
  <2>1. PICK id \in 1..Size : \E i \in ControlsOf(id) :
          \/ \E n \in Lengths :
               LET type == IF controls[i].type \in Texts THEN controls[i].type
                           ELSE "String"
               IN SetValue("update", i, type, n)
          \/ \E v \in plugin.inputs : SetValue("update", i, "Int", v)
    BY <1>2 DEF PropertyEvent
  <2>2. PICK i \in ControlsOf(id) :
          \/ \E n \in Lengths :
               LET type == IF controls[i].type \in Texts THEN controls[i].type
                           ELSE "String"
               IN SetValue("update", i, type, n)
          \/ \E v \in plugin.inputs : SetValue("update", i, "Int", v)
    BY <2>1
  <2>3. phase = "running" /\ UNCHANGED <<opening, dials, rings, session>>
    BY <1>2 DEF PropertyEvent, At
  <2>4. i \in DOMAIN controls /\ controls[i].kind # "port"
    BY ControlsOfIs
  <2>5. ASSUME NEW n \in Lengths,
               SetValue("update", i, IF controls[i].type \in Texts THEN controls[i].type
                                     ELSE "String", n)
        PROVE  PanelInv'
    <3> DEFINE type == IF controls[i].type \in Texts THEN controls[i].type ELSE "String"
    <3>1. type \in Texts /\ n \in Nat
      BY TypesApart, PortsAre
    <3> HIDE DEF type
    <3>2. Fits(type, n) /\ type \in Texts \union Numbers
      BY <3>1, TextFits
    <3>3. SetValue("update", i, type, n)
      BY <2>5 DEF type
    <3> QED
      BY <2>3, <2>4, <3>2, <3>3, SetValueKeeps
  <2>6. ASSUME NEW v \in plugin.inputs, SetValue("update", i, "Int", v)
        PROVE  PanelInv'
    <3>1. Fits("Int", v) /\ "Int" \in Texts \union Numbers
      BY TypesApart, PortsAre DEF Fits
    <3> QED
      BY <2>3, <2>4, <2>6, <3>1, SetValueKeeps
  <2> QED
    BY <2>2, <2>5, <2>6
<1> QED
  BY <1>1, <1>2

-----------------------------------------------------------------------------
(* Presets and commands.                                                   *)

LEMMA ListedIs == \A mine : Listed(mine) \subseteq {"shipped", "mine"}
BY DEF Listed

LEMMA CommandsKeep ==
  ASSUME PanelInv, ConsoleSets \/ ConsoleSetsIndex
  PROVE  PanelInv'
<1>1. CASE ConsoleSets
  <2>1. PICK i \in DOMAIN controls, v \in plugin.inputs : SetFromString(i, v)
    BY <1>1 DEF ConsoleSets
  <2>2. phase = "running" /\ v \in Values
    BY <1>1, PortsAre DEF ConsoleSets, Typed, At
  <2> QED
    BY <2>1, <2>2, FromStringKeeps
<1>2. CASE ConsoleSetsIndex
  <2>1. PICK i \in DOMAIN controls : SetFromString(i, 0)
    BY <1>2 DEF ConsoleSetsIndex
  <2>2. phase = "running" /\ 0 \in Values
    BY <1>2, ValuesAre DEF ConsoleSetsIndex, Typed, At
  <2> QED
    BY <2>1, <2>2, FromStringKeeps
<1> QED
  BY <1>1, <1>2

LEMMA LoadKeeps ==
  ASSUME PanelInv, LoadPreset \/ ConsolePreset
  PROVE  PanelInv'
<1>1. CASE LoadPreset
  <2>1. PICK name \in menu :
          IF frontend = "gtk" /\ preset = Unsaved
          THEN fault' = "uri" /\ UNCHANGED <<preset, controls, rings, window>>
          ELSE ApplyPreset(name) /\ UNCHANGED fault
    BY <1>1 DEF LoadPreset
  <2>2. phase = "running" /\ UNCHANGED <<opening, dials, disk, menu, blocks, lost>>
    BY <1>1 DEF LoadPreset, At
  <2>3. UNCHANGED <<plugin, ports>>
    BY <2>2 DEF opening
  <2>4. CASE frontend = "gtk" /\ preset = Unsaved
    <3>1. fault' = "uri" /\ UNCHANGED <<controls, rings>>
      BY <2>1, <2>4
    <3>2. ControlsTyped' /\ Storage'
      BY <2>2, <2>3, <3>1, SameControls DEF PanelInv, PanelTyped
    <3>3. RingsTyped'
      BY <2>2, <2>3, <3>1, SameRings DEF PanelInv, PanelTyped
    <3>4. MenuTyped'
      BY <2>2, <3>1 DEF PanelInv, MenuTyped
    <3> QED
      BY <2>2, <3>2, <3>3, <3>4, RunningKeeps
  <2>5. CASE ~(frontend = "gtk" /\ preset = Unsaved)
    <3>1. ApplyPreset(name) /\ UNCHANGED fault
      BY <2>1, <2>5
    <3>2. ControlsTyped' /\ RingsTyped' /\ Storage'
      BY <2>2, <2>3, <3>1, ApplyTyped
    <3>3. MenuTyped'
      BY <2>2, <3>1 DEF PanelInv, MenuTyped
    <3> QED
      BY <2>2, <3>2, <3>3, RunningKeeps
  <2> QED
    BY <2>4, <2>5
<1>2. CASE ConsolePreset
  <2>1. PICK name \in OnDisk \union {"unknown"} : ApplyPreset(name)
    BY <1>2 DEF ConsolePreset
  <2>2. phase = "running" /\ UNCHANGED <<opening, dials, disk, menu, memory>>
    BY <1>2 DEF ConsolePreset, Typed, At
  <2>3. UNCHANGED <<plugin, ports, blocks, lost, fault>>
    BY <2>2 DEF opening, memory
  <2>4. ControlsTyped' /\ RingsTyped' /\ Storage'
    BY <2>1, <2>2, <2>3, ApplyTyped
  <2>5. MenuTyped'
    BY <2>2, <2>3 DEF PanelInv, MenuTyped
  <2> QED
    BY <2>2, <2>4, <2>5, RunningKeeps
<1> QED
  BY <1>1, <1>2

\* Steps that change nothing but the presets and what is said of them.
LEMMA SessionKeeps ==
  ASSUME PanelInv, phase = "running",
         UNCHANGED <<opening, widgets, rings, blocks, lost>>,
         disk' \subseteq disk \union {PortValues}, MenuTyped'
  PROVE  PanelInv'
<1>1. UNCHANGED <<plugin, ports, controls, dials, buf, pending, toUi, crossed>>
  BY DEF opening, widgets, rings
<1>2. ControlsTyped' /\ Storage'
  BY <1>1, SameControls DEF PanelInv, PanelTyped
<1>3. PortIds' = PortIds
  BY <1>1 DEF PortIds
<1>4. \A state \in disk' : Partial(state)
  BY StateValues DEF PanelInv, PanelTyped, RingsTyped
<1>5. RingsTyped'
  BY <1>1, <1>3, <1>4 DEF PanelInv, PanelTyped, RingsTyped, Partial
<1> QED
  BY <1>2, <1>5, RunningKeeps

LEMMA PresetsKeep ==
  ASSUME PanelInv, SavePreset \/ SavePresetAs \/ DeletePreset
  PROVE  PanelInv'
<1>1. CASE SavePreset
  <2>1. phase = "running" /\ UNCHANGED <<opening, widgets, rings, menu, blocks, lost>>
    BY <1>1 DEF SavePreset, At
  <2>2. disk' \subseteq disk \union {PortValues} /\ fault' \in {"uri", "freed", fault}
    BY <1>1 DEF SavePreset
  <2>3. MenuTyped'
    BY <2>1, <2>2 DEF PanelInv, MenuTyped
  <2> QED
    BY <2>1, <2>2, <2>3, SessionKeeps
<1>2. CASE SavePresetAs
  <2>1. phase = "running" /\ UNCHANGED <<opening, widgets, rings, blocks, lost, fault>>
    BY <1>2 DEF SavePresetAs, At, memory
  <2>2. disk' \subseteq disk \union {PortValues} /\ (menu' = Listed(disk') \/ menu' = menu)
    BY <1>2 DEF SavePresetAs
  <2>3. MenuTyped'
    BY <2>1, <2>2, ListedIs DEF PanelInv, MenuTyped
  <2> QED
    BY <2>1, <2>2, <2>3, SessionKeeps
<1>3. CASE DeletePreset
  <2>1. phase = "running" /\ UNCHANGED <<opening, widgets, rings, blocks, lost, fault>>
    BY <1>3 DEF DeletePreset, At, memory
  <2>2. disk' \subseteq disk \union {PortValues} /\ (menu' = Listed(disk') \/ menu' = menu)
    BY <1>3 DEF DeletePreset
  <2>3. MenuTyped'
    BY <2>1, <2>2, ListedIs DEF PanelInv, MenuTyped
  <2> QED
    BY <2>1, <2>2, <2>3, SessionKeeps
<1> QED
  BY <1>1, <1>2, <1>3

-----------------------------------------------------------------------------
(* jalv_open.                                                              *)

\* Before the window is there, what has to be shown of a step.
LEMMA OpeningKeeps ==
  ASSUME PanelInv, phase # "running", OpeningTyped', ControlsTyped', RingsTyped',
         \A i \in DOMAIN controls' : ~controls'[i].widget /\ Held(controls'[i].value) = 0,
         dials' = <<>>, UNCHANGED memory, menu' \subseteq {"shipped", "mine"}
  PROVE  PanelInv'
<1>1. blocks' = 0 /\ lost' = 0 /\ fault' = "none"
  BY DEF PanelInv, PanelTyped, Early, memory
<1>2. Early'
  BY <1>1 DEF Early
<1>3. Storage'
  <2>1. Pointers' = {}
    BY DEF Pointers, Held
  <2>2. Cardinality(Pointers') = 0
    BY <2>1, FS_EmptySet
  <2> QED
    BY <1>1, <2>2, PluginsAssumption DEF Storage
<1>4. MenuTyped'
  BY <1>1 DEF MenuTyped
<1> QED
  BY <1>2, <1>3, <1>4 DEF PanelInv, PanelTyped

LEMMA BeforeWindow ==
  ASSUME PanelInv, phase # "running"
  PROVE  /\ \A i \in DOMAIN controls : ~controls[i].widget /\ Held(controls[i].value) = 0
         /\ dials = <<>> /\ menu \subseteq {"shipped", "mine"}
BY DEF PanelInv, PanelTyped, Early, MenuTyped

\* The flags of a control are set.
LEMMA WritableOK ==
  ASSUME NEW c, ControlOK(c), ~c.widget, NEW writable \in BOOLEAN
  PROVE  LET d == [c EXCEPT !.writable = writable]
         IN /\ ControlOK(d) /\ Coherent(d) /\ d.widget = c.widget /\ d.value = c.value
            /\ d.kind = c.kind /\ d.id = c.id /\ d.look = c.look /\ d.writable = writable
            /\ d.readable = c.readable /\ d.node = c.node /\ d.type = c.type
<1> DEFINE d == [c EXCEPT !.writable = writable]
<1>1. /\ d \in ControlRecord /\ d.widget = c.widget /\ d.value = c.value
      /\ d.kind = c.kind /\ d.id = c.id /\ d.look = c.look /\ d.writable = writable
      /\ d.readable = c.readable /\ d.node = c.node /\ d.type = c.type
  BY DEF ControlOK, ControlRecord
<1> HIDE DEF d
<1>2. ControlOK(d) /\ Coherent(d)
  BY <1>1 DEF ControlOK, Coherent
<1> QED
  BY <1>1, <1>2 DEF d

LEMMA HiddenOK ==
  ASSUME NEW c, ControlOK(c), Coherent(c), NEW hidden \in BOOLEAN
  PROVE  LET d == [c EXCEPT !.hidden = hidden]
         IN /\ ControlOK(d) /\ Coherent(d) /\ d.widget = c.widget /\ d.value = c.value
            /\ d.kind = c.kind /\ d.id = c.id /\ d.look = c.look /\ d.writable = c.writable
            /\ d.readable = c.readable /\ d.node = c.node /\ d.type = c.type
<1> DEFINE d == [c EXCEPT !.hidden = hidden]
<1>1. /\ d \in ControlRecord /\ d.widget = c.widget /\ d.value = c.value
      /\ d.kind = c.kind /\ d.id = c.id /\ d.look = c.look /\ d.writable = c.writable
      /\ d.readable = c.readable /\ d.node = c.node /\ d.type = c.type
      /\ d.scale = c.scale /\ d.spin = c.spin
  BY DEF ControlOK, ControlRecord
<1> HIDE DEF d
<1>2. ControlOK(d) /\ Coherent(d)
  BY <1>1 DEF ControlOK, Coherent
<1> QED
  BY <1>1, <1>2 DEF d

LEMMA ReadableOK ==
  ASSUME NEW c, ControlOK(c), Coherent(c), NEW readable \in BOOLEAN
  PROVE  LET d == [c EXCEPT !.readable = readable]
         IN /\ ControlOK(d) /\ Coherent(d) /\ d.widget = c.widget /\ d.value = c.value
            /\ d.kind = c.kind /\ d.id = c.id /\ d.look = c.look /\ d.writable = c.writable
            /\ d.readable = readable /\ d.node = c.node /\ d.type = c.type
<1> DEFINE d == [c EXCEPT !.readable = readable]
<1>1. /\ d \in ControlRecord /\ d.widget = c.widget /\ d.value = c.value
      /\ d.kind = c.kind /\ d.id = c.id /\ d.look = c.look /\ d.writable = c.writable
      /\ d.readable = readable /\ d.node = c.node /\ d.type = c.type
      /\ d.scale = c.scale /\ d.spin = c.spin
  BY DEF ControlOK, ControlRecord
<1> HIDE DEF d
<1>2. ControlOK(d) /\ Coherent(d)
  BY <1>1 DEF ControlOK, Coherent
<1> QED
  BY <1>1, <1>2 DEF d

\* A control is added to the others.
LEMMA OneAdded ==
  ASSUME ControlsTyped, NEW d, ControlOK(d), Coherent(d), NEW new,
         new = Append(controls, d), controls' = new, d.kind = "port" => OfPort(d)',
         \A c : OfPort(c) => OfPort(c)'
  PROVE  /\ ControlsTyped' /\ DOMAIN new = DOMAIN controls \union {Len(controls) + 1}
         /\ new[Len(controls) + 1] = d
         /\ \A i \in DOMAIN controls : new[i] = controls[i]
<1>1. d \in ControlRecord /\ controls \in Seq(ControlRecord)
  BY DEF ControlOK, ControlsTyped
<1>2. /\ new \in Seq(ControlRecord)
      /\ DOMAIN new = DOMAIN controls \union {Len(controls) + 1}
      /\ new[Len(controls) + 1] = d
      /\ \A i \in DOMAIN controls : new[i] = controls[i]
  BY <1>1
<1>3. ASSUME NEW i \in DOMAIN new
      PROVE  /\ ControlOK(new[i]) /\ Coherent(new[i])
             /\ new[i].kind = "port" => OfPort(new[i])'
  <2>1. CASE i \in DOMAIN controls
    <3>1. /\ ControlOK(controls[i]) /\ Coherent(controls[i])
          /\ controls[i].kind = "port" => OfPort(controls[i])
      BY <2>1 DEF ControlsTyped
    <3>2. ASSUME NEW c, c = controls[i]
          PROVE  ControlOK(c) /\ Coherent(c) /\ (c.kind = "port" => OfPort(c)')
      BY <3>1, <3>2
    <3>3. new[i] = controls[i]
      BY <1>2, <2>1
    <3> QED
      BY <3>2, <3>3
  <2>2. CASE i \notin DOMAIN controls
    <3>1. new[i] = d
      BY <1>2, <2>2
    <3> QED
      BY <3>1
  <2> QED
    BY <2>1, <2>2
<1>4. ControlsTyped'
  BY <1>2, <1>3 DEF ControlsTyped
<1> QED
  BY <1>2, <1>4

\* create_port
LEMMA CreatePortKeeps ==
  ASSUME PanelInv, CreatePort
  PROVE  PanelInv'
<1> DEFINE n == Len(ports)
           p == plugin.ports[n + 1]
           port == [flow |-> p.flow, type |-> TypeOf(p)]
<1>1. /\ phase = "ports" /\ n < Len(plugin.ports)
      /\ UNCHANGED <<plugin, frontend, left, making, dials, rings, session, memory>>
  BY DEF CreatePort, At
<1>2. UNCHANGED <<buf, pending, toUi, crossed, disk, menu>>
  BY <1>1 DEF rings, session
<1>3. /\ \A i \in DOMAIN controls : ~controls[i].widget /\ Held(controls[i].value) = 0
      /\ dials = <<>> /\ menu \subseteq {"shipped", "mine"}
  BY <1>1, BeforeWindow
<1>4. RingsTyped'
  BY <1>1, SameRings DEF PanelInv, PanelTyped, session
<1>5. /\ n \in Nat /\ Len(plugin.ports) \in Nat /\ p \in PortData
      /\ p.class = "control" => p.look \in Looks
      /\ ports \in Seq([flow : {"input", "output", "none"},
                        type : {"control", "audio", "event", "unknown"}])
  <2>1. /\ Len(plugin.ports) \in Nat /\ n \in Nat
        /\ \A i \in 1..Len(plugin.ports) :
              /\ plugin.ports[i] \in PortData
              /\ plugin.ports[i].class = "control" => plugin.ports[i].look \in Looks
    BY PluginIs DEF PanelInv, PanelTyped, OpeningTyped
  <2>2. n + 1 \in 1..Len(plugin.ports)
    BY <1>1, <2>1
  <2> QED
    BY <2>1, <2>2 DEF PanelInv, PanelTyped, OpeningTyped
<1>6. CASE ~Known(p)
  <2>1. phase' = "failed" /\ UNCHANGED <<ports, controls, controlIn>>
    BY <1>6 DEF CreatePort
  <2>2. OpeningTyped'
    BY <1>1, <2>1 DEF PanelInv, PanelTyped, OpeningTyped
  <2>3. ControlsTyped'
    BY <1>1, <2>1, SameControls DEF PanelInv, PanelTyped
  <2> QED
    BY <1>1, <1>2, <1>3, <1>4, <2>1, <2>2, <2>3, OpeningKeeps
<1>7. CASE Known(p)
  <2>1. /\ ports' = Append(ports, port)
        /\ controls' = IF p.class = "control" THEN Append(controls, PortControl(p, n))
                       ELSE controls
        /\ controlIn' \in {n, controlIn}
        /\ phase' = phase
    BY <1>7 DEF CreatePort
  <2>2. port \in [flow : {"input", "output", "none"},
                  type : {"control", "audio", "event", "unknown"}]
    BY <1>5, TypeOfIs DEF PortData
  <2>a. port.flow = p.flow /\ port.type = TypeOf(p)
    OBVIOUS
  <2> HIDE DEF port
  <2>3. /\ ports' \in Seq([flow : {"input", "output", "none"},
                           type : {"control", "audio", "event", "unknown"}])
        /\ Len(ports') = n + 1 /\ DOMAIN ports' = DOMAIN ports \union {n + 1}
        /\ ports'[n + 1] = port /\ \A i \in DOMAIN ports : ports'[i] = ports[i]
    BY <1>5, <2>1, <2>2
  <2>4. OpeningTyped'
    <3>1. Len(ports') <= Len(plugin.ports)
      BY <1>1, <1>5, <2>3
    <3>2. \A i \in DOMAIN ports' : /\ ports'[i].flow = plugin.ports[i].flow
                                   /\ ports'[i].type = TypeOf(plugin.ports[i])
      BY <2>3, <2>a DEF PanelInv, PanelTyped, OpeningTyped
    <3>3. controlIn' \in -1..(Len(ports') - 1)
      BY <1>5, <2>1, <2>3 DEF PanelInv, PanelTyped, OpeningTyped
    <3>4. ASSUME NEW q PROVE TypeOf(q)' = TypeOf(q)
      BY DEF TypeOf
    <3> QED
      BY <1>1, <2>1, <2>3, <3>1, <3>2, <3>3, <3>4 DEF PanelInv, PanelTyped, OpeningTyped
  <2>5. \A c : OfPort(c) => OfPort(c)'
    BY <1>1, <1>5, <2>3 DEF OfPort
  <2>6. CASE p.class # "control"
    <3>1. controls' = controls
      BY <2>1, <2>6
    <3>2. ControlsTyped'
      BY <2>5, <3>1 DEF PanelInv, PanelTyped, ControlsTyped
    <3> QED
      BY <1>1, <1>2, <1>3, <1>4, <2>4, <3>1, <3>2, OpeningKeeps
  <2>7. CASE p.class = "control"
    <3> DEFINE value == Put(NoValue, p.number, p.default)
               input == (p.flow = "input")
               output == (p.flow = "output")
               base == NewControl("port", n, n, p.look, "Float", value)
               one == [base EXCEPT !.writable = input]
               made == [one EXCEPT !.readable = output]
               d == [made EXCEPT !.hidden = p.hidden]
    <3>1. ValueOK(value) /\ Held(value) = 0 /\ value.type \in Numbers
      BY <1>5, NoValueOK, TypesApart, NumberCounts DEF PortData
    <3>2. PortControl(p, n) = d /\ input \in BOOLEAN /\ output \in BOOLEAN
      BY DEF PortControl
    <3> HIDE DEF value, input, output
    <3>3. p.look \in Looks /\ p.look # "text" /\ "Float" \notin Texts
      BY <1>5, <2>7, TypesApart DEF Looks
    <3>a. /\ base \in ControlRecord /\ ~base.widget /\ base.value = value
          /\ base.kind = "port" /\ base.id = n /\ base.look = p.look /\ base.type = "Float"
      BY <1>5, <3>1, <3>3, TypesApart DEF NewControl, ControlRecord, ValueOK
    <3> HIDE DEF base
    <3>b. ControlOK(base)
      BY <3>1, <3>3, <3>a DEF ControlOK
    <3>c. /\ ControlOK(one) /\ Coherent(one) /\ ~one.widget /\ one.value = value
          /\ one.kind = "port" /\ one.id = n /\ one.look = p.look
          /\ one.writable = input
      BY <3>2, <3>a, <3>b, WritableOK
    <3> HIDE DEF one
    <3>4. /\ ControlOK(made) /\ Coherent(made) /\ ~made.widget /\ made.value = value
          /\ made.kind = "port" /\ made.id = n /\ made.look = p.look
          /\ made.writable = input
      BY <3>2, <3>c, ReadableOK
    <3> HIDE DEF made
    <3>5. p.hidden \in BOOLEAN
      BY <1>5 DEF PortData
    <3>6. /\ ControlOK(d) /\ Coherent(d) /\ ~d.widget /\ d.value = value
          /\ d.kind = "port" /\ d.id = n /\ d.look = p.look
          /\ d.writable = input
      BY <3>4, <3>5, HiddenOK
    <3> HIDE DEF d
    <3>7. SUFFICES ASSUME NEW e, e = d PROVE PanelInv'
      OBVIOUS
    <3>8. OfPort(e)'
      BY <1>1, <1>5, <2>3, <2>7, <3>6, <3>7 DEF OfPort, input
    <3> DEFINE new == Append(controls, e)
    <3>9. controls' = new
      BY <2>1, <2>7, <3>2, <3>7
    <3>10. /\ ControlsTyped' /\ DOMAIN new = DOMAIN controls \union {Len(controls) + 1}
           /\ new[Len(controls) + 1] = e
           /\ \A i \in DOMAIN controls : new[i] = controls[i]
      BY <2>5, <3>6, <3>7, <3>8, <3>9, OneAdded DEF PanelInv, PanelTyped
    <3> HIDE DEF new
    <3>11. \A i \in DOMAIN controls' : ~controls'[i].widget /\ Held(controls'[i].value) = 0
      BY <1>3, <3>1, <3>6, <3>7, <3>9, <3>10
    <3> QED
      BY <1>1, <1>2, <1>3, <1>4, <2>4, <3>10, <3>11, OpeningKeeps
  <2> QED
    BY <2>6, <2>7
<1> QED
  BY <1>6, <1>7

LEMMA LoopKeeps ==
  ASSUME PanelInv, NextLoop
  PROVE  PanelInv'
<1>1. /\ phase \in {"ports", "writable", "readable"}
      /\ phase' \in {"writable", "readable", "instantiate"}
      /\ left' \subseteq plugin.properties \/ left' = left
      /\ making = NoProperty
      /\ UNCHANGED <<plugin, frontend, making, ports, controlIn, widgets, rings,
                     session, memory>>
  BY DEF NextLoop
<1>2. OpeningTyped'
  BY <1>1 DEF PanelInv, PanelTyped, OpeningTyped
<1>3. UNCHANGED <<controls, dials, disk, menu>>
  BY <1>1 DEF widgets, session
<1>4. ControlsTyped' /\ RingsTyped'
  BY <1>1, <1>3, SameControls, SameRings DEF PanelInv, PanelTyped
<1> QED
  BY <1>1, <1>2, <1>3, <1>4, BeforeWindow, OpeningKeeps

LEMMA MarkKeeps ==
  ASSUME PanelInv, MarkReadable
  PROVE  PanelInv'
<1>1. PICK q \in left :
       /\ left' = left \ {q}
       /\ controls' = [i \in DOMAIN controls |->
            [controls[i] EXCEPT !.readable = @ \/ i \in RecordsOf(q)]]
  BY DEF MarkReadable
<1>2. /\ phase = "readable"
      /\ UNCHANGED <<plugin, frontend, phase, making, ports, controlIn, dials, rings,
                     session, memory>>
  BY DEF MarkReadable
<1>3. SUFFICES ASSUME NEW new, new = [i \in DOMAIN controls |->
                  [controls[i] EXCEPT !.readable = @ \/ i \in RecordsOf(q)]]
               PROVE  PanelInv'
  OBVIOUS
<1>4. ASSUME NEW i \in DOMAIN controls
      PROVE  /\ ControlOK(new[i]) /\ Coherent(new[i])
             /\ new[i].kind = "port" => OfPort(new[i])'
             /\ ~new[i].widget /\ Held(new[i].value) = 0
  <2> DEFINE readable == controls[i].readable \/ i \in RecordsOf(q)
             d == [controls[i] EXCEPT !.readable = readable]
  <2>1. /\ ControlOK(controls[i]) /\ Coherent(controls[i])
        /\ controls[i].kind = "port" => OfPort(controls[i])
        /\ ~controls[i].widget /\ Held(controls[i].value) = 0
    BY <1>2, BeforeWindow DEF PanelInv, PanelTyped, ControlsTyped
  <2>2. readable \in BOOLEAN /\ new[i] = d
    BY <1>3, <2>1 DEF ControlOK, ControlRecord
  <2> HIDE DEF readable
  <2>3. /\ ControlOK(d) /\ Coherent(d) /\ d.widget = controls[i].widget
        /\ d.value = controls[i].value
        /\ d.kind = controls[i].kind /\ d.id = controls[i].id /\ d.look = controls[i].look
        /\ d.writable = controls[i].writable
    BY <2>1, <2>2, ReadableOK
  <2> HIDE DEF d
  <2>4. new[i].kind = "port" => OfPort(new[i])'
    BY <1>2, <2>1, <2>2, <2>3 DEF OfPort
  <2> QED
    BY <2>1, <2>2, <2>3, <2>4
<1>5. controls' = new /\ DOMAIN new = DOMAIN controls /\ new = [i \in DOMAIN new |-> new[i]]
  BY <1>1, <1>3
<1>6. new \in [DOMAIN controls -> ControlRecord]
  BY <1>4, <1>5 DEF ControlOK
<1>7. new \in Seq(ControlRecord)
  BY <1>6, SameLength DEF PanelInv, PanelTyped, ControlsTyped
<1>10. ControlsTyped'
  BY <1>4, <1>5, <1>7 DEF ControlsTyped
<1>8. OpeningTyped'
  BY <1>1, <1>2 DEF PanelInv, PanelTyped, OpeningTyped
<1>9. RingsTyped' /\ UNCHANGED menu
  BY <1>2, SameRings DEF PanelInv, PanelTyped, session
<1> QED
  BY <1>2, <1>4, <1>5, <1>8, <1>9, <1>10, BeforeWindow, OpeningKeeps

\* Steps that only make calls of the URI map.
LEMMA MapCallsKeep ==
  ASSUME PanelInv, MakeControl \/ MapUri \/ PluginMaps
  PROVE  PanelInv'
<1>1. CASE MakeControl
  <2>1. PICK q \in left : making' = q /\ left' = left \ {q}
    BY <1>1 DEF MakeControl
  <2>2. /\ phase \in {"writable", "readable"}
        /\ UNCHANGED <<plugin, frontend, phase, ports, controlIn, widgets, rings,
                       session, memory>>
    BY <1>1 DEF MakeControl
  <2>3. OpeningTyped'
    BY <2>1, <2>2 DEF PanelInv, PanelTyped, OpeningTyped
  <2>4. UNCHANGED <<controls, dials, disk, menu>>
    BY <2>2 DEF widgets, session
  <2>5. ControlsTyped' /\ RingsTyped'
    BY <2>2, <2>4, SameControls, SameRings DEF PanelInv, PanelTyped
  <2> QED
    BY <2>2, <2>3, <2>4, <2>5, BeforeWindow, OpeningKeeps
<1>2. CASE MapUri \/ PluginMaps
  <2>1. UNCHANGED <<opening, widgets, rings, session, memory>>
    BY <1>2 DEF MapUri, PluginMaps
  <2>2. UNCHANGED <<plugin, frontend, phase, left, making, ports, controlIn, controls,
                    dials, disk, menu, blocks, lost, fault>>
    BY <2>1 DEF opening, widgets, session, memory
  <2>3. ControlsTyped' /\ Storage'
    BY <2>2, SameControls DEF PanelInv, PanelTyped
  <2>4. RingsTyped'
    BY <2>1, <2>2, SameRings DEF PanelInv, PanelTyped
  <2>5. OpeningTyped' /\ Early' /\ MenuTyped'
    BY <2>2 DEF PanelInv, PanelTyped, OpeningTyped, Early, MenuTyped
  <2> QED
    BY <2>3, <2>4, <2>5 DEF PanelInv, PanelTyped
<1> QED
  BY <1>1, <1>2

\* A property's record is made, or thrown away.
LEMMA AddKeeps ==
  ASSUME PanelInv, SymapInv, AddControl
  PROVE  PanelInv'
<1>1. /\ making # NoProperty /\ making' = NoProperty
      /\ UNCHANGED <<plugin, frontend, phase, left, ports, controlIn, dials, rings,
                     session, memory>>
  BY DEF AddControl
<1>2. phase \in {"writable", "readable"} /\ making \in plugin.properties
  BY <1>1 DEF PanelInv, PanelTyped, OpeningTyped
<1>3. UNCHANGED <<disk, menu>>
  BY <1>1 DEF session
<1>4. /\ \A i \in DOMAIN controls : ~controls[i].widget /\ Held(controls[i].value) = 0
      /\ dials = <<>> /\ menu \subseteq {"shipped", "mine"}
  BY <1>2, BeforeWindow
<1>5. OpeningTyped'
  BY <1>1 DEF PanelInv, PanelTyped, OpeningTyped
<1>6. RingsTyped'
  BY <1>1, <1>3, SameRings DEF PanelInv, PanelTyped
<1>7. CASE making.range = "none"
  <2>1. controls' = controls
    BY <1>7 DEF AddControl
  <2>2. ControlsTyped'
    BY <1>1, <2>1, SameControls DEF PanelInv, PanelTyped
  <2> QED
    BY <1>1, <1>2, <1>3, <1>4, <1>5, <1>6, <2>1, <2>2, OpeningKeeps
<1>8. CASE making.range # "none"
  <2>2. /\ making.uri \in Int /\ making.range \in Texts \union Numbers
    <3>1. plugin.properties \subseteq PropertyData
      BY PluginIs DEF PanelInv, PanelTyped, OpeningTyped
    <3>2. making.uri \in Symbol /\ making.range \in Texts \union Numbers \union {"none"}
      BY <1>2, <3>1 DEF PropertyData
    <3>3. making.uri \in Nat
      BY <3>2, SymapAssumption
    <3>4. making.range \in Texts \union Numbers
      BY <1>8, <3>2
    <3> QED
      BY <3>3, <3>4
  <2> DEFINE look == IF making.range \in Texts THEN "text" ELSE "slider"
             base == NewControl("property", making.uri, call.id, look, making.range, NoValue)
             writable == (phase = "writable")
             readable == (phase = "readable")
             one == [base EXCEPT !.writable = writable]
             d == [one EXCEPT !.readable = readable]
  <2>1. /\ controls' = Append(controls, d)
        /\ writable \in BOOLEAN /\ readable \in BOOLEAN
    BY <1>8, Zenon DEF AddControl, PropertyControl
  <2>3. call.id \in Int
    BY DEF SymapInv, SymapTypeOK
  <2>4. look \in Looks \union {"text"} /\ (look = "text" <=> making.range \in Texts)
    BY DEF Looks
  <2>5. ValueOK(NoValue) /\ Held(NoValue) = 0
    BY NoValueOK
  <2> HIDE DEF look, writable, readable
  <2>6. /\ base \in ControlRecord /\ ~base.widget /\ base.value = NoValue
        /\ base.kind = "property" /\ base.type = making.range /\ base.look = look
    BY <2>2, <2>3, <2>4, <2>5 DEF NewControl, ControlRecord, ValueOK
  <2> HIDE DEF base
  <2>7. ControlOK(base)
    BY <2>4, <2>5, <2>6 DEF ControlOK
  <2>8. ControlOK(one) /\ Coherent(one) /\ ~one.widget /\ one.value = NoValue /\ one.kind = "property"
    BY <2>1, <2>6, <2>7, WritableOK
  <2> HIDE DEF one
  <2>9. ControlOK(d) /\ Coherent(d) /\ ~d.widget /\ d.value = NoValue /\ d.kind = "property"
    BY <2>1, <2>8, ReadableOK
  <2> HIDE DEF d
  <2>10. SUFFICES ASSUME NEW e, e = d PROVE PanelInv'
    OBVIOUS
  <2> DEFINE new == Append(controls, e)
  <2>11. controls' = new
    BY <2>1, <2>10
  <2>12. \A c : OfPort(c) => OfPort(c)'
    BY <1>1 DEF OfPort
  <2>13. /\ ControlsTyped' /\ DOMAIN new = DOMAIN controls \union {Len(controls) + 1}
         /\ new[Len(controls) + 1] = e
         /\ \A i \in DOMAIN controls : new[i] = controls[i]
    BY <2>9, <2>10, <2>11, <2>12, OneAdded DEF PanelInv, PanelTyped
  <2> HIDE DEF new
  <2>14. \A i \in DOMAIN controls' : ~controls'[i].widget /\ Held(controls'[i].value) = 0
    BY <1>4, <2>5, <2>9, <2>10, <2>11, <2>13
  <2> QED
    BY <1>1, <1>2, <1>3, <1>4, <1>5, <1>6, <2>13, <2>14, OpeningKeeps
<1> QED
  BY <1>7, <1>8

LEMMA OpenStateKeeps ==
  ASSUME PanelInv, OpenState
  PROVE  PanelInv'
<1>1. /\ phase = "instantiate" /\ phase' = "arguments" /\ menu' = {"shipped"}
      /\ SetPortValues(ShippedValues, TRUE) \/ UNCHANGED <<controls, rings>>
      /\ UNCHANGED <<plugin, frontend, left, making, ports, controlIn, dials, preset,
                     disk, window, memory, symapVars>>
  BY DEF OpenState, At
<1>2. OpeningTyped'
  BY <1>1 DEF PanelInv, PanelTyped, OpeningTyped
<1>3. CASE UNCHANGED <<controls, rings>>
  <2>1. ControlsTyped' /\ RingsTyped'
    BY <1>1, <1>3, SameControls, SameRings DEF PanelInv, PanelTyped
  <2> QED
    BY <1>1, <1>2, <1>3, <2>1, BeforeWindow, OpeningKeeps
<1>4. CASE SetPortValues(ShippedValues, TRUE)
  <2>1. /\ ControlsTyped' /\ RingsTyped'
        /\ DOMAIN controls' = DOMAIN controls
        /\ \A i \in DOMAIN controls :
             /\ controls'[i].widget = controls[i].widget
             /\ Held(controls'[i].value) = Held(controls[i].value)
    BY <1>1, <1>4, StateValues, SetPortValuesTyped DEF PanelInv
  <2> QED
    BY <1>1, <1>2, <2>1, BeforeWindow, OpeningKeeps
<1> QED
  BY <1>1, <1>3, <1>4

LEMMA ArgumentKeeps ==
  ASSUME PanelInv, ControlArgument
  PROVE  PanelInv'
<1>1. /\ phase = "arguments" /\ phase' = "window"
      /\ UNCHANGED <<plugin, frontend, left, making, ports, controlIn, dials, buf, toUi,
                     session, memory, symapVars>>
  BY DEF ControlArgument, At
<1>2. OpeningTyped' /\ UNCHANGED <<disk, menu>>
  BY <1>1 DEF PanelInv, PanelTyped, OpeningTyped, session
<1>3. CASE UNCHANGED <<controls, pending, crossed>>
  <2>1. ControlsTyped' /\ RingsTyped'
    BY <1>1, <1>2, <1>3, SameControls, SameRings DEF PanelInv, PanelTyped, rings
  <2> QED
    BY <1>1, <1>2, <1>3, <2>1, BeforeWindow, OpeningKeeps
<1>4. CASE \E i \in DOMAIN controls, v \in plugin.inputs :
             /\ controls' = [controls EXCEPT ![i].value = Put(@, "Float", v)]
             /\ Write(controls[i], <<v>>)
  <2>1. PICK i \in DOMAIN controls, v \in plugin.inputs :
             /\ controls' = [controls EXCEPT ![i].value = Put(@, "Float", v)]
             /\ Write(controls[i], <<v>>)
    BY <1>4
  <2> DEFINE c == controls[i]
             d == [c EXCEPT !.value = Put(@, "Float", v)]
  <2>2. ControlOK(c) /\ Coherent(c) /\ v \in Values /\ controls \in Seq(ControlRecord)
    BY PortsAre DEF PanelInv, PanelTyped, ControlsTyped
  <2>3. controls' = [controls EXCEPT ![i] = d]
    BY <2>1, <2>2
  <2>4. ControlOK(d) /\ Coherent(d) /\ Alike(c, d) /\ Held(d.value) = 0 /\ d.widget = c.widget
    BY <2>2, TypesApart, SetNumberOf
  <2> HIDE DEF d
  <2>5. ControlsTyped'
    BY <1>1, <2>3, <2>4, OneRemade DEF PanelInv, PanelTyped
  <2>6. RingsTyped'
    <3>1. <<v>> \in Seq(Values)
      BY <2>2
    <3> QED
      BY <1>1, <1>2, <2>1, <3>1, WriteTyped DEF PanelInv
  <2>7. \A j \in DOMAIN controls' : ~controls'[j].widget /\ Held(controls'[j].value) = 0
    BY <1>1, <2>2, <2>3, <2>4, BeforeWindow
  <2> QED
    BY <1>1, <1>2, <2>5, <2>6, <2>7, BeforeWindow, OpeningKeeps
<1> QED
  BY <1>3, <1>4 DEF ControlArgument

\* What the window is opened with: the widgets are built, then refreshed.
Widgeted(c) ==
  IF frontend # "gtk" \/ plugin.custom \/ c.hidden THEN c ELSE Built(c)

LEMMA WidgetedOK ==
  ASSUME NEW c, ControlOK(c), Coherent(c)
  PROVE  /\ ControlOK(Widgeted(c)) /\ Coherent(Widgeted(c)) /\ Alike(c, Widgeted(c))
         /\ Widgeted(c).value = c.value
<1>1. Alike(c, c)
  BY DEF Alike
<1> QED
  BY <1>1, BuiltOK DEF Widgeted

LEMMA RefreshedOK ==
  ASSUME NEW record, NEW i \in DOMAIN record, ControlOK(record[i]), Coherent(record[i])
  PROVE  LET s == Refreshed(record)[i]
         IN /\ Handled(record[i], s) /\ ShowsLast(s) /\ Coherent(s.control)
            /\ (record[i].widget /\ record[i].look # "text" /\ i \in DOMAIN ports
                  /\ ports[i].type = "control") =>
                 Shows(s.control, Number(record[i].value))
<1>1. CASE i \in DOMAIN ports /\ ports[i].type = "control"
  <2>1. Refreshed(record)[i] = Changed(record[i])
    BY <1>1 DEF Refreshed
  <2> QED
    BY <2>1, ChangedOK
<1>2. CASE ~(i \in DOMAIN ports /\ ports[i].type = "control")
  <2>1. Refreshed(record)[i] = Quiet(record[i])
    BY <1>2 DEF Refreshed
  <2> QED
    BY <1>2, <2>1, QuietIs
<1> QED
  BY <1>1, <1>2

\* What the window is opened with, control by control.
WindowControls == [i \in DOMAIN controls |-> Widgeted(controls[i])]
WindowHandled == Refreshed(WindowControls)
WindowSent == {i \in DOMAIN controls : /\ WindowHandled[i].sent # <<>>
                                       /\ controls[i].kind = "port"}
WindowWritten == {controls[i].id : i \in WindowSent}
WindowValues ==
  [p \in WindowWritten |->
     LastOf(WindowHandled[Only({j \in WindowSent : controls[j].id = p})].sent)]

LEMMA WindowControlsOK ==
  ASSUME ControlsTyped, NEW i \in DOMAIN controls
  PROVE  LET c == WindowControls[i]
             s == WindowHandled[i]
         IN /\ DOMAIN WindowControls = DOMAIN controls /\ DOMAIN WindowHandled = DOMAIN controls
            /\ ControlOK(c) /\ Coherent(c) /\ Alike(controls[i], c) /\ c.value = controls[i].value
            /\ Handled(c, s) /\ ShowsLast(s) /\ Coherent(s.control)
            /\ Alike(controls[i], s.control) /\ ControlOK(s.control)
            /\ Held(controls[i].value) = 0 => Held(s.control.value) = 0
            /\ (c.widget /\ c.look # "text" /\ i \in DOMAIN ports
                  /\ ports[i].type = "control") =>
                 Shows(s.control, Number(c.value))
<1>1. ControlOK(controls[i]) /\ Coherent(controls[i])
  BY DEF ControlsTyped
<1>2. WindowControls[i] = Widgeted(controls[i]) /\ DOMAIN WindowControls = DOMAIN controls
  BY DEF WindowControls
<1>3. /\ ControlOK(WindowControls[i]) /\ Coherent(WindowControls[i])
      /\ Alike(controls[i], WindowControls[i]) /\ WindowControls[i].value = controls[i].value
  BY <1>1, <1>2, WidgetedOK
<1>4. DOMAIN WindowHandled = DOMAIN controls
  BY <1>2 DEF WindowHandled, Refreshed
<1>5. LET c == WindowControls[i]
          s == WindowHandled[i]
      IN /\ Handled(c, s) /\ ShowsLast(s) /\ Coherent(s.control)
         /\ (c.widget /\ c.look # "text" /\ i \in DOMAIN ports
               /\ ports[i].type = "control") =>
              Shows(s.control, Number(c.value))
  BY <1>2, <1>3, RefreshedOK DEF WindowHandled
<1>6. Alike(controls[i], WindowHandled[i].control) /\ ControlOK(WindowHandled[i].control)
  BY <1>3, <1>5 DEF Handled, Alike
<1>7. Held(controls[i].value) = 0 => Held(WindowHandled[i].control.value) = 0
  BY <1>3, <1>5 DEF Handled
<1> QED
  BY <1>2, <1>3, <1>4, <1>5, <1>6, <1>7

LEMMA OpenWindowIs ==
  ASSUME PanelInv, OpenWindow
  PROVE  /\ controls' = [i \in DOMAIN controls |-> WindowHandled[i].control]
         /\ pending' = Over(WindowValues, pending)
         /\ crossed' = crossed \union (WindowWritten \cap DOMAIN toUi)
<1>1. (IF frontend # "gtk" \/ plugin.custom THEN controls
       ELSE [i \in DOMAIN controls |->
               IF controls[i].hidden THEN controls[i] ELSE Built(controls[i])]) = WindowControls
  <2>1. controls = [i \in DOMAIN controls |-> controls[i]]
    BY DEF PanelInv, PanelTyped, ControlsTyped
  <2> QED
    BY <2>1 DEF WindowControls, Widgeted
<1>2. \A i \in DOMAIN controls : /\ WindowControls[i].kind = controls[i].kind
                                /\ WindowControls[i].id = controls[i].id
  BY WindowControlsOK DEF PanelInv, PanelTyped, Alike
<1>3. DOMAIN WindowControls = DOMAIN controls
  BY DEF WindowControls
<1> DEFINE sent == {i \in DOMAIN WindowControls :
                      WindowHandled[i].sent # <<>> /\ WindowControls[i].kind = "port"}
           written == {WindowControls[i].id : i \in sent}
           From(p) == {j \in sent : WindowControls[j].id = p}
<1>4. /\ controls' = [i \in DOMAIN WindowControls |-> WindowHandled[i].control]
      /\ pending' = Over([p \in written |-> LastOf(WindowHandled[Only(From(p))].sent)], pending)
      /\ crossed' = crossed \union (written \cap DOMAIN toUi)
  BY <1>1 DEF OpenWindow, WindowHandled, LastOf
<1>5. sent = WindowSent
  BY <1>2, <1>3 DEF WindowSent
<1>6. written = WindowWritten
  BY <1>2, <1>5 DEF WindowWritten, WindowSent
<1>7. \A p : From(p) = {j \in WindowSent : controls[j].id = p}
  BY <1>2, <1>5 DEF WindowSent
<1> HIDE DEF sent, written, From
<1>8. [p \in written |-> LastOf(WindowHandled[Only(From(p))].sent)] = WindowValues
  BY <1>6, <1>7 DEF WindowValues
<1> QED
  BY <1>3, <1>4, <1>6, <1>8

LEMMA WindowValuesAre ==
  ASSUME PanelInv
  PROVE  /\ Partial(WindowValues) /\ DOMAIN WindowValues = WindowWritten
         /\ WindowWritten \subseteq PortIds
         /\ \A p \in WindowWritten : \E i \in WindowSent :
              controls[i].id = p /\ WindowValues[p] = LastOf(WindowHandled[i].sent)
<1>1. WindowWritten \subseteq PortIds
  BY InputPortsAre DEF PanelInv, WindowWritten, WindowSent
<1>2. ASSUME NEW p \in WindowWritten
      PROVE  /\ \E i \in WindowSent :
                  controls[i].id = p /\ WindowValues[p] = LastOf(WindowHandled[i].sent)
             /\ WindowValues[p] \in Values
  <2> DEFINE those == {j \in WindowSent : controls[j].id = p}
             i == Only(those)
  <2>1. those # {}
    BY <1>2 DEF WindowWritten
  <2>2. i \in those
    BY <2>1, OnlyOf
  <2>3. WindowValues[p] = LastOf(WindowHandled[i].sent)
    BY <1>2 DEF WindowValues
  <2> HIDE DEF i, those
  <2>4. i \in WindowSent /\ controls[i].id = p
    BY <2>2 DEF those
  <2>5. WindowHandled[i].sent \in Seq(Values) /\ WindowHandled[i].sent # <<>>
    <3>1. i \in DOMAIN controls
      BY <2>4 DEF WindowSent
    <3>2. Handled(WindowControls[i], WindowHandled[i])
      BY <3>1, WindowControlsOK DEF PanelInv, PanelTyped
    <3> QED
      BY <2>4, <3>2 DEF Handled, Handling, WindowSent
  <2>6. LastOf(WindowHandled[i].sent) \in Values
    BY <2>5 DEF LastOf
  <2> QED
    BY <2>3, <2>4, <2>6
<1>3. DOMAIN WindowValues = WindowWritten
  BY DEF WindowValues
<1>4. Partial(WindowValues)
  BY <1>1, <1>2, <1>3 DEF Partial
<1> QED
  BY <1>1, <1>2, <1>3, <1>4

LEMMA OpenWindowKeeps ==
  ASSUME PanelInv, OpenWindow
  PROVE  PanelInv'
<1>1. /\ phase = "window" /\ phase' = "running"
      /\ dials' = <<>> \/ dials' = MadeDials
      /\ UNCHANGED <<plugin, frontend, left, making, ports, controlIn, buf, toUi,
                     session, memory, symapVars>>
  BY DEF OpenWindow, At
<1>2. UNCHANGED <<disk, menu, blocks, lost, fault>>
  BY <1>1 DEF session, memory
<1> DEFINE new == [i \in DOMAIN controls |-> WindowHandled[i].control]
<1>3. /\ controls' = new
      /\ pending' = Over(WindowValues, pending)
      /\ crossed' = crossed \union (WindowWritten \cap DOMAIN toUi)
  BY OpenWindowIs
<1>4. ASSUME NEW i \in DOMAIN controls
      PROVE  /\ ControlOK(new[i]) /\ Coherent(new[i]) /\ Alike(controls[i], new[i])
             /\ Held(new[i].value) = Held(controls[i].value)
  <2>1. new[i] = WindowHandled[i].control
    OBVIOUS
  <2>2. Held(controls[i].value) = 0
    BY <1>1, BeforeWindow
  <2> HIDE DEF new
  <2> QED
    BY <2>1, <2>2, WindowControlsOK DEF PanelInv, PanelTyped
<1>5. DOMAIN new = DOMAIN controls /\ new = [i \in DOMAIN new |-> new[i]]
  OBVIOUS
<1> HIDE DEF new
<1>6. ControlsTyped'
  BY <1>1, <1>3, <1>4, <1>5, RemadeTyped DEF PanelInv, PanelTyped
<1>7. Storage'
  BY <1>2, <1>3, <1>4, <1>5, AllCounted DEF PanelInv
<1>8. OpeningTyped'
  BY <1>1 DEF PanelInv, PanelTyped, OpeningTyped
<1>9. RingsTyped'
  <2>1. PortIds' = PortIds
    BY <1>1 DEF PortIds
  <2>2. Partial(pending') /\ crossed' \subseteq PortIds
    BY <1>3, WindowValuesAre, OverPartial DEF PanelInv, PanelTyped, RingsTyped
  <2>3. DOMAIN dials' \subseteq PortIds
    <3>1. CASE dials' = <<>>
      BY <3>1
    <3>2. CASE dials' = MadeDials
      BY <3>2 DEF MadeDials, PanelInv, PanelTyped, RingsTyped
    <3> QED
      BY <1>1, <3>1, <3>2
  <2> QED
    BY <1>1, <1>2, <2>1, <2>2, <2>3 DEF PanelInv, PanelTyped, RingsTyped, Partial
<1>10. Early' /\ MenuTyped'
  BY <1>1, <1>2 DEF Early, PanelInv, MenuTyped
<1> QED
  BY <1>6, <1>7, <1>8, <1>9, <1>10 DEF PanelInv, PanelTyped

LEMMA PanelInit == Init => PanelInv
<1> SUFFICES ASSUME Init PROVE PanelInv
  OBVIOUS
<1>1. OpeningTyped
  <2>1. ports = <<>> /\ Len(ports) = 0 /\ Len(plugin.ports) \in Nat
    BY PluginIs DEF Init
  <2>2. /\ ports \in Seq([flow : {"input", "output", "none"},
                          type : {"control", "audio", "event", "unknown"}])
        /\ DOMAIN ports = {}
    BY <2>1
  <2> QED
    BY <2>1, <2>2 DEF Init, OpeningTyped, NoPort
<1>2. controls = <<>> /\ DOMAIN controls = {} /\ controls \in Seq(ControlRecord)
  BY DEF Init
<1>3. ControlsTyped
  BY <1>2 DEF ControlsTyped
<1>4. RingsTyped
  <2>1. ASSUME NEW i \in PortIds PROVE plugin.ports[i + 1].default \in Values
    <3>1. i + 1 \in 1..Len(plugin.ports) /\ plugin.ports[i + 1] \in PortData
      BY <2>1, PluginIs DEF Init, PortIds
    <3> QED
      BY <3>1 DEF PortData
  <2>2. buf \in [PortIds -> Values]
    BY <2>1 DEF Init, PortIds
  <2> QED
    BY <2>2 DEF Init, RingsTyped, Partial
<1>5. Early
  BY <1>2 DEF Init, Early
<1>6. Storage
  <2>1. blocks = 0 /\ lost = 0
    BY DEF Init
  <2> QED
    BY <1>2, <2>1, NoneCounted
<1>7. MenuTyped
  BY DEF Init, MenuTyped
<1> QED
  BY <1>1, <1>3, <1>4, <1>5, <1>6, <1>7 DEF PanelInv, PanelTyped

LEMMA PanelStep == PanelInv /\ SymapInv /\ [Next]_vars => PanelInv'
<1> SUFFICES ASSUME PanelInv, SymapInv, [Next]_vars PROVE PanelInv'
  OBVIOUS
<1>1. CASE UNCHANGED vars
  <2>1. UNCHANGED <<opening, widgets, rings, session, memory>>
    BY <1>1 DEF vars
  <2>2. UNCHANGED <<plugin, frontend, phase, left, making, ports, controlIn, controls,
                    dials, disk, menu, blocks, lost, fault>>
    BY <2>1 DEF opening, widgets, session, memory
  <2>3. ControlsTyped' /\ Storage'
    BY <2>2, SameControls DEF PanelInv, PanelTyped
  <2>4. RingsTyped'
    BY <2>1, <2>2, SameRings DEF PanelInv, PanelTyped
  <2>5. OpeningTyped' /\ Early' /\ MenuTyped'
    BY <2>2 DEF PanelInv, PanelTyped, OpeningTyped, Early, MenuTyped
  <2> QED
    BY <2>3, <2>4, <2>5 DEF PanelInv, PanelTyped
<1>2. CASE Opening
  BY <1>2, CreatePortKeeps, LoopKeeps, MarkKeeps, MapCallsKeep, AddKeeps, OpenStateKeeps,
     ArgumentKeeps, OpenWindowKeeps DEF Opening
<1>3. CASE User
  BY <1>3, MovesKeep, DialKeeps, TypesKeep, PluginUiKeeps, LoadKeeps, PresetsKeep DEF User
<1>4. CASE Command
  BY <1>4, CommandsKeep, TypesKeep, LoadKeeps DEF Command
<1>5. CASE Update
  BY <1>5, PortEventKeeps, PropertyEventKeeps DEF Update
<1>6. CASE Process \/ Output
  BY <1>6, ProcessKeeps, OutputKeeps
<1> QED
  BY <1>1, <1>2, <1>3, <1>4, <1>5, <1>6 DEF Next

\* The data that a plugin gives, whatever its ports and properties, and all
\* that is done with it give every variable a value of its kind.
THEOREM PanelStaysTyped == Spec => []PanelInv
<1>1. Spec => []SymapInv
  BY ImplementsSymap, SymapCorrect, PTL
<1> QED
  BY <1>1, PanelInit, PanelStep, PTL DEF Spec

\* The types of a run, with those of the presets and of the map.
THEOREM PanelTypeCorrect == Spec => []TypeOK
<1>1. Spec => []PresetInv
  BY PresetInvInit, PresetInvStep, PTL DEF Spec
<1>2. Spec => []SymapInv
  BY ImplementsSymap, SymapCorrect, PTL
<1>3. ASSUME PanelInv, SymapInv, PresetInv
      PROVE  TypeOK
  <2>1. /\ plugin \in Plugins /\ frontend \in Frontends
        /\ phase \in {"ports", "writable", "readable", "instantiate", "arguments",
                      "window", "running", "failed"}
        /\ left \subseteq plugin.properties
        /\ making \in plugin.properties \union {NoProperty}
        /\ Len(ports) <= Len(plugin.ports) /\ controlIn \in -1..(Len(ports) - 1)
    BY <1>3 DEF PanelInv, PanelTyped, OpeningTyped
  <2>2. \A i \in DOMAIN controls :
          /\ controls[i].look \in {"slider", "log", "combo", "switch", "spinner", "text"}
          /\ controls[i].value.type \in Texts \union Numbers \union {"none"}
          /\ controls[i].value.word \in {"zero", "number", "wide", "pointer"}
    BY <1>3 DEF PanelInv, PanelTyped, ControlsTyped, ControlOK, ControlRecord, ValueRecord,
                Looks
  <2>3. /\ DOMAIN pending \subseteq DOMAIN buf /\ DOMAIN toUi \subseteq DOMAIN buf
        /\ crossed \subseteq DOMAIN buf
    BY <1>3 DEF PanelInv, PanelTyped, RingsTyped, Partial
  <2>4. preset \in {NoPreset, Shipped, Mine, Unsaved} /\ SymapTypeOK
    BY <1>3 DEF PresetInv, SymapInv
  <2>5. /\ menu \subseteq {"shipped", "mine"}
        /\ blocks \in Nat /\ lost \in 0..MaxLost
        /\ fault \in {"none", "realloc", "value", "uri", "freed"}
    BY <1>3 DEF PanelInv, MenuTyped, Storage
  <2> QED
    BY <2>1, <2>2, <2>3, <2>4, <2>5 DEF TypeOK
<1> QED
  BY <1>1, <1>2, <1>3, PanelStaysTyped, PTL

\* A block of memory is always either some control's value or one that was
\* lost: any_value_set releases and grows what it should, for every length of
\* texts, through all that sets a value.
THEOREM StorageIsKept == Spec => []StorageKept
<1>1. ASSUME PanelInv
      PROVE  StorageKept
  <2>1. \A i \in DOMAIN controls :
          IsLong(controls[i].value.size) <=> controls[i].value.word = "pointer"
    BY <1>1 DEF PanelInv, PanelTyped, ControlsTyped, ControlOK, ValueOK
  <2>2. blocks = lost + Cardinality({i \in DOMAIN controls :
                                       controls[i].value.word = "pointer"})
    BY <1>1 DEF PanelInv, Storage, Pointers
  <2> QED
    BY <2>1, <2>2 DEF StorageKept
<1> QED
  BY <1>1, PanelStaysTyped, PTL

-----------------------------------------------------------------------------
(* What the widgets show.                                                  *)

\* The value that the plugin will have when it has read what is in the ring.
Latest(p) == IF p \in DOMAIN pending THEN pending[p] ELSE buf[p]

OwnWindow == frontend = "gtk" /\ ~plugin.custom

IsPort(i) == controls[i].kind = "port"

PortsApart ==
  \A i, j \in DOMAIN controls :
    (IsPort(i) /\ IsPort(j) /\ i < j) => controls[i].id < controls[j].id

WidgetsOwn ==
  /\ \A i \in DOMAIN controls : controls[i].widget => OwnWindow
  /\ dials # <<>> => frontend = "qt"

\* Before jalv_open sets a value nothing is in the ring, and the plugin has its
\* defaults while the ports are made.
NothingSent ==
  /\ phase \notin {"window", "running"} => pending = <<>>
  /\ phase = "ports" => \A p \in PortIds : buf[p] = plugin.ports[p + 1].default

\* What is on its way to the window is the latest value, unless it is crossed.
RingsAgree == OwnWindow => \A p \in DOMAIN toUi \ crossed : toUi[p] = Latest(p)

\* Until the window is opened, a control has the latest value of its port.
OpenAgrees ==
  phase # "running" =>
    \A i \in DOMAIN controls, p \in PortIds :
      IsPort(i) /\ controls[i].id = p => Number(controls[i].value) = Latest(p)

\* With nothing on its way to the window, the widgets show the latest value.
WidgetsAgree ==
  \A i \in DOMAIN controls, p \in PortIds :
    (/\ IsPort(i) /\ controls[i].widget /\ controls[i].id = p /\ p = i - 1
     /\ p \notin DOMAIN toUi /\ p \notin crossed)
      => Shows(controls[i], Latest(p))

SyncInv ==
  PortsApart /\ WidgetsOwn /\ NothingSent /\ RingsAgree /\ OpenAgrees /\ WidgetsAgree

-----------------------------------------------------------------------------
LEMMA SyncIsInSync == PanelInv /\ SyncInv => InSync
<1> SUFFICES ASSUME PanelInv, SyncInv, phase = "running", NEW i \in DOMAIN controls,
                    controls[i].kind = "port", controls[i].widget,
                    controls[i].id = i - 1,
                    controls[i].id \notin DOMAIN pending \union DOMAIN toUi \union crossed
             PROVE  Shows(controls[i], buf[controls[i].id])
  BY DEF InSync
<1> DEFINE p == controls[i].id
<1>1. p \in PortIds
  BY InputPortsAre DEF PanelInv
<1> HIDE DEF p
<1>2. p = controls[i].id
  BY DEF p
<1>3. Latest(p) = buf[p]
  BY <1>2 DEF Latest
<1>4. Shows(controls[i], Latest(p))
  BY <1>1, <1>2 DEF SyncInv, WidgetsAgree, IsPort
<1> QED
  BY <1>2, <1>3, <1>4

LEMMA IdsApart ==
  ASSUME PanelInv, PortsApart, NEW i \in DOMAIN controls, NEW j \in DOMAIN controls,
         IsPort(i), IsPort(j), i # j
  PROVE  controls[i].id # controls[j].id
<1>1. i \in Int /\ j \in Int
  BY PointersFinite DEF PanelInv, PanelTyped
<1>2. controls[i].id \in Int /\ controls[j].id \in Int
  BY DEF PanelInv, PanelTyped, ControlsTyped, ControlOK, ControlRecord
<1>3. CASE i < j
  BY <1>2, <1>3 DEF PortsApart
<1>4. CASE j < i
  BY <1>2, <1>4 DEF PortsApart
<1> QED
  BY <1>1, <1>3, <1>4

LEMMA LatestOver ==
  ASSUME NEW new, pending' = Over(new, pending), buf' = buf, NEW p
  PROVE  Latest(p)' = IF p \in DOMAIN new THEN new[p] ELSE Latest(p)
BY DEF Latest, Over

\* The controls are those that were there, with other values or positions.
Remade ==
  /\ DOMAIN controls' = DOMAIN controls
  /\ \A i \in DOMAIN controls : /\ Alike(controls[i], controls'[i])
                                /\ controls'[i].widget = controls[i].widget

LEMMA RemadeOne ==
  ASSUME PanelInv, NEW i \in DOMAIN controls, NEW d, controls' = [controls EXCEPT ![i] = d],
         Alike(controls[i], d), d.widget = controls[i].widget
  PROVE  /\ Remade /\ controls'[i] = d
         /\ \A j \in DOMAIN controls : j # i => controls'[j] = controls[j]
<1>1. /\ DOMAIN controls' = DOMAIN controls /\ controls'[i] = d
      /\ \A j \in DOMAIN controls : j # i => controls'[j] = controls[j]
  BY DEF PanelInv, PanelTyped, ControlsTyped
<1>2. \A c : Alike(c, c)
  BY DEF Alike
<1> QED
  BY <1>1, <1>2 DEF Remade

LEMMA RemadeNone ==
  ASSUME UNCHANGED controls
  PROVE  Remade
BY DEF Remade, Alike

\* What has to be shown of a step of the running program.
LEMMA SyncRunning ==
  ASSUME SyncInv, phase = "running", UNCHANGED opening, Remade,
         dials' # <<>> => dials # <<>>, RingsAgree', WidgetsAgree'
  PROVE  SyncInv'
<1>1. UNCHANGED <<plugin, frontend, phase>>
  BY DEF opening
<1>2. PortsApart'
  BY DEF SyncInv, PortsApart, Remade, Alike, IsPort
<1>3. WidgetsOwn'
  BY <1>1 DEF SyncInv, WidgetsOwn, Remade, OwnWindow
<1>4. NothingSent' /\ OpenAgrees'
  BY <1>1 DEF NothingSent, OpenAgrees
<1> QED
  BY <1>2, <1>3, <1>4 DEF SyncInv

\* Without a window of GTK there is nothing to agree with.
LEMMA SyncElsewhere ==
  ASSUME SyncInv, phase = "running", UNCHANGED opening, Remade, ~OwnWindow,
         dials' # <<>> => dials # <<>>
  PROVE  SyncInv'
<1>1. UNCHANGED <<plugin, frontend, phase>>
  BY DEF opening
<1>2. RingsAgree'
  BY <1>1 DEF RingsAgree, OwnWindow
<1>3. \A i \in DOMAIN controls' : ~controls'[i].widget
  BY DEF SyncInv, WidgetsOwn, Remade
<1>4. WidgetsAgree'
  BY <1>3 DEF WidgetsAgree
<1> QED
  BY <1>2, <1>4, SyncRunning

\* The rings are left alone, and widgets of ports too.
LEMMA SyncSame ==
  ASSUME SyncInv, phase = "running", UNCHANGED <<opening, dials, rings>>, Remade,
         \A i \in DOMAIN controls :
           IsPort(i) => controls'[i] = controls[i]
  PROVE  SyncInv'
<1>1. UNCHANGED <<plugin, frontend, buf, pending, toUi, crossed>>
  BY DEF opening, rings
<1>2. PortIds' = PortIds /\ \A p : Latest(p)' = Latest(p)
  BY <1>1 DEF PortIds, Latest
<1>3. RingsAgree'
  BY <1>1, <1>2 DEF SyncInv, RingsAgree, OwnWindow
<1>4. WidgetsAgree'
  <2>1. \A i \in DOMAIN controls : IsPort(i)' => IsPort(i)
    BY DEF IsPort, Remade, Alike
  <2> QED
    BY <1>1, <1>2, <2>1 DEF SyncInv, WidgetsAgree, Remade
<1> QED
  BY <1>3, <1>4, SyncRunning

-----------------------------------------------------------------------------
LEMMA SyncSetValue ==
  ASSUME PanelInv, SyncInv, phase = "running", UNCHANGED <<opening, dials, rings>>,
         NEW how \in {"typed", "update", "set"}, NEW i \in DOMAIN controls,
         NEW type \in Texts \union Numbers, NEW body, Fits(type, body),
         SetValue(how, i, type, body),
         controls[i].kind # "port",
         how = "typed" => controls[i].look = "text" /\ body \in Int
  PROVE  SyncInv' /\ Remade
<1> DEFINE c == controls[i]
<1>1. PICK o \in Sets(c.value, type, body) :
        IF o.status = "undefined"
        THEN UNCHANGED controls
        ELSE LET set == [c EXCEPT !.value = o.value]
                 s == Followed(how, set, body)
             IN controls' = [controls EXCEPT ![i] = s.control]
  BY DEF SetValue
<1>2. ControlOK(c) /\ Coherent(c) /\ ValueOK(c.value)
  BY DEF PanelInv, PanelTyped, ControlsTyped, ControlOK
<1>3. ValueOK(o.value)
  BY <1>2, SetsCount
<1>4. CASE o.status = "undefined"
  BY <1>1, <1>4, RemadeNone, SyncSame
<1>5. CASE o.status # "undefined"
  <2> DEFINE set == [c EXCEPT !.value = o.value]
             s == Followed(how, set, body)
  <2>1. controls' = [controls EXCEPT ![i] = s.control]
    BY <1>1, <1>5
  <2>2. ControlOK(set) /\ Coherent(set) /\ Alike(c, set) /\ set.widget = c.widget
    BY <1>2, <1>3, SetAnyOf
  <2>3. how = "typed" => s = Quiet([set EXCEPT !.scale = body])
    BY FollowedIs
  <2>4. how = "update" => s = Changed(set)
    BY FollowedIs
  <2>5. how = "set" => s = Quiet(set)
    BY FollowedIs
  <2> HIDE DEF s, set
  <2>6. Handled(set, s)
    <3>1. CASE how = "typed"
      <4>1. set.look = "text"
        BY <2>2, <3>1 DEF Alike
      <4> QED
        BY <2>2, <2>3, <3>1, <4>1, TypedIs
    <3>2. CASE how = "update"
      BY <2>2, <2>4, <3>2, ChangedOK
    <3>3. CASE how = "set"
      BY <2>2, <2>5, <3>3, QuietIs
    <3> QED
      BY <3>1, <3>2, <3>3
  <2>7. Alike(c, s.control) /\ s.control.widget = c.widget
    BY <2>2, <2>6 DEF Handled, Alike
  <2> HIDE DEF c
  <2>8. Remade /\ \A j \in DOMAIN controls : j # i => controls'[j] = controls[j]
    BY <2>1, <2>7, RemadeOne DEF c
  <2> QED
    BY <2>8, SyncSame DEF IsPort
<1> QED
  BY <1>4, <1>5

\* jalv_write_control of a value: the port is crossed when an older value is
\* on its way to the window.
LEMMA WriteAgrees ==
  ASSUME PanelInv, SyncInv, NEW c, c.kind # "property", NEW id, id = c.id,
         NEW sent \in Seq(Values), sent # <<>>, Write(c, sent),
         UNCHANGED <<plugin, frontend, buf, toUi>>
  PROVE  /\ RingsAgree'
         /\ Latest(id)' = LastOf(sent)
         /\ \A p : p # id => Latest(p)' = Latest(p) /\ (p \in crossed' <=> p \in crossed)
<1> DEFINE new == [p \in {id} |-> LastOf(sent)]
<1>1. /\ pending' = Over(new, pending)
      /\ crossed' = IF id \in DOMAIN toUi \/ ~c.writable THEN crossed \union {id}
                    ELSE crossed \ {id}
  BY DEF Write, LastOf
<1>2. DOMAIN new = {id} /\ new[id] = LastOf(sent)
  OBVIOUS
<1> HIDE DEF new
<1>3. \A p : Latest(p)' = IF p \in DOMAIN new THEN new[p] ELSE Latest(p)
  BY <1>1, LatestOver
<1>4. /\ Latest(id)' = LastOf(sent)
      /\ \A p : p # id => Latest(p)' = Latest(p) /\ (p \in crossed' <=> p \in crossed)
  BY <1>1, <1>2, <1>3
<1>5. ASSUME OwnWindow, NEW p \in DOMAIN toUi, p \notin crossed'
      PROVE  toUi[p] = Latest(p)'
  <2>1. p # id
    BY <1>1, <1>5
  <2>2. p \notin crossed
    BY <1>4, <1>5, <2>1
  <2> QED
    BY <1>4, <1>5, <2>1, <2>2 DEF SyncInv, RingsAgree
<1>6. OwnWindow' <=> OwnWindow
  BY DEF OwnWindow
<1>7. RingsAgree'
  BY <1>5, <1>6 DEF RingsAgree
<1> QED
  BY <1>4, <1>7

LEMMA SyncMoves ==
  ASSUME PanelInv, SyncInv, UserMoves
  PROVE  SyncInv' /\ Remade
<1>1. PICK i \in DOMAIN controls :
        /\ controls[i].widget /\ controls[i].writable
        /\ \E s \in Moves(controls[i], plugin.inputs) :
             /\ controls' = [controls EXCEPT ![i] = s.control]
             /\ Write(controls[i], s.sent)
  BY DEF UserMoves
<1>2. PICK s \in Moves(controls[i], plugin.inputs) :
        /\ controls' = [controls EXCEPT ![i] = s.control]
        /\ Write(controls[i], s.sent)
  BY <1>1
<1>3. UNCHANGED <<opening, dials, buf, toUi>> /\ phase = "running"
  BY DEF UserMoves, At
<1>4. ControlOK(controls[i]) /\ Coherent(controls[i])
  BY DEF PanelInv, PanelTyped, ControlsTyped
<1>5. plugin.inputs \subseteq Values
  BY PortsAre
<1>6. /\ Handled(controls[i], s) /\ ShowsLast(s)
      /\ s.sent = <<>> => \A v : Shows(controls[i], v) => Shows(s.control, v)
  BY <1>1, <1>4, <1>5, MovesOK
<1>7. /\ Remade /\ controls'[i] = s.control
      /\ \A j \in DOMAIN controls : j # i => controls'[j] = controls[j]
  BY <1>2, <1>6, RemadeOne DEF Handled
<1>8. UNCHANGED <<plugin, frontend>> /\ PortIds' = PortIds
  BY <1>3 DEF opening, PortIds
<1>9. \A j \in DOMAIN controls : /\ controls'[j].kind = controls[j].kind
                                /\ controls'[j].id = controls[j].id
                                /\ controls'[j].widget = controls[j].widget
  BY <1>7 DEF Remade, Alike
<1>10. CASE controls[i].kind = "property" \/ s.sent = <<>>
  <2>1. UNCHANGED <<pending, crossed>>
    BY <1>2, <1>10 DEF Write
  <2>2. \A p : Latest(p)' = Latest(p)
    BY <1>3, <2>1 DEF Latest
  <2>3. RingsAgree'
    BY <1>3, <1>8, <2>1, <2>2 DEF SyncInv, RingsAgree, OwnWindow
  <2>4. ASSUME NEW j \in DOMAIN controls, NEW p \in PortIds,
               IsPort(j), controls[j].widget, controls[j].id = p, p = j - 1,
               p \notin DOMAIN toUi, p \notin crossed
        PROVE  Shows(controls'[j], Latest(p))
    <3>1. Shows(controls[j], Latest(p))
      BY <2>4 DEF SyncInv, WidgetsAgree
    <3>2. CASE j # i
      BY <1>7, <3>1, <3>2
    <3>3. CASE j = i
      <4>1. s.sent = <<>>
        BY <1>10, <2>4, <3>3 DEF IsPort
      <4> QED
        BY <1>6, <1>7, <3>1, <3>3, <4>1
    <3> QED
      BY <3>2, <3>3
  <2>5. WidgetsAgree'
    BY <1>3, <1>7, <1>8, <1>9, <2>1, <2>2, <2>4 DEF WidgetsAgree, IsPort, Remade
  <2> QED
    BY <1>3, <1>7, <2>3, <2>5, SyncRunning
<1>11. CASE controls[i].kind # "property" /\ s.sent # <<>>
  <2>1. SUFFICES ASSUME NEW id, id = controls[i].id PROVE SyncInv' /\ Remade
    OBVIOUS
  <2>2. s.sent \in Seq(Values) /\ Shows(s.control, LastOf(s.sent)) /\ IsPort(i)
    BY <1>4, <1>6, <1>11 DEF Handled, Handling, ShowsLast, IsPort, ControlOK, ControlRecord
  <2>3. /\ RingsAgree'
        /\ Latest(id)' = LastOf(s.sent)
        /\ \A p : p # id => Latest(p)' = Latest(p) /\ (p \in crossed' <=> p \in crossed)
    BY <1>1, <1>2, <1>3, <1>8, <1>11, <2>1, <2>2, WriteAgrees
  <2>4. ASSUME NEW j \in DOMAIN controls, NEW p \in PortIds,
               IsPort(j), controls[j].widget, controls[j].id = p, p = j - 1,
               p \notin DOMAIN toUi, p \notin crossed'
        PROVE  Shows(controls'[j], Latest(p)')
    <3>1. CASE j = i
      <4>1. p = id
        BY <2>1, <2>4, <3>1
      <4> QED
        BY <1>7, <2>2, <2>3, <3>1, <4>1
    <3>2. CASE j # i
      <4>1. p # id
        BY <2>1, <2>2, <2>4, <3>2, IdsApart DEF SyncInv
      <4>2. Shows(controls[j], Latest(p))
        BY <2>3, <2>4, <4>1 DEF SyncInv, WidgetsAgree
      <4> QED
        BY <1>7, <2>3, <3>2, <4>1, <4>2
    <3> QED
      BY <3>1, <3>2
  <2>5. WidgetsAgree'
    BY <1>3, <1>7, <1>8, <1>9, <2>4 DEF WidgetsAgree, IsPort, Remade
  <2> QED
    BY <1>3, <1>7, <2>3, <2>5, SyncRunning
<1> QED
  BY <1>10, <1>11

LEMMA SyncPortEvent ==
  ASSUME PanelInv, SyncInv, PortEvent
  PROVE  SyncInv' /\ Remade
<1>1. PICK p \in DOMAIN toUi :
       /\ toUi' = [q \in DOMAIN toUi \ {p} |-> toUi[q]]
       /\ IF ControlsAt(p) = {}
          THEN UNCHANGED <<controls, pending, crossed>>
          ELSE LET i == Only(ControlsAt(p))
                   set == [controls[i] EXCEPT !.value = Put(@, "Float", toUi[p])]
                   s == Changed(set)
               IN /\ controls' = [controls EXCEPT ![i] = s.control]
                  /\ CutUpdate(controls[i], s.sent)
  BY DEF PortEvent
<1>2. UNCHANGED <<opening, dials, buf>> /\ phase = "running"
  BY DEF PortEvent, At
<1>3. UNCHANGED <<pending, crossed, plugin, frontend>>
  BY <1>1, <1>2 DEF CutUpdate, opening
<1>4. PortIds' = PortIds /\ \A q : Latest(q)' = Latest(q)
  BY <1>2, <1>3 DEF Latest, PortIds
<1>5. RingsAgree'
  BY <1>1, <1>3, <1>4 DEF SyncInv, RingsAgree, OwnWindow
<1>6. DOMAIN toUi' = DOMAIN toUi \ {p}
  BY <1>1
<1>7. p \in PortIds /\ p \in Int
  BY PortsAre DEF PanelInv, PanelTyped, RingsTyped, Partial
<1>8. CASE ControlsAt(p) = {}
  <2>1. UNCHANGED controls
    BY <1>1, <1>8
  <2>2. ASSUME NEW j \in DOMAIN controls, NEW q \in PortIds,
               IsPort(j), controls[j].widget, controls[j].id = q, q = j - 1,
               q \notin DOMAIN toUi', q \notin crossed
        PROVE  Shows(controls[j], Latest(q))
    <3>1. q # p
      <4>1. j \in Int
        BY PointersFinite DEF PanelInv, PanelTyped
      <4> QED
        BY <1>7, <1>8, <2>2, <4>1 DEF ControlsAt
    <3> QED
      BY <1>6, <2>2, <3>1 DEF SyncInv, WidgetsAgree
  <2>3. WidgetsAgree'
    BY <1>3, <1>4, <2>1, <2>2 DEF WidgetsAgree, IsPort
  <2> QED
    BY <1>2, <1>5, <2>1, <2>3, RemadeNone, SyncRunning
<1>9. CASE ControlsAt(p) # {}
  <2> DEFINE i == Only(ControlsAt(p))
             set == [controls[i] EXCEPT !.value = Put(@, "Float", toUi[p])]
             s == Changed(set)
  <2>1. /\ i = p + 1 /\ i \in DOMAIN controls
        /\ Alike(controls[i], set) /\ set.widget = controls[i].widget
        /\ Handled(set, s)
        /\ (set.widget /\ set.look # "text") => Shows(s.control, toUi[p])
    BY <1>9, PortEventIs
  <2>2. controls' = [controls EXCEPT ![i] = s.control]
    BY <1>1, <1>9
  <2> HIDE DEF s, set, i
  <2>3. Alike(controls[i], s.control) /\ s.control.widget = controls[i].widget
    BY <2>1 DEF Handled, Alike
  <2>4. /\ Remade /\ controls'[i] = s.control
        /\ \A j \in DOMAIN controls : j # i => controls'[j] = controls[j]
    BY <2>1, <2>2, <2>3, RemadeOne
  <2>5. \A j \in DOMAIN controls : /\ controls'[j].kind = controls[j].kind
                                  /\ controls'[j].id = controls[j].id
                                  /\ controls'[j].widget = controls[j].widget
    BY <2>4 DEF Remade, Alike
  <2>6. ASSUME NEW j \in DOMAIN controls, NEW q \in PortIds,
               IsPort(j), controls[j].widget, controls[j].id = q, q = j - 1,
               q \notin DOMAIN toUi', q \notin crossed
        PROVE  Shows(controls'[j], Latest(q))
    <3>1. j \in Int /\ q \in Int
      BY PointersFinite, PortsAre DEF PanelInv, PanelTyped
    <3>2. CASE j = i
      <4>1. q = p
        BY <1>7, <2>1, <2>6, <3>1, <3>2
      <4>2. controls[i].look # "text"
        BY <2>6, <3>2, TextIsNoPorts DEF IsPort
      <4>3. Shows(s.control, toUi[p])
        BY <2>1, <2>6, <3>2, <4>2 DEF Alike
      <4>4. toUi[p] = Latest(p)
        <5>1. OwnWindow
          BY <2>6 DEF SyncInv, WidgetsOwn
        <5> QED
          BY <2>6, <4>1, <5>1 DEF SyncInv, RingsAgree
      <4> QED
        BY <2>4, <3>2, <4>1, <4>3, <4>4
    <3>3. CASE j # i
      <4>1. q # p
        BY <1>7, <2>1, <2>6, <3>1, <3>3
      <4> QED
        BY <1>6, <2>4, <2>6, <3>3, <4>1 DEF SyncInv, WidgetsAgree
    <3> QED
      BY <3>2, <3>3
  <2>7. WidgetsAgree'
    BY <1>3, <1>4, <2>4, <2>5, <2>6 DEF WidgetsAgree, IsPort, Remade
  <2> QED
    BY <1>2, <1>5, <2>4, <2>7, SyncRunning
<1> QED
  BY <1>8, <1>9

\* What set_port_value does to the values of a state, port by port.
LEMMA SetPortValuesIs ==
  ASSUME PanelInv, NEW values, Partial(values), NEW paused \in BOOLEAN,
         SetPortValues(values, paused)
  PROVE  /\ Remade
         /\ \A i \in DOMAIN controls :
              /\ controls'[i].scale = controls[i].scale /\ controls'[i].spin = controls[i].spin
              /\ IsPort(i) =>
                   Number(controls'[i].value) =
                     IF controls[i].id \in DOMAIN values THEN values[controls[i].id]
                     ELSE Number(controls[i].value)
         /\ \A p \in PortIds :
              Latest(p)' = IF p \in DOMAIN values THEN values[p] ELSE Latest(p)
         /\ DOMAIN toUi' = DOMAIN values \union DOMAIN toUi
         /\ \A p \in DOMAIN toUi' : toUi'[p] = IF p \in DOMAIN values THEN values[p] ELSE toUi[p]
         /\ crossed' = crossed \ DOMAIN values
         /\ paused => pending' = <<>>
<1> DEFINE new == [i \in DOMAIN controls |->
             IF controls[i].kind = "port" /\ controls[i].id \in DOMAIN values
             THEN [controls[i] EXCEPT !.value = Put(@, "Float", values[controls[i].id])]
             ELSE controls[i]]
<1>1. ASSUME NEW i \in DOMAIN controls
      PROVE  /\ Alike(controls[i], new[i]) /\ new[i].widget = controls[i].widget
             /\ new[i].scale = controls[i].scale /\ new[i].spin = controls[i].spin
             /\ IsPort(i) =>
                  Number(new[i].value) =
                    IF controls[i].id \in DOMAIN values THEN values[controls[i].id]
                    ELSE Number(controls[i].value)
  <2>1. CASE ~(controls[i].kind = "port" /\ controls[i].id \in DOMAIN values)
    <3>1. new[i] = controls[i]
      BY <2>1
    <3> HIDE DEF new
    <3> QED
      BY <2>1, <3>1 DEF Alike, IsPort
  <2>2. CASE controls[i].kind = "port" /\ controls[i].id \in DOMAIN values
    <3> DEFINE v == values[controls[i].id]
               d == [controls[i] EXCEPT !.value = Put(@, "Float", v)]
    <3>1. new[i] = d
      BY <2>2
    <3>2. v \in Values /\ ControlOK(controls[i]) /\ Coherent(controls[i])
      BY <2>2 DEF Partial, PanelInv, PanelTyped, ControlsTyped
    <3> HIDE DEF v
    <3>3. /\ Alike(controls[i], d) /\ Number(d.value) = v
          /\ d.widget = controls[i].widget /\ d.scale = controls[i].scale
          /\ d.spin = controls[i].spin
      BY <3>2, TypesApart, SetNumberOf
    <3> HIDE DEF d, new
    <3> QED
      BY <2>2, <3>1, <3>3 DEF v
  <2> QED
    BY <2>1, <2>2
<1>2. controls' = new /\ DOMAIN new = DOMAIN controls
  BY DEF SetPortValues
<1> HIDE DEF new
<1>3. Remade
  BY <1>1, <1>2 DEF Remade
<1>4. Partial(pending) /\ buf \in [PortIds -> Values]
  BY DEF PanelInv, PanelTyped, RingsTyped
<1>5. ASSUME NEW p \in PortIds
      PROVE  Latest(p)' = IF p \in DOMAIN values THEN values[p] ELSE Latest(p)
  <2>1. CASE paused
    <3>1. buf' = Over(values, Over(pending, buf)) /\ pending' = <<>>
      BY <2>1 DEF SetPortValues
    <3>2. Latest(p)' = buf'[p]
      BY <3>1 DEF Latest
    <3>3. /\ DOMAIN Over(pending, buf) = PortIds
          /\ Over(pending, buf)[p] = Latest(p)
      BY <1>4 DEF Over, Latest, Partial
    <3>4. SUFFICES ASSUME NEW rest, rest = Over(pending, buf)
                   PROVE  Latest(p)' = IF p \in DOMAIN values THEN values[p] ELSE Latest(p)
      OBVIOUS
    <3>5. Over(values, rest)[p] = IF p \in DOMAIN values THEN values[p] ELSE rest[p]
      BY <3>3, <3>4 DEF Over
    <3> QED
      BY <3>1, <3>2, <3>3, <3>4, <3>5
  <2>2. CASE ~paused
    <3>1. pending' = Over(values, pending) /\ buf' = buf
      BY <2>2 DEF SetPortValues
    <3> QED
      BY <3>1, LatestOver
  <2> QED
    BY <2>1, <2>2
<1>6. /\ DOMAIN toUi' = DOMAIN values \union DOMAIN toUi
      /\ \A p \in DOMAIN toUi' : toUi'[p] = IF p \in DOMAIN values THEN values[p] ELSE toUi[p]
  BY DEF SetPortValues, Over
<1>7. crossed' = crossed \ DOMAIN values /\ (paused => pending' = <<>>)
  BY DEF SetPortValues
<1> QED
  BY <1>1, <1>2, <1>3, <1>5, <1>6, <1>7

LEMMA SyncSetPorts ==
  ASSUME PanelInv, SyncInv, NEW values, Partial(values), NEW paused \in BOOLEAN,
         SetPortValues(values, paused), UNCHANGED <<plugin, frontend, ports>>
  PROVE  RingsAgree' /\ WidgetsAgree'
<1>1. /\ Remade
      /\ \A i \in DOMAIN controls :
           controls'[i].scale = controls[i].scale /\ controls'[i].spin = controls[i].spin
      /\ \A p \in PortIds :
           Latest(p)' = IF p \in DOMAIN values THEN values[p] ELSE Latest(p)
      /\ DOMAIN toUi' = DOMAIN values \union DOMAIN toUi
      /\ \A p \in DOMAIN toUi' : toUi'[p] = IF p \in DOMAIN values THEN values[p] ELSE toUi[p]
      /\ crossed' = crossed \ DOMAIN values
  BY SetPortValuesIs
<1>2. DOMAIN toUi' \subseteq PortIds /\ PortIds' = PortIds
  BY <1>1 DEF PanelInv, PanelTyped, RingsTyped, Partial, PortIds
<1>3. ASSUME NEW p \in DOMAIN toUi', p \notin crossed', OwnWindow
      PROVE  toUi'[p] = Latest(p)'
  <2>1. CASE p \in DOMAIN values
    BY <1>1, <1>2, <1>3, <2>1
  <2>2. CASE p \notin DOMAIN values
    <3>1. p \in DOMAIN toUi /\ p \notin crossed
      BY <1>1, <1>3, <2>2
    <3>2. toUi[p] = Latest(p)
      BY <1>3, <3>1 DEF SyncInv, RingsAgree
    <3> QED
      BY <1>1, <1>2, <1>3, <2>2, <3>2
  <2> QED
    BY <2>1, <2>2
<1>4. RingsAgree'
  BY <1>3 DEF RingsAgree, OwnWindow
<1>5. ASSUME NEW i \in DOMAIN controls, NEW p \in PortIds,
             IsPort(i), controls[i].widget, controls[i].id = p, p = i - 1,
             p \notin DOMAIN toUi', p \notin crossed'
      PROVE  Shows(controls'[i], Latest(p)')
  <2>1. p \notin DOMAIN values /\ p \notin DOMAIN toUi /\ p \notin crossed
    BY <1>1, <1>5
  <2>2. Shows(controls[i], Latest(p)) /\ Latest(p)' = Latest(p)
    BY <1>1, <1>5, <2>1 DEF SyncInv, WidgetsAgree
  <2>3. controls[i] \in ControlRecord /\ controls[i].look # "text"
    BY <1>5, TextIsNoPorts DEF PanelInv, PanelTyped, ControlsTyped, ControlOK, IsPort
  <2>4. Alike(controls[i], controls'[i])
    BY <1>1 DEF Remade
  <2> QED
    BY <1>1, <2>2, <2>3, <2>4, ShowsSame
<1>6. \A j \in DOMAIN controls : /\ controls'[j].kind = controls[j].kind
                                /\ controls'[j].id = controls[j].id
                                /\ controls'[j].widget = controls[j].widget
  BY <1>1 DEF Remade, Alike
<1>7. WidgetsAgree'
  BY <1>1, <1>2, <1>5, <1>6 DEF WidgetsAgree, IsPort, Remade
<1> QED
  BY <1>4, <1>7

LEMMA SyncApply ==
  ASSUME PanelInv, SyncInv, NEW name, ApplyPreset(name), UNCHANGED <<opening, dials>>,
         phase = "running"
  PROVE  SyncInv' /\ Remade
<1>1. CASE name \in OnDisk
  <2>1. SetPortValues(ValuesOf(name), ~plugin.safe) /\ Partial(ValuesOf(name))
    BY <1>1, StateValues DEF ApplyPreset
  <2>2. (~plugin.safe) \in BOOLEAN /\ UNCHANGED <<plugin, frontend, ports>>
    BY DEF opening
  <2>3. Remade /\ RingsAgree' /\ WidgetsAgree'
    BY <2>1, <2>2, SetPortValuesIs, SyncSetPorts
  <2> QED
    BY <2>3, SyncRunning
<1>2. CASE name \notin OnDisk
  <2>1. UNCHANGED <<controls, rings>>
    BY <1>2 DEF ApplyPreset
  <2> QED
    BY <2>1, RemadeNone, SyncSame
<1> QED
  BY <1>1, <1>2

LEMMA SyncLoad ==
  ASSUME PanelInv, SyncInv, LoadPreset \/ ConsolePreset
  PROVE  SyncInv' /\ Remade
<1>1. CASE LoadPreset
  <2>1. PICK name \in menu :
          (frontend = "gtk" /\ preset = Unsaved /\ UNCHANGED <<controls, rings>>)
            \/ ApplyPreset(name)
    BY <1>1 DEF LoadPreset
  <2>2. phase = "running" /\ UNCHANGED <<opening, dials>>
    BY <1>1 DEF LoadPreset, At
  <2> QED
    BY <2>1, <2>2, RemadeNone, SyncSame, SyncApply
<1>2. CASE ConsolePreset
  <2>1. PICK name \in OnDisk \union {"unknown"} : ApplyPreset(name)
    BY <1>2 DEF ConsolePreset
  <2>2. phase = "running" /\ UNCHANGED <<opening, dials>>
    BY <1>2 DEF ConsolePreset, Typed, At
  <2> QED
    BY <2>1, <2>2, SyncApply
<1> QED
  BY <1>1, <1>2

LEMMA SyncPresets ==
  ASSUME SyncInv, SavePreset \/ SavePresetAs \/ DeletePreset \/ ValuelessSet
  PROVE  SyncInv' /\ Remade
<1>1. phase = "running" /\ UNCHANGED <<opening, widgets, rings>>
  BY DEF SavePreset, SavePresetAs, DeletePreset, ValuelessSet, At
<1>2. UNCHANGED <<controls, dials>>
  BY <1>1 DEF widgets
<1> QED
  BY <1>1, <1>2, RemadeNone, SyncSame

LEMMA SyncProcess ==
  ASSUME PanelInv, SyncInv, Process
  PROVE  SyncInv' /\ Remade
<1>1. /\ buf' = Over(pending, buf) /\ pending' = <<>> /\ phase = "running"
      /\ UNCHANGED <<opening, widgets, toUi, crossed>>
  BY DEF Process, At
<1>2. UNCHANGED <<plugin, frontend, controls, dials>> /\ PortIds' = PortIds
  BY <1>1 DEF opening, widgets, PortIds
<1>3. Partial(pending) /\ buf \in [PortIds -> Values] /\ Partial(toUi)
  BY DEF PanelInv, PanelTyped, RingsTyped
<1>4. \A p \in PortIds : Latest(p)' = Latest(p)
  BY <1>1, <1>3 DEF Latest, Over, Partial
<1>5. RingsAgree'
  BY <1>1, <1>2, <1>3, <1>4 DEF SyncInv, RingsAgree, OwnWindow, Partial
<1>6. WidgetsAgree'
  BY <1>1, <1>2, <1>4 DEF SyncInv, WidgetsAgree, IsPort
<1> QED
  BY <1>1, <1>2, <1>5, <1>6, RemadeNone, SyncRunning

LEMMA SyncOutput ==
  ASSUME PanelInv, SyncInv, Output
  PROVE  SyncInv' /\ Remade
<1>1. PICK o \in DOMAIN buf, v \in plugin.inputs :
       /\ buf' = [buf EXCEPT ![o] = v]
       /\ toUi' = Over([q \in {o} |-> v], toUi)
       /\ crossed' = crossed \ {o}
  BY DEF Output
<1>2. phase = "running" /\ UNCHANGED <<opening, widgets, pending>> /\ pending = <<>>
  BY DEF Output, At
<1>3. UNCHANGED <<plugin, frontend, controls, dials>> /\ PortIds' = PortIds
  BY <1>2 DEF opening, widgets, PortIds
<1>4. buf \in [PortIds -> Values] /\ Partial(toUi) /\ o \in PortIds
  BY DEF PanelInv, PanelTyped, RingsTyped
<1>5. \A p \in PortIds : Latest(p)' = IF p = o THEN v ELSE Latest(p)
  BY <1>1, <1>2, <1>4 DEF Latest
<1>6. /\ DOMAIN toUi' = DOMAIN toUi \union {o}
      /\ \A p \in DOMAIN toUi' : toUi'[p] = IF p = o THEN v ELSE toUi[p]
  BY <1>1 DEF Over
<1>7. RingsAgree'
  BY <1>1, <1>3, <1>4, <1>5, <1>6 DEF SyncInv, RingsAgree, OwnWindow, Partial
<1>8. WidgetsAgree'
  BY <1>1, <1>3, <1>5, <1>6 DEF SyncInv, WidgetsAgree, IsPort
<1> QED
  BY <1>2, <1>3, <1>7, <1>8, RemadeNone, SyncRunning

LEMMA SyncForeign ==
  ASSUME PanelInv, SyncInv, UserTurnsDial \/ PluginUiWrites
  PROVE  SyncInv' /\ Remade
<1>1. CASE UserTurnsDial
  <2>1. PICK p \in DOMAIN dials : TRUE
    BY <1>1 DEF UserTurnsDial
  <2>2. dials # <<>>
    BY <2>1
  <2>3. phase = "running" /\ UNCHANGED <<opening, controls>>
    BY <1>1 DEF UserTurnsDial, At
  <2>4. ~OwnWindow
    BY <2>2 DEF SyncInv, WidgetsOwn, OwnWindow
  <2> QED
    BY <2>2, <2>3, <2>4, RemadeNone, SyncElsewhere
<1>2. CASE PluginUiWrites
  <2>1. phase = "running" /\ UNCHANGED <<opening, widgets>> /\ ~OwnWindow
    BY <1>2 DEF PluginUiWrites, At, OwnWindow
  <2>2. UNCHANGED <<controls, dials>>
    BY <2>1 DEF widgets
  <2> QED
    BY <2>1, <2>2, RemadeNone, SyncElsewhere
<1> QED
  BY <1>1, <1>2

LEMMA SyncFromString ==
  ASSUME PanelInv, SyncInv, phase = "running", frontend = "console",
         NEW i \in DOMAIN controls, NEW v \in Values, SetFromString(i, v)
  PROVE  SyncInv' /\ Remade
<1> DEFINE c == controls[i]
           d == [c EXCEPT !.value = Put(@, c.type, v)]
<1>1. /\ c.type \in Numbers
      /\ controls' = [controls EXCEPT ![i].value = Put(@, c.type, v)]
      /\ UNCHANGED <<opening, dials>>
  BY DEF SetFromString
<1>2. ControlOK(c) /\ Coherent(c) /\ controls \in Seq(ControlRecord)
  BY DEF PanelInv, PanelTyped, ControlsTyped
<1>3. controls' = [controls EXCEPT ![i] = d]
  BY <1>1, <1>2
<1>4. c.kind = "port" => c.type = "Float"
  BY <1>2 DEF ControlOK
<1>5. Alike(c, d) /\ d.widget = c.widget
  BY <1>1, <1>2, <1>4, SetNumberOf
<1> HIDE DEF d
<1>6. Remade
  BY <1>3, <1>5, RemadeOne
<1> QED
  BY <1>1, <1>6, SyncElsewhere DEF OwnWindow

LEMMA SyncCommands ==
  ASSUME PanelInv, SyncInv, ConsoleSets \/ ConsoleSetsIndex
  PROVE  SyncInv' /\ Remade
<1>1. CASE ConsoleSets
  <2>1. PICK i \in DOMAIN controls, v \in plugin.inputs : SetFromString(i, v)
    BY <1>1 DEF ConsoleSets
  <2>2. phase = "running" /\ frontend = "console" /\ v \in Values
    BY <1>1, PortsAre DEF ConsoleSets, Typed, At
  <2> QED
    BY <2>1, <2>2, SyncFromString
<1>2. CASE ConsoleSetsIndex
  <2>1. PICK i \in DOMAIN controls : SetFromString(i, 0)
    BY <1>2 DEF ConsoleSetsIndex
  <2>2. phase = "running" /\ frontend = "console" /\ 0 \in Values
    BY <1>2, ValuesAre DEF ConsoleSetsIndex, Typed, At
  <2> QED
    BY <2>1, <2>2, SyncFromString
<1> QED
  BY <1>1, <1>2

LEMMA SyncTypes ==
  ASSUME PanelInv, SyncInv, UserTypes \/ RequestValue \/ ConsoleSetsText
  PROVE  SyncInv' /\ Remade
<1>1. CASE UserTypes
  <2>1. PICK i \in DOMAIN controls, n \in Lengths :
          controls[i].look = "text" /\ SetValue("typed", i, controls[i].type, n)
    BY <1>1 DEF UserTypes
  <2>2. phase = "running" /\ UNCHANGED <<opening, dials, rings>>
    BY <1>1 DEF UserTypes, At
  <2>3. controls[i].type \in Texts /\ controls[i].kind # "port" /\ n \in Nat
    BY <2>1, TextIsNoPorts, PortsAre
  <2>4. Fits(controls[i].type, n) /\ controls[i].type \in Texts \union Numbers
    BY <2>3, TextFits
  <2> QED
    BY <2>1, <2>2, <2>3, <2>4, SyncSetValue
<1>2. CASE RequestValue
  <2>1. PICK id \in 1..Size, n \in Lengths :
          \E i \in ControlsOf(id) : SetValue("set", i, "Path", n)
    BY <1>2 DEF RequestValue
  <2>2. PICK i \in ControlsOf(id) : SetValue("set", i, "Path", n)
    BY <2>1
  <2>3. phase = "running" /\ UNCHANGED <<opening, dials, rings>>
    BY <1>2 DEF RequestValue, At
  <2>4. i \in DOMAIN controls /\ controls[i].kind # "port" /\ n \in Nat
    BY ControlsOfIs, PortsAre
  <2>5. Fits("Path", n) /\ "Path" \in Texts \union Numbers
    BY <2>4, TypesApart, TextFits
  <2> QED
    BY <2>2, <2>3, <2>4, <2>5, SyncSetValue
<1>3. CASE ConsoleSetsText
  <2>1. PICK i \in DOMAIN controls, n \in Lengths :
          controls[i].type \in Texts /\ SetValue("set", i, controls[i].type, n)
    BY <1>3 DEF ConsoleSetsText
  <2>2. phase = "running" /\ UNCHANGED <<opening, dials, rings>>
    BY <1>3 DEF ConsoleSetsText, Typed, At
  <2>3. controls[i].kind # "port" /\ n \in Nat
    BY <2>1, TextIsNoPorts, PortsAre
  <2>4. Fits(controls[i].type, n) /\ controls[i].type \in Texts \union Numbers
    BY <2>1, <2>3, TextFits
  <2> QED
    BY <2>1, <2>2, <2>3, <2>4, SyncSetValue
<1> QED
  BY <1>1, <1>2, <1>3

LEMMA SyncPropertyEvent ==
  ASSUME PanelInv, SyncInv, PropertyEvent
  PROVE  SyncInv' /\ Remade
<1>1. PICK id \in 1..Size : \E i \in ControlsOf(id) :
        \/ \E n \in Lengths :
             LET type == IF controls[i].type \in Texts THEN controls[i].type
                         ELSE "String"
             IN SetValue("update", i, type, n)
        \/ \E v \in plugin.inputs : SetValue("update", i, "Int", v)
  BY DEF PropertyEvent
<1>2. PICK i \in ControlsOf(id) :
        \/ \E n \in Lengths :
             LET type == IF controls[i].type \in Texts THEN controls[i].type
                         ELSE "String"
             IN SetValue("update", i, type, n)
        \/ \E v \in plugin.inputs : SetValue("update", i, "Int", v)
  BY <1>1
<1>3. phase = "running" /\ UNCHANGED <<opening, dials, rings>>
  BY DEF PropertyEvent, At
<1>4. i \in DOMAIN controls /\ controls[i].kind # "port"
  BY ControlsOfIs
<1>5. ASSUME NEW n \in Lengths,
             SetValue("update", i, IF controls[i].type \in Texts THEN controls[i].type
                                   ELSE "String", n)
      PROVE  SyncInv' /\ Remade
  <2> DEFINE type == IF controls[i].type \in Texts THEN controls[i].type ELSE "String"
  <2>1. type \in Texts /\ n \in Nat
    BY TypesApart, PortsAre
  <2> HIDE DEF type
  <2>2. Fits(type, n) /\ type \in Texts \union Numbers
    BY <2>1, TextFits
  <2>3. SetValue("update", i, type, n)
    BY <1>5 DEF type
  <2> QED
    BY <1>3, <1>4, <2>2, <2>3, SyncSetValue
<1>6. ASSUME NEW v \in plugin.inputs, SetValue("update", i, "Int", v)
      PROVE  SyncInv' /\ Remade
  <2>1. Fits("Int", v) /\ "Int" \in Texts \union Numbers
    BY TypesApart, PortsAre DEF Fits
  <2> QED
    BY <1>3, <1>4, <1>6, <2>1, SyncSetValue
<1> QED
  BY <1>2, <1>5, <1>6

-----------------------------------------------------------------------------
(* The steps of jalv_open.                                                 *)

LEMMA SyncUnchanged ==
  ASSUME SyncInv, UNCHANGED <<plugin, frontend, phase, controls, dials, rings>>
  PROVE  SyncInv'
<1>1. UNCHANGED <<buf, pending, toUi, crossed>>
  BY DEF rings
<1>2. PortIds' = PortIds /\ (OwnWindow' <=> OwnWindow) /\ \A p : Latest(p)' = Latest(p)
  BY <1>1 DEF PortIds, OwnWindow, Latest
<1>3. PortsApart' /\ WidgetsOwn'
  BY <1>2 DEF SyncInv, PortsApart, WidgetsOwn, IsPort
<1>4. NothingSent' /\ RingsAgree'
  BY <1>1, <1>2 DEF SyncInv, NothingSent, RingsAgree
<1>5. OpenAgrees' /\ WidgetsAgree'
  BY <1>1, <1>2 DEF SyncInv, OpenAgrees, WidgetsAgree, IsPort
<1> QED
  BY <1>3, <1>4, <1>5 DEF SyncInv

\* Before the window is there, the widgets need no thought.
LEMMA SyncOpening ==
  ASSUME PanelInv', phase' # "running", PortsApart', NothingSent', RingsAgree', OpenAgrees'
  PROVE  SyncInv'
<1>1. \A i \in DOMAIN controls' : ~controls'[i].widget
  BY DEF PanelInv, PanelTyped, Early
<1>2. dials' = <<>>
  BY DEF PanelInv, PanelTyped, Early
<1>3. WidgetsOwn' /\ WidgetsAgree'
  BY <1>1, <1>2 DEF WidgetsOwn, WidgetsAgree
<1> QED
  BY <1>3 DEF SyncInv

\* Ports and properties are found: the rings are left alone.
LEMMA SyncFinds ==
  ASSUME PanelInv, PanelInv', SyncInv, phase \notin {"window", "running"},
         phase' \notin {"window", "running"}, phase' = "ports" => phase = "ports",
         UNCHANGED <<plugin, frontend, rings>>, PortsApart',
         \A i \in DOMAIN controls' :
           controls'[i].kind = "port" =>
             \/ /\ i \in DOMAIN controls /\ IsPort(i) /\ controls[i].id = controls'[i].id
                /\ controls[i].value = controls'[i].value
             \/ Number(controls'[i].value) = Latest(controls'[i].id)
  PROVE  SyncInv'
<1>1. UNCHANGED <<buf, pending, toUi, crossed>>
  BY DEF rings
<1>2. PortIds' = PortIds /\ (OwnWindow' <=> OwnWindow) /\ \A p : Latest(p)' = Latest(p)
  BY <1>1 DEF PortIds, OwnWindow, Latest
<1>3. NothingSent' /\ RingsAgree'
  BY <1>1, <1>2 DEF SyncInv, NothingSent, RingsAgree
<1>4. OpenAgrees'
  BY <1>2 DEF SyncInv, OpenAgrees, IsPort
<1> QED
  BY <1>3, <1>4, SyncOpening

LEMMA SyncSteps ==
  ASSUME PanelInv, PanelInv', SyncInv, NextLoop \/ MakeControl \/ MapUri \/ PluginMaps
  PROVE  SyncInv'
<1>1. CASE NextLoop
  <2>1. /\ phase \in {"ports", "writable", "readable"}
        /\ phase' \in {"writable", "readable", "instantiate"}
        /\ UNCHANGED <<plugin, frontend, widgets, rings>>
    BY <1>1 DEF NextLoop
  <2>2. UNCHANGED controls
    BY <2>1 DEF widgets
  <2>3. PortsApart'
    BY <2>2 DEF SyncInv, PortsApart, IsPort
  <2> QED
    BY <2>1, <2>2, <2>3, SyncFinds DEF IsPort
<1>2. CASE MakeControl \/ MapUri \/ PluginMaps
  <2>1. UNCHANGED <<plugin, frontend, phase, widgets, rings>>
    BY <1>2 DEF MakeControl, MapUri, PluginMaps, opening
  <2>2. UNCHANGED <<controls, dials>>
    BY <2>1 DEF widgets
  <2> QED
    BY <2>1, <2>2, SyncUnchanged
<1> QED
  BY <1>1, <1>2

LEMMA SyncMark ==
  ASSUME PanelInv, PanelInv', SyncInv, MarkReadable
  PROVE  SyncInv'
<1>1. PICK q \in left :
        controls' = [i \in DOMAIN controls |->
          [controls[i] EXCEPT !.readable = @ \/ i \in RecordsOf(q)]]
  BY DEF MarkReadable
<1>2. phase = "readable" /\ UNCHANGED <<plugin, frontend, phase, rings>>
  BY DEF MarkReadable
<1>3. ASSUME NEW i \in DOMAIN controls
      PROVE  /\ controls'[i].kind = controls[i].kind /\ controls'[i].id = controls[i].id
             /\ controls'[i].value = controls[i].value
  <2>1. controls[i] \in ControlRecord
    BY DEF PanelInv, PanelTyped, ControlsTyped, ControlOK
  <2> DEFINE readable == controls[i].readable \/ i \in RecordsOf(q)
             d == [controls[i] EXCEPT !.readable = readable]
  <2>2. controls'[i] = d
    BY <1>1, <2>1
  <2> HIDE DEF readable
  <2>3. d.kind = controls[i].kind /\ d.id = controls[i].id /\ d.value = controls[i].value
    BY <2>1 DEF ControlRecord
  <2> HIDE DEF d
  <2> QED
    BY <2>2, <2>3
<1>4. DOMAIN controls' = DOMAIN controls
  BY <1>1
<1>5. PortsApart'
  BY <1>3, <1>4 DEF SyncInv, PortsApart, IsPort
<1> QED
  BY <1>2, <1>3, <1>4, <1>5, SyncFinds DEF IsPort

\* A control comes after the others; that of a port has the port's default.
LEMMA SyncAppend ==
  ASSUME PanelInv, PanelInv', SyncInv, phase \notin {"window", "running"},
         UNCHANGED <<plugin, frontend, phase, rings>>,
         NEW d \in ControlRecord, controls' = Append(controls, d),
         d.kind = "port" =>
           /\ \A i \in DOMAIN controls : IsPort(i) => controls[i].id < d.id
           /\ Number(d.value) = Latest(d.id)
  PROVE  SyncInv'
<1>1. controls \in Seq(ControlRecord)
  BY DEF PanelInv, PanelTyped, ControlsTyped
<1> DEFINE n == Len(controls) + 1
<1>2. /\ n \in Int /\ DOMAIN controls' = DOMAIN controls \union {n} /\ controls'[n] = d
      /\ \A i \in DOMAIN controls : i \in Int /\ i < n /\ controls'[i] = controls[i]
  BY <1>1
<1> HIDE DEF n
<1>3. PortsApart'
  <2> SUFFICES ASSUME NEW i \in DOMAIN controls', NEW j \in DOMAIN controls',
                      controls'[i].kind = "port", controls'[j].kind = "port", i < j
               PROVE  controls'[i].id < controls'[j].id
    BY DEF PortsApart, IsPort
  <2>1. i \in DOMAIN controls
    <3>1. SUFFICES ASSUME i = n PROVE FALSE
      BY <1>2
    <3>2. j = n \/ j < n
      BY <1>2
    <3> QED
      BY <1>2, <3>1, <3>2
  <2>2. CASE j \in DOMAIN controls
    BY <1>2, <2>1, <2>2 DEF SyncInv, PortsApart, IsPort
  <2>3. CASE j = n
    BY <1>2, <2>1, <2>3 DEF IsPort
  <2> QED
    BY <1>2, <2>2, <2>3
<1>4. ASSUME NEW i \in DOMAIN controls', controls'[i].kind = "port"
      PROVE  \/ /\ i \in DOMAIN controls /\ IsPort(i) /\ controls[i].id = controls'[i].id
                /\ controls[i].value = controls'[i].value
             \/ Number(controls'[i].value) = Latest(controls'[i].id)
  BY <1>2, <1>4 DEF IsPort
<1> QED
  BY <1>3, <1>4, SyncFinds

LEMMA PortControlIs ==
  ASSUME NEW p \in PortData, p.class = "control", p.look \in Looks, NEW n \in Int
  PROVE  LET c == PortControl(p, n)
         IN /\ c \in ControlRecord /\ c.kind = "port" /\ c.id = n
            /\ Number(c.value) = p.default
<1> DEFINE value == Put(NoValue, p.number, p.default)
           input == (p.flow = "input")
           output == (p.flow = "output")
           base == NewControl("port", n, n, p.look, "Float", value)
           one == [base EXCEPT !.writable = input]
           made == [one EXCEPT !.readable = output]
           d == [made EXCEPT !.hidden = p.hidden]
<1>1. ValueOK(value) /\ value.type \in Numbers /\ Number(value) = p.default
  BY NoValueOK, TypesApart, NumberCounts DEF PortData
<1>2. PortControl(p, n) = d /\ input \in BOOLEAN /\ output \in BOOLEAN
  BY DEF PortControl
<1> HIDE DEF value, input, output
<1>3. p.look # "text" /\ "Float" \notin Texts /\ p.hidden \in BOOLEAN
  BY TypesApart DEF Looks, PortData
<1>4. /\ base \in ControlRecord /\ ~base.widget /\ base.value = value
      /\ base.kind = "port" /\ base.id = n /\ base.look = p.look /\ base.type = "Float"
  BY <1>1, <1>3, TypesApart DEF NewControl, ControlRecord, ValueOK
<1> HIDE DEF base
<1>5. ControlOK(base)
  BY <1>1, <1>3, <1>4 DEF ControlOK
<1>6. /\ ControlOK(one) /\ Coherent(one) /\ ~one.widget /\ one.value = value
      /\ one.kind = "port" /\ one.id = n
  BY <1>2, <1>4, <1>5, WritableOK
<1> HIDE DEF one
<1>7. /\ ControlOK(made) /\ Coherent(made) /\ made.value = value
      /\ made.kind = "port" /\ made.id = n
  BY <1>2, <1>6, ReadableOK
<1> HIDE DEF made
<1>8. ControlOK(d) /\ d.value = value /\ d.kind = "port" /\ d.id = n
  BY <1>3, <1>7, HiddenOK
<1> HIDE DEF d
<1> QED
  BY <1>1, <1>2, <1>8 DEF ControlOK

LEMMA SyncCreate ==
  ASSUME PanelInv, PanelInv', SyncInv, CreatePort
  PROVE  SyncInv'
<1> DEFINE n == Len(ports)
           p == plugin.ports[n + 1]
<1>1. /\ phase = "ports" /\ n < Len(plugin.ports)
      /\ UNCHANGED <<plugin, frontend, rings>>
  BY DEF CreatePort, At
<1>2. CASE UNCHANGED controls
  <2>1. PortsApart'
    BY <1>2 DEF SyncInv, PortsApart, IsPort
  <2>2. phase' \in {"ports", "failed"}
    BY <1>1 DEF CreatePort
  <2> QED
    BY <1>1, <1>2, <2>1, <2>2, SyncFinds DEF IsPort
<1>3. CASE ~ UNCHANGED controls
  <2>1. /\ phase' = phase /\ p.class = "control"
        /\ controls' = Append(controls, PortControl(p, n))
    BY <1>3 DEF CreatePort
  <2>2. n \in Nat /\ Len(plugin.ports) \in Nat
    BY PluginIs DEF PanelInv, PanelTyped, OpeningTyped
  <2>3. n \in PortIds /\ n + 1 \in 1..Len(plugin.ports)
    BY <1>1, <2>2 DEF PortIds
  <2>4. p \in PortData /\ p.look \in Looks
    BY <2>1, <2>3, PluginIs DEF PanelInv, PanelTyped, OpeningTyped
  <2>5. Latest(n) = p.default
    <3>1. pending = <<>> /\ buf[n] = p.default
      BY <1>1, <2>3 DEF SyncInv, NothingSent
    <3> QED
      BY <3>1 DEF Latest
  <2>6. ASSUME NEW i \in DOMAIN controls, IsPort(i)
        PROVE  controls[i].id < n
    <3>1. controls[i].id \in 0..(n - 1)
      BY <2>6 DEF IsPort, PanelInv, PanelTyped, ControlsTyped, OfPort
    <3> QED
      BY <2>2, <3>1
  <2> HIDE DEF n, p
  <2>7. SUFFICES ASSUME NEW d, d = PortControl(p, n) PROVE SyncInv'
    OBVIOUS
  <2>8. d \in ControlRecord /\ d.id = n /\ Number(d.value) = p.default
    BY <2>1, <2>2, <2>4, <2>7, PortControlIs
  <2> QED
    BY <1>1, <2>1, <2>5, <2>6, <2>7, <2>8, SyncAppend
<1> QED
  BY <1>2, <1>3

LEMMA SyncAdd ==
  ASSUME PanelInv, PanelInv', SymapInv, SyncInv, AddControl
  PROVE  SyncInv'
<1>1. /\ making # NoProperty
      /\ UNCHANGED <<plugin, frontend, phase, dials, rings>>
  BY DEF AddControl
<1>2. phase \in {"writable", "readable"} /\ making \in plugin.properties
  BY <1>1 DEF PanelInv, PanelTyped, OpeningTyped
<1>3. CASE making.range = "none"
  <2>1. controls' = controls
    BY <1>3 DEF AddControl
  <2> QED
    BY <1>1, <2>1, SyncUnchanged
<1>4. CASE making.range # "none"
  <2>1. plugin.properties \subseteq PropertyData
    BY PluginIs DEF PanelInv, PanelTyped, OpeningTyped
  <2>2. making.uri \in Symbol /\ making.range \in Texts \union Numbers \union {"none"}
    BY <1>2, <2>1 DEF PropertyData
  <2>3. making.uri \in Nat /\ making.range \in Texts \union Numbers
    BY <1>4, <2>2, SymapAssumption
  <2> DEFINE look == IF making.range \in Texts THEN "text" ELSE "slider"
             base == NewControl("property", making.uri, call.id, look, making.range, NoValue)
             writable == (phase = "writable")
             readable == (phase = "readable")
             one == [base EXCEPT !.writable = writable]
             d == [one EXCEPT !.readable = readable]
  <2>4. /\ controls' = Append(controls, d)
        /\ writable \in BOOLEAN /\ readable \in BOOLEAN
    BY <1>4, Zenon DEF AddControl, PropertyControl
  <2>5. call.id \in Int
    BY DEF SymapInv, SymapTypeOK
  <2>6. look \in Looks \union {"text"} /\ (look = "text" <=> making.range \in Texts)
    BY DEF Looks
  <2>7. ValueOK(NoValue)
    BY NoValueOK
  <2> HIDE DEF look, writable, readable
  <2>8. /\ base \in ControlRecord /\ ~base.widget /\ base.value = NoValue
        /\ base.kind = "property" /\ base.type = making.range /\ base.look = look
    BY <2>3, <2>5, <2>6, <2>7 DEF NewControl, ControlRecord, ValueOK
  <2> HIDE DEF base
  <2>9. ControlOK(base)
    BY <2>6, <2>7, <2>8 DEF ControlOK
  <2>10. ControlOK(one) /\ Coherent(one) /\ one.kind = "property"
    BY <2>4, <2>8, <2>9, WritableOK
  <2> HIDE DEF one
  <2>11. ControlOK(d) /\ d.kind = "property"
    BY <2>4, <2>10, ReadableOK
  <2> HIDE DEF d
  <2>12. SUFFICES ASSUME NEW e, e = d PROVE SyncInv'
    OBVIOUS
  <2>13. e \in ControlRecord /\ e.kind # "port" /\ controls' = Append(controls, e)
    BY <2>4, <2>11, <2>12 DEF ControlOK
  <2> QED
    BY <1>1, <1>2, <2>13, SyncAppend
<1> QED
  BY <1>3, <1>4

LEMMA SyncOpenState ==
  ASSUME PanelInv, PanelInv', SyncInv, OpenState
  PROVE  SyncInv' /\ Remade
<1>1. /\ phase = "instantiate" /\ phase' = "arguments"
      /\ SetPortValues(ShippedValues, TRUE) \/ UNCHANGED <<controls, rings>>
      /\ UNCHANGED <<plugin, frontend, ports>>
  BY DEF OpenState, At
<1>2. CASE UNCHANGED <<controls, rings>>
  <2>1. PortsApart'
    BY <1>2 DEF SyncInv, PortsApart, IsPort
  <2> QED
    BY <1>1, <1>2, <2>1, RemadeNone, SyncFinds DEF IsPort
<1>3. CASE SetPortValues(ShippedValues, TRUE)
  <2>1. SUFFICES ASSUME NEW values, values = ShippedValues PROVE SyncInv' /\ Remade
    OBVIOUS
  <2>2. Partial(values) /\ SetPortValues(values, TRUE)
    BY <1>3, <2>1, StateValues
  <2>3. /\ Remade
        /\ \A i \in DOMAIN controls :
             IsPort(i) =>
               Number(controls'[i].value) =
                 IF controls[i].id \in DOMAIN values THEN values[controls[i].id]
                 ELSE Number(controls[i].value)
        /\ \A p \in PortIds :
             Latest(p)' = IF p \in DOMAIN values THEN values[p] ELSE Latest(p)
        /\ pending' = <<>>
    BY <2>2, SetPortValuesIs
  <2>4. RingsAgree'
    BY <1>1, <2>2, SyncSetPorts
  <2>5. PortsApart'
    BY <2>3 DEF SyncInv, PortsApart, Remade, Alike, IsPort
  <2>6. NothingSent'
    BY <1>1, <2>3 DEF NothingSent
  <2>7. ASSUME NEW i \in DOMAIN controls, NEW p \in PortIds,
               controls'[i].kind = "port", controls'[i].id = p
        PROVE  Number(controls'[i].value) = Latest(p)'
    <3>1. IsPort(i) /\ controls[i].id = p
      BY <2>3, <2>7 DEF Remade, Alike, IsPort
    <3>2. Number(controls[i].value) = Latest(p)
      BY <1>1, <3>1 DEF SyncInv, OpenAgrees
    <3> QED
      BY <2>3, <3>1, <3>2
  <2>8. PortIds' = PortIds /\ DOMAIN controls' = DOMAIN controls
    BY <1>1, <2>3 DEF PortIds, Remade
  <2>9. OpenAgrees'
    BY <2>7, <2>8 DEF OpenAgrees, IsPort
  <2> QED
    BY <1>1, <2>3, <2>4, <2>5, <2>6, <2>9, SyncOpening
<1> QED
  BY <1>1, <1>2, <1>3

LEMMA SyncArgument ==
  ASSUME PanelInv, PanelInv', SyncInv, ControlArgument
  PROVE  SyncInv' /\ Remade
<1>1. /\ phase = "arguments" /\ phase' = "window"
      /\ UNCHANGED <<plugin, frontend, ports, buf, toUi>>
  BY DEF ControlArgument, At
<1>0. NothingSent'
  BY <1>1 DEF NothingSent
<1>2. CASE UNCHANGED <<controls, pending, crossed>>
  <2>1. PortIds' = PortIds /\ (OwnWindow' <=> OwnWindow) /\ \A p : Latest(p)' = Latest(p)
    BY <1>1, <1>2 DEF PortIds, OwnWindow, Latest
  <2>2. PortsApart' /\ RingsAgree' /\ OpenAgrees'
    BY <1>1, <1>2, <2>1 DEF SyncInv, PortsApart, RingsAgree, OpenAgrees, IsPort
  <2>3. Remade
    BY <1>2, RemadeNone
  <2> QED
    BY <1>0, <1>1, <2>2, <2>3, SyncOpening
<1>3. CASE \E i \in DOMAIN controls, v \in plugin.inputs :
             /\ controls' = [controls EXCEPT ![i].value = Put(@, "Float", v)]
             /\ Write(controls[i], <<v>>)
  <2>1. PICK i \in DOMAIN controls, v \in plugin.inputs :
             /\ controls' = [controls EXCEPT ![i].value = Put(@, "Float", v)]
             /\ Write(controls[i], <<v>>)
    BY <1>3
  <2> DEFINE c == controls[i]
             d == [c EXCEPT !.value = Put(@, "Float", v)]
  <2>2. ControlOK(c) /\ Coherent(c) /\ v \in Values /\ controls \in Seq(ControlRecord)
    BY PortsAre DEF PanelInv, PanelTyped, ControlsTyped
  <2>3. controls' = [controls EXCEPT ![i] = d]
    BY <2>1, <2>2
  <2>4. Alike(c, d) /\ d.widget = c.widget /\ Number(d.value) = v
    BY <2>2, TypesApart, SetNumberOf
  <2> HIDE DEF d
  <2>5. /\ Remade /\ controls'[i] = d
        /\ \A j \in DOMAIN controls : j # i => controls'[j] = controls[j]
    BY <2>3, <2>4, RemadeOne
  <2>6. PortsApart'
    BY <2>5 DEF SyncInv, PortsApart, Remade, Alike, IsPort
  <2>7. PortIds' = PortIds /\ DOMAIN controls' = DOMAIN controls
    BY <1>1, <2>5 DEF PortIds, Remade
  <2>8. CASE c.kind = "property"
    <3>1. UNCHANGED <<pending, crossed>>
      BY <2>1, <2>8 DEF Write
    <3>2. (OwnWindow' <=> OwnWindow) /\ \A p : Latest(p)' = Latest(p)
      BY <1>1, <3>1 DEF OwnWindow, Latest
    <3>3. RingsAgree'
      BY <1>1, <3>1, <3>2 DEF SyncInv, RingsAgree
    <3>4. ASSUME NEW j \in DOMAIN controls, controls'[j].kind = "port"
          PROVE  IsPort(j) /\ controls'[j] = controls[j]
      <4>1. j # i
        BY <2>4, <2>5, <2>8, <3>4 DEF Alike
      <4> QED
        BY <2>5, <3>4, <4>1 DEF IsPort
    <3>5. OpenAgrees'
      BY <1>1, <2>7, <3>2, <3>4 DEF SyncInv, OpenAgrees, IsPort
    <3> QED
      BY <1>0, <1>1, <2>5, <2>6, <3>3, <3>5, SyncOpening
  <2>9. CASE c.kind # "property"
    <3>1. SUFFICES ASSUME NEW id, id = c.id PROVE SyncInv' /\ Remade
      OBVIOUS
    <3>2. <<v>> \in Seq(Values) /\ <<v>> # <<>> /\ LastOf(<<v>>) = v /\ IsPort(i)
      BY <2>2, <2>9 DEF LastOf, IsPort, ControlOK, ControlRecord
    <3>3. SUFFICES ASSUME NEW sent, sent = <<v>> PROVE SyncInv' /\ Remade
      OBVIOUS
    <3>4. /\ RingsAgree' /\ Latest(id)' = v
          /\ \A p : p # id => Latest(p)' = Latest(p)
      BY <1>1, <2>1, <2>9, <3>1, <3>2, <3>3, WriteAgrees
    <3>5. ASSUME NEW j \in DOMAIN controls, NEW p \in PortIds,
                 controls'[j].kind = "port", controls'[j].id = p
          PROVE  Number(controls'[j].value) = Latest(p)'
      <4>1. IsPort(j) /\ controls[j].id = p
        BY <2>5, <3>5 DEF Remade, Alike, IsPort
      <4>2. CASE j = i
        BY <2>4, <2>5, <3>1, <3>4, <4>1, <4>2
      <4>3. CASE j # i
        <5>1. p # id
          BY <3>1, <3>2, <4>1, <4>3, IdsApart DEF SyncInv
        <5>2. Number(controls[j].value) = Latest(p)
          BY <1>1, <4>1 DEF SyncInv, OpenAgrees
        <5> QED
          BY <2>5, <3>4, <4>3, <5>1, <5>2
      <4> QED
        BY <4>2, <4>3
    <3>6. OpenAgrees'
      BY <2>7, <3>5 DEF OpenAgrees, IsPort
    <3> QED
      BY <1>0, <1>1, <2>5, <2>6, <3>4, <3>6, SyncOpening
  <2> QED
    BY <2>8, <2>9
<1> QED
  BY <1>2, <1>3 DEF ControlArgument

\* The widgets are built with the latest values, and the first refresh moves
\* them; what their handlers then send is what they show.
LEMMA SyncOpenWindow ==
  ASSUME PanelInv, PanelInv', SyncInv, OpenWindow
  PROVE  SyncInv'
<1>1. /\ phase = "window" /\ phase' = "running"
      /\ dials' # <<>> => frontend = "qt"
      /\ UNCHANGED <<plugin, frontend, ports, buf, toUi>>
  BY DEF OpenWindow, At
<1>2. /\ controls' = [i \in DOMAIN controls |-> WindowHandled[i].control]
      /\ pending' = Over(WindowValues, pending)
      /\ crossed' = crossed \union (WindowWritten \cap DOMAIN toUi)
  BY OpenWindowIs
<1>3. /\ DOMAIN WindowValues = WindowWritten
      /\ \A p \in WindowWritten : \E i \in WindowSent :
           controls[i].id = p /\ WindowValues[p] = LastOf(WindowHandled[i].sent)
  BY WindowValuesAre
<1>4. \A p : Latest(p)' = IF p \in WindowWritten THEN WindowValues[p] ELSE Latest(p)
  <2>1. SUFFICES ASSUME NEW new, new = WindowValues
                 PROVE  \A p : Latest(p)' = IF p \in DOMAIN new THEN new[p] ELSE Latest(p)
    BY <1>3
  <2> QED
    BY <1>1, <1>2, <2>1, LatestOver
<1>5. DOMAIN controls' = DOMAIN controls /\ PortIds' = PortIds /\ (OwnWindow' <=> OwnWindow)
  BY <1>1, <1>2 DEF PortIds, OwnWindow
<1>6. ASSUME NEW i \in DOMAIN controls
      PROVE  /\ controls'[i] = WindowHandled[i].control
             /\ controls'[i].kind = controls[i].kind /\ controls'[i].id = controls[i].id
             /\ controls'[i].look = controls[i].look
             /\ controls'[i].widget = WindowControls[i].widget
             /\ WindowControls[i].value = controls[i].value
             /\ WindowControls[i].look = controls[i].look
             /\ controls'[i].widget => OwnWindow
  <2>1. LET c == WindowControls[i]
            s == WindowHandled[i]
        IN /\ Alike(controls[i], c) /\ c.value = controls[i].value
           /\ Handled(c, s) /\ Alike(controls[i], s.control)
    BY WindowControlsOK DEF PanelInv, PanelTyped
  <2>2. controls'[i] = WindowHandled[i].control
    BY <1>2
  <2>3. ~controls[i].widget
    BY <1>1, BeforeWindow
  <2>4. WindowControls[i].widget => OwnWindow
    <3>1. WindowControls[i] = Widgeted(controls[i])
      BY DEF WindowControls
    <3>2. ~OwnWindow => Widgeted(controls[i]) = controls[i]
      BY DEF Widgeted, OwnWindow
    <3> QED
      BY <2>3, <3>1, <3>2
  <2> QED
    BY <2>1, <2>2, <2>4 DEF Alike, Handled
<1>7. PortsApart'
  BY <1>5, <1>6 DEF SyncInv, PortsApart, IsPort
<1>8. WidgetsOwn'
  BY <1>1, <1>5, <1>6 DEF WidgetsOwn
<1>9. NothingSent' /\ OpenAgrees'
  BY <1>1 DEF NothingSent, OpenAgrees
<1>10. RingsAgree'
  <2>1. ASSUME OwnWindow, NEW p \in DOMAIN toUi, p \notin crossed'
        PROVE  toUi[p] = Latest(p)'
    <3>1. p \notin WindowWritten /\ p \notin crossed
      BY <1>2, <2>1
    <3> QED
      BY <1>4, <2>1, <3>1 DEF SyncInv, RingsAgree
  <2> QED
    BY <1>1, <1>5, <2>1 DEF RingsAgree
<1>11. ASSUME NEW i \in DOMAIN controls, NEW p \in PortIds,
              IsPort(i), controls'[i].widget, controls[i].id = p, p = i - 1,
              p \notin DOMAIN toUi, p \notin crossed'
       PROVE  Shows(controls'[i], Latest(p)')
  <2>1. LET s == WindowHandled[i]
            c == WindowControls[i]
        IN /\ ShowsLast(s)
           /\ (c.widget /\ c.look # "text" /\ i \in DOMAIN ports
                 /\ ports[i].type = "control") =>
                Shows(s.control, Number(c.value))
    BY WindowControlsOK DEF PanelInv, PanelTyped
  <2>2. CASE p \in WindowWritten
    <3>1. PICK k \in WindowSent :
            controls[k].id = p /\ WindowValues[p] = LastOf(WindowHandled[k].sent)
      BY <1>3, <2>2
    <3>2. k \in DOMAIN controls /\ IsPort(k) /\ WindowHandled[k].sent # <<>>
      BY DEF WindowSent, IsPort
    <3>3. k = i
      BY <1>11, <3>1, <3>2, IdsApart DEF SyncInv
    <3>4. Shows(WindowHandled[i].control, LastOf(WindowHandled[i].sent))
      BY <2>1, <3>2, <3>3 DEF ShowsLast
    <3>5. Latest(p)' = LastOf(WindowHandled[i].sent)
      BY <1>4, <2>2, <3>1, <3>3
    <3> QED
      BY <1>6, <3>4, <3>5
  <2>3. CASE p \notin WindowWritten
    <3>1. Number(controls[i].value) = Latest(p) /\ Latest(p)' = Latest(p)
      BY <1>1, <1>4, <1>11, <2>3 DEF SyncInv, OpenAgrees
    <3>2. i \in DOMAIN ports /\ ports[i].type = "control"
      <4>1. /\ p \in 0..(Len(ports) - 1) /\ plugin.ports[p + 1].class = "control"
            /\ Len(ports) \in Nat /\ DOMAIN ports = 1..Len(ports)
            /\ \A j \in DOMAIN ports : ports[j].type = TypeOf(plugin.ports[j])
        <5>1. OfPort(controls[i])
          BY <1>11 DEF PanelInv, PanelTyped, ControlsTyped, IsPort
        <5>2. p \in 0..(Len(ports) - 1) /\ plugin.ports[p + 1].class = "control"
          BY <1>11, <5>1 DEF OfPort
        <5>3. \A j \in DOMAIN ports : ports[j].type = TypeOf(plugin.ports[j])
          BY DEF PanelInv, PanelTyped, OpeningTyped
        <5>4. Len(ports) \in Nat /\ DOMAIN ports = 1..Len(ports)
          BY DEF PanelInv, PanelTyped, OpeningTyped
        <5> QED
          BY <5>2, <5>3, <5>4
      <4>2. i \in Int
        BY PointersFinite DEF PanelInv, PanelTyped
      <4>3. i = p + 1 /\ i \in 1..Len(ports)
        BY <1>11, <4>1, <4>2
      <4> QED
        BY <4>1, <4>3, TypeOfIs
    <3>3. WindowControls[i].look # "text" /\ WindowControls[i].widget
      BY <1>6, <1>11, TextIsNoPorts DEF IsPort
    <3> QED
      BY <1>6, <2>1, <3>1, <3>2, <3>3
  <2> QED
    BY <2>2, <2>3
<1>12. WidgetsAgree'
  BY <1>1, <1>5, <1>6, <1>11 DEF WidgetsAgree, IsPort
<1> QED
  BY <1>7, <1>8, <1>9, <1>10, <1>12 DEF SyncInv

LEMMA SyncInit == Init => SyncInv
<1> SUFFICES ASSUME Init PROVE SyncInv
  OBVIOUS
<1>1. controls = <<>> /\ DOMAIN controls = {} /\ toUi = <<>> /\ DOMAIN toUi = {}
  BY DEF Init
<1>2. PortsApart /\ WidgetsOwn /\ RingsAgree /\ OpenAgrees /\ WidgetsAgree
  BY <1>1 DEF Init, PortsApart, WidgetsOwn, RingsAgree, OpenAgrees, WidgetsAgree
<1>3. NothingSent
  BY DEF Init, NothingSent, PortIds
<1> QED
  BY <1>2, <1>3 DEF SyncInv

LEMMA SyncStep == PanelInv /\ PanelInv' /\ SymapInv /\ SyncInv /\ [Next]_vars => SyncInv'
<1> SUFFICES ASSUME PanelInv, PanelInv', SymapInv, SyncInv, [Next]_vars PROVE SyncInv'
  OBVIOUS
<1>1. CASE UNCHANGED vars
  <2>1. UNCHANGED <<plugin, frontend, phase, controls, dials, rings>>
    BY <1>1 DEF vars, opening, widgets
  <2> QED
    BY <2>1, SyncUnchanged
<1>2. CASE Opening
  BY <1>2, SyncCreate, SyncSteps, SyncMark, SyncAdd, SyncOpenState, SyncArgument,
     SyncOpenWindow DEF Opening
<1>3. CASE User
  BY <1>3, SyncMoves, SyncForeign, SyncTypes, SyncLoad, SyncPresets DEF User
<1>4. CASE Command
  BY <1>4, SyncCommands, SyncTypes, SyncLoad DEF Command
<1>5. CASE Update
  BY <1>5, SyncPortEvent, SyncPropertyEvent, SyncPresets DEF Update
<1>6. CASE Process \/ Output
  BY <1>6, SyncProcess, SyncOutput
<1> QED
  BY <1>1, <1>2, <1>3, <1>4, <1>5, <1>6 DEF Next

\* Once nothing is on its way, the widgets of GTK show what the plugin has:
\* after any exchange of moves, presets, states and updates, whatever handlers
\* move each other, for every plugin.
THEOREM WindowShowsThePlugin == Spec => []InSync
<1>1. Spec => []SymapInv
  BY ImplementsSymap, SymapCorrect, PTL
<1>2. Spec => []SyncInv
  BY <1>1, PanelStaysTyped, SyncInit, SyncStep, PTL DEF Spec
<1> QED
  BY <1>2, PanelStaysTyped, SyncIsInSync, PTL

-----------------------------------------------------------------------------
(* Ports, properties and their controls.                                   *)

\* Control ports have their controls, before those of properties.
PortsMatch ==
  /\ \A i, j \in DOMAIN controls : (i < j /\ IsPort(j)) => IsPort(i)
  /\ phase \in {"ports", "failed"} => \A i \in DOMAIN controls : IsPort(i)
  /\ \A p \in 0..(Len(ports) - 1) :
       plugin.ports[p + 1].class = "control" =>
         \E i \in DOMAIN controls : IsPort(i) /\ controls[i].id = p
  /\ phase \notin {"ports", "failed"} => Len(ports) = Len(plugin.ports)

\* What the loops of jalv_create_controls have not come to, and what is mapped.
LoopsMatch ==
  /\ \A q \in left : \/ phase = "writable" /\ q.writable
                     \/ phase = "readable" /\ q.readable
  /\ making # NoProperty =>
       /\ making \notin left
       /\ \/ phase = "writable" /\ making.writable
          \/ /\ phase = "readable" /\ making.readable
             /\ making.writable => making.range = "none"
       /\ call.step # "idle" /\ call.sym = making.uri

Waits(q) == q \in left \/ (making # NoProperty /\ q = making)

\* The property has its record, and the record says that it is readable.
Recorded(q) ==
  /\ q.range # "none" /\ phase \notin {"ports", "failed"}
  /\ \/ q.writable /\ (phase = "writable" => ~Waits(q))
     \/ ~q.writable /\ q.readable /\ phase # "writable" /\ ~Waits(q)

Marked(q) == q.readable /\ phase \notin {"ports", "failed", "writable"} /\ ~Waits(q)

RecordsMatch ==
  /\ \A i \in DOMAIN controls : ~IsPort(i) =>
       /\ \E q \in plugin.properties :
            /\ Recorded(q) /\ controls[i].node = q.uri
            /\ controls[i].writable = q.writable
            /\ controls[i].readable <=> Marked(q)
       /\ controls[i].id # 0 =>
            controls[i].id \in 1..Size /\ symbols[controls[i].id] = controls[i].node
  /\ \A q \in plugin.properties : Recorded(q) =>
       \E i \in DOMAIN controls : ~IsPort(i) /\ controls[i].node = q.uri
  /\ \A i, j \in DOMAIN controls :
       (~IsPort(i) /\ ~IsPort(j) /\ controls[i].node = controls[j].node) => i = j

MatchInv == PortsMatch /\ LoopsMatch /\ RecordsMatch

LaterPhases == {"instantiate", "arguments", "window", "running"}

LEMMA AlikeIs ==
  ASSUME NEW c, NEW d, Alike(c, d)
  PROVE  /\ d.kind = c.kind /\ d.node = c.node /\ d.id = c.id
         /\ d.writable = c.writable /\ d.readable = c.readable
BY DEF Alike

\* A step that finds no port and no property.
LEMMA MatchKept ==
  ASSUME MatchInv, UNCHANGED <<plugin, left, making, ports>>,
         phase' = phase \/ {phase, phase'} \subseteq LaterPhases,
         DOMAIN controls' = DOMAIN controls,
         \A i \in DOMAIN controls : Alike(controls[i], controls'[i]),
         \A id \in 1..Size : id \in 1..Size' /\ symbols'[id] = symbols[id],
         making # NoProperty => call'.step # "idle" /\ call'.sym = call.sym
  PROVE  MatchInv'
<1>1. \A i \in DOMAIN controls :
        /\ controls'[i].kind = controls[i].kind /\ controls'[i].node = controls[i].node
        /\ controls'[i].id = controls[i].id
        /\ controls'[i].writable = controls[i].writable
        /\ controls'[i].readable = controls[i].readable
  BY AlikeIs
<1>2. /\ phase' = "ports" <=> phase = "ports"
      /\ phase' = "failed" <=> phase = "failed"
      /\ phase' = "writable" <=> phase = "writable"
      /\ phase' = "readable" <=> phase = "readable"
  BY DEF LaterPhases
<1>3. ASSUME NEW q
      PROVE  /\ Waits(q)' <=> Waits(q)
             /\ Recorded(q)' <=> Recorded(q)
             /\ Marked(q)' <=> Marked(q)
  <2>1. Waits(q)' <=> Waits(q)
    BY DEF Waits
  <2>2. Recorded(q)' <=> Recorded(q)
    BY <1>2, <2>1 DEF Recorded
  <2>3. Marked(q)' <=> Marked(q)
    BY <1>2, <2>1 DEF Marked
  <2> QED
    BY <2>1, <2>2, <2>3
<1>4. PortsMatch'
  <2>1. \A i \in DOMAIN controls : IsPort(i)' <=> IsPort(i)
    BY <1>1 DEF IsPort
  <2>2. \A i, j \in DOMAIN controls' : (i < j /\ IsPort(j)') => IsPort(i)'
    BY <2>1 DEF MatchInv, PortsMatch
  <2>3. phase' \in {"ports", "failed"} => \A i \in DOMAIN controls' : IsPort(i)'
    BY <1>2, <2>1 DEF MatchInv, PortsMatch
  <2>4. \A p \in 0..(Len(ports) - 1) :
          plugin.ports[p + 1].class = "control" =>
            \E i \in DOMAIN controls' : IsPort(i)' /\ controls'[i].id = p
    BY <1>1, <2>1 DEF MatchInv, PortsMatch
  <2>5. phase' \notin {"ports", "failed"} => Len(ports) = Len(plugin.ports)
    BY <1>2 DEF MatchInv, PortsMatch
  <2> QED
    BY <2>2, <2>3, <2>4, <2>5 DEF PortsMatch
<1>5. LoopsMatch'
  BY <1>2 DEF MatchInv, LoopsMatch
<1>6. RecordsMatch'
  <2>1. ASSUME NEW i \in DOMAIN controls, controls'[i].kind # "port"
        PROVE  /\ \E q \in plugin.properties :
                    /\ Recorded(q)' /\ controls'[i].node = q.uri
                    /\ controls'[i].writable = q.writable
                    /\ controls'[i].readable <=> Marked(q)'
               /\ controls'[i].id # 0 =>
                    controls'[i].id \in 1..Size' /\ symbols'[controls'[i].id] = controls'[i].node
    <3>1. ~IsPort(i)
      BY <1>1, <2>1 DEF IsPort
    <3>2. PICK q \in plugin.properties :
            /\ Recorded(q) /\ controls[i].node = q.uri
            /\ controls[i].writable = q.writable
            /\ controls[i].readable <=> Marked(q)
      BY <3>1 DEF MatchInv, RecordsMatch
    <3>3. controls[i].id # 0 =>
            controls[i].id \in 1..Size /\ symbols[controls[i].id] = controls[i].node
      BY <3>1 DEF MatchInv, RecordsMatch
    <3>4. /\ Recorded(q)' /\ controls'[i].node = q.uri
          /\ controls'[i].writable = q.writable
          /\ controls'[i].readable <=> Marked(q)'
      BY <1>1, <1>3, <3>2
    <3>5. controls'[i].id # 0 =>
            controls'[i].id \in 1..Size' /\ symbols'[controls'[i].id] = controls'[i].node
      BY <1>1, <3>3
    <3> QED
      BY <3>4, <3>5
  <2>2. ASSUME NEW q \in plugin.properties, Recorded(q)'
        PROVE  \E i \in DOMAIN controls : controls'[i].kind # "port" /\ controls'[i].node = q.uri
    <3>1. Recorded(q)
      BY <1>3, <2>2
    <3>2. PICK i \in DOMAIN controls : ~IsPort(i) /\ controls[i].node = q.uri
      BY <3>1 DEF MatchInv, RecordsMatch
    <3> QED
      BY <1>1, <3>2 DEF IsPort
  <2>3. ASSUME NEW i \in DOMAIN controls, NEW j \in DOMAIN controls,
               controls'[i].kind # "port", controls'[j].kind # "port",
               controls'[i].node = controls'[j].node
        PROVE  i = j
    BY <1>1, <2>3 DEF MatchInv, RecordsMatch, IsPort
  <2> QED
    BY <2>1, <2>2, <2>3 DEF RecordsMatch, IsPort
<1> QED
  BY <1>4, <1>5, <1>6 DEF MatchInv

LEMMA MatchRunning ==
  ASSUME SymapInv, MatchInv, UNCHANGED <<opening, symapVars>>, Remade
  PROVE  MatchInv'
<1>1. UNCHANGED <<plugin, left, making, ports, phase, symbols, call>>
  BY DEF opening, symapVars
<1>2. \A id \in 1..Size : id \in 1..Size' /\ symbols'[id] = symbols[id]
  BY <1>1 DEF Size
<1>3. /\ DOMAIN controls' = DOMAIN controls
      /\ \A i \in DOMAIN controls : Alike(controls[i], controls'[i])
  BY DEF Remade
<1>4. making # NoProperty => call'.step # "idle" /\ call'.sym = call.sym
  BY <1>1 DEF MatchInv, LoopsMatch
<1> QED
  BY <1>1, <1>2, <1>3, <1>4, MatchKept

\* URIs are mapped: what has been mapped keeps its ID.
LEMMA SymbolsKept ==
  ASSUME SymapInv, SymapSteps
  PROVE  /\ \A id \in 1..Size : id \in 1..Size' /\ symbols'[id] = symbols[id]
         /\ call'.step # "idle" /\ call'.sym = call.sym
<1>1. symbols \in Seq(Symbol) /\ Size \in Nat /\ call.sym \in Symbol \union {0}
  BY DEF SymapInv, SymapTypeOK, Size
<1>2. CASE SearchStep
  <2>1. UNCHANGED symbols
    BY <1>2 DEF SearchStep
  <2>2. call'.step # "idle" /\ call'.sym = call.sym
    BY <1>2 DEF SearchStep, SymapInv, SymapTypeOK
  <2> QED
    BY <2>1, <2>2 DEF Size
<1>3. CASE Insert
  <2>1. symbols' = Append(symbols, call.sym) /\ call.sym \in Symbol
    BY <1>3 DEF Insert, SymapInv, CallHasSymbol
  <2>2. Size' = Size + 1 /\ \A id \in 1..Size : symbols'[id] = symbols[id]
    BY <1>1, <2>1 DEF Size
  <2>3. call'.step # "idle" /\ call'.sym = call.sym
    BY <1>3 DEF Insert, SymapInv, SymapTypeOK
  <2> QED
    BY <1>1, <2>2, <2>3
<1>4. CASE OutOfMemory
  <2>1. UNCHANGED symbols
    BY <1>4 DEF OutOfMemory
  <2>2. call'.step # "idle" /\ call'.sym = call.sym
    BY <1>4 DEF OutOfMemory, SymapInv, SymapTypeOK
  <2> QED
    BY <2>1, <2>2 DEF Size
<1> QED
  BY <1>2, <1>3, <1>4 DEF SymapSteps

LEMMA MatchMaps ==
  ASSUME SymapInv, MatchInv, MapUri \/ PluginMaps
  PROVE  MatchInv'
<1>1. UNCHANGED <<plugin, phase, left, making, ports, controls>>
  BY DEF MapUri, PluginMaps, opening, widgets
<1>2. DOMAIN controls' = DOMAIN controls /\ \A i \in DOMAIN controls : Alike(controls[i], controls'[i])
  BY <1>1 DEF Alike
<1>3. CASE MapUri
  <2>1. SymapSteps
    BY <1>3 DEF MapUri
  <2> QED
    BY <1>1, <1>2, <2>1, SymbolsKept, MatchKept
<1>4. CASE PluginMaps
  <2>1. phase = "instantiate" /\ UNCHANGED symbols
    BY <1>4 DEF PluginMaps, At, BeginMap, Return
  <2>2. making = NoProperty
    BY <2>1 DEF MatchInv, LoopsMatch
  <2>3. \A id \in 1..Size : id \in 1..Size' /\ symbols'[id] = symbols[id]
    BY <2>1 DEF Size
  <2> QED
    BY <1>1, <1>2, <2>2, <2>3, MatchKept
<1> QED
  BY <1>3, <1>4

\* The plugin's properties have URIs of their own.
LEMMA UrisApart ==
  ASSUME PanelInv, NEW q \in plugin.properties, NEW r \in plugin.properties, q.uri = r.uri
  PROVE  q = r
BY PluginIs DEF PanelInv, PanelTyped, OpeningTyped

LEMMA MatchCreate ==
  ASSUME PanelInv, MatchInv, CreatePort
  PROVE  MatchInv'
<1> DEFINE n == Len(ports)
           p == plugin.ports[n + 1]
<1>1. /\ phase = "ports" /\ n < Len(plugin.ports)
      /\ UNCHANGED <<plugin, left, making, symapVars>>
  BY DEF CreatePort, At
<1>2. /\ n \in Nat /\ DOMAIN ports = 1..n /\ controls \in Seq(ControlRecord)
  BY DEF PanelInv, PanelTyped, OpeningTyped, ControlsTyped
<1>3. phase' \in {"ports", "failed"}
  BY <1>1 DEF CreatePort
<1>4. \A i \in DOMAIN controls : IsPort(i)
  BY <1>1 DEF MatchInv, PortsMatch
<1>5. LoopsMatch'
  <2>1. making = NoProperty /\ left = {}
    BY <1>1 DEF MatchInv, LoopsMatch
  <2> QED
    BY <1>1, <2>1 DEF LoopsMatch
<1>6. \A q : ~Recorded(q)'
  BY <1>3 DEF Recorded
<1>7. CASE ~Known(p)
  <2>1. phase' = "failed" /\ UNCHANGED <<ports, controls>>
    BY <1>7 DEF CreatePort
  <2>2. \A i \in DOMAIN controls' : IsPort(i)'
    BY <1>4, <2>1 DEF IsPort
  <2>3. \A k \in 0..(Len(ports') - 1) :
          plugin'.ports[k + 1].class = "control" =>
            \E i \in DOMAIN controls' : IsPort(i)' /\ controls'[i].id = k
    BY <1>1, <2>1 DEF MatchInv, PortsMatch, IsPort
  <2>4. PortsMatch'
    BY <2>1, <2>2, <2>3 DEF PortsMatch
  <2>5. RecordsMatch'
    BY <1>6, <2>2 DEF RecordsMatch
  <2> QED
    BY <1>5, <2>4, <2>5 DEF MatchInv
<1>8. CASE Known(p)
  <2>1. /\ Len(ports') = n + 1 /\ phase' = phase
        /\ controls' = IF p.class = "control" THEN Append(controls, PortControl(p, n))
                       ELSE controls
    BY <1>2, <1>8 DEF CreatePort
  <2>2. PortControl(p, n).kind = "port" /\ PortControl(p, n).id = n
    BY DEF PortControl, NewControl
  <2>3. SUFFICES ASSUME NEW d, d = PortControl(p, n) PROVE MatchInv'
    OBVIOUS
  <2> DEFINE old == DOMAIN controls
             last == Len(controls) + 1
  <2>4. /\ old \subseteq DOMAIN controls'
        /\ \A i \in old : controls'[i] = controls[i]
        /\ p.class = "control" => /\ last \in DOMAIN controls' /\ controls'[last] = d
                                  /\ DOMAIN controls' = old \union {last}
        /\ p.class # "control" => DOMAIN controls' = old
    BY <1>2, <2>1, <2>3
  <2> HIDE DEF old, last, p
  <2>5. \A i \in DOMAIN controls' : controls'[i].kind = "port"
    BY <1>4, <2>2, <2>3, <2>4 DEF IsPort, old
  <2>6. ASSUME NEW k \in 0..n, plugin.ports[k + 1].class = "control"
        PROVE  \E i \in DOMAIN controls' : controls'[i].kind = "port" /\ controls'[i].id = k
    <3>1. CASE k = n
      <4>1. p.class = "control"
        BY <2>6, <3>1 DEF p
      <4> QED
        BY <2>2, <2>3, <2>4, <3>1, <4>1
    <3>2. CASE k # n
      <4>1. k \in 0..(n - 1)
        <5>1. n \in Nat /\ k \in Nat /\ k <= n
          BY <1>2
        <5> HIDE DEF n
        <5> QED
          BY <3>2, <5>1
      <4>2. PICK i \in old : controls[i].id = k
        BY <2>6, <4>1 DEF MatchInv, PortsMatch, old
      <4> QED
        BY <2>4, <2>5, <4>2
    <3> QED
      BY <3>1, <3>2
  <2>9. Len(ports') - 1 = n
    BY <1>2, <2>1
  <2>7. PortsMatch'
    BY <1>1, <2>1, <2>5, <2>6, <2>9 DEF PortsMatch, IsPort
  <2>8. RecordsMatch'
    BY <1>6, <2>5 DEF RecordsMatch, IsPort
  <2> QED
    BY <1>5, <2>7, <2>8 DEF MatchInv
<1> QED
  BY <1>7, <1>8

LEMMA MatchLoop ==
  ASSUME PanelInv, MatchInv, NextLoop
  PROVE  MatchInv'
<1>1. /\ making = NoProperty /\ left = {}
      /\ UNCHANGED <<plugin, making, ports, controls, symapVars>>
  BY DEF NextLoop, widgets
<1>2. \/ /\ phase = "ports" /\ phase' = "writable" /\ Len(ports) = Len(plugin.ports)
         /\ left' = {q \in plugin.properties : q.writable}
      \/ /\ phase = "writable" /\ phase' = "readable"
         /\ left' = {q \in plugin.properties : q.readable}
      \/ /\ phase = "readable" /\ phase' = "instantiate" /\ left' = left
  BY DEF NextLoop
<1>3. PortsMatch'
  <2>1. phase' \notin {"ports", "failed"} /\ Len(ports) = Len(plugin.ports)
    BY <1>2 DEF MatchInv, PortsMatch
  <2>2. /\ \A i, j \in DOMAIN controls : (i < j /\ IsPort(j)) => IsPort(i)
        /\ \A p \in 0..(Len(ports) - 1) :
             plugin.ports[p + 1].class = "control" =>
               \E i \in DOMAIN controls : IsPort(i) /\ controls[i].id = p
    BY DEF MatchInv, PortsMatch
  <2> QED
    BY <1>1, <2>1, <2>2 DEF PortsMatch, IsPort
<1>4. LoopsMatch'
  BY <1>1, <1>2 DEF LoopsMatch
<1>5. ASSUME NEW q \in plugin.properties
      PROVE  (Recorded(q)' <=> Recorded(q)) /\ (Marked(q)' <=> Marked(q))
  <2>1. ~Waits(q) /\ (Waits(q)' <=> q \in left')
    BY <1>1 DEF Waits
  <2>2. CASE phase = "ports"
    <3>1. ~Recorded(q) /\ ~Marked(q) /\ phase' = "writable"
      BY <1>2, <2>2 DEF Recorded, Marked
    <3>2. q.writable => Waits(q)'
      BY <1>2, <2>1, <2>2
    <3> QED
      BY <3>1, <3>2 DEF Recorded, Marked
  <2>3. CASE phase = "writable"
    <3>1. phase' = "readable" /\ (Waits(q)' <=> q.readable)
      BY <1>2, <2>1, <2>3
    <3> QED
      BY <2>1, <2>3, <3>1 DEF Recorded, Marked
  <2>4. CASE phase = "readable"
    <3>1. phase' = "instantiate" /\ ~Waits(q)'
      BY <1>1, <1>2, <2>1, <2>4
    <3> QED
      BY <2>1, <2>4, <3>1 DEF Recorded, Marked
  <2> QED
    BY <1>2, <2>2, <2>3, <2>4
<1>6. RecordsMatch'
  <2>1. \A i \in DOMAIN controls : ~IsPort(i) =>
          \E q \in plugin.properties :
            /\ Recorded(q)' /\ controls[i].node = q.uri
            /\ controls[i].writable = q.writable
            /\ controls[i].readable <=> Marked(q)'
    BY <1>5 DEF MatchInv, RecordsMatch
  <2>2. \A q \in plugin.properties : Recorded(q)' =>
          \E i \in DOMAIN controls : ~IsPort(i) /\ controls[i].node = q.uri
    BY <1>5 DEF MatchInv, RecordsMatch
  <2>3. /\ \A i, j \in DOMAIN controls :
             (~IsPort(i) /\ ~IsPort(j) /\ controls[i].node = controls[j].node) => i = j
        /\ \A i \in DOMAIN controls : (~IsPort(i) /\ controls[i].id # 0) =>
             controls[i].id \in 1..Size /\ symbols[controls[i].id] = controls[i].node
    BY DEF MatchInv, RecordsMatch
  <2>4. UNCHANGED <<symbols, plugin, controls>> /\ Size' = Size
    BY <1>1 DEF symapVars, Size
  <2> QED
    BY <2>1, <2>2, <2>3, <2>4 DEF RecordsMatch, IsPort
<1> QED
  BY <1>3, <1>4, <1>6 DEF MatchInv

\* A property that a loop has come to is a property of the plugin.
LEMMA LeftIs ==
  ASSUME PanelInv, MatchInv, NEW q \in left
  PROVE  /\ q \in plugin.properties /\ q # NoProperty
         /\ \/ phase = "writable" /\ q.writable
            \/ phase = "readable" /\ q.readable
<1>1. q \in plugin.properties
  BY DEF PanelInv, PanelTyped, OpeningTyped
<1>2. \/ phase = "writable" /\ q.writable
      \/ phase = "readable" /\ q.readable
  BY DEF MatchInv, LoopsMatch
<1>3. ~NoProperty.writable /\ ~NoProperty.readable
  BY DEF NoProperty
<1> QED
  BY <1>1, <1>2, <1>3

LEMMA MatchMark ==
  ASSUME PanelInv, MatchInv, MarkReadable
  PROVE  MatchInv'
<1>1. PICK q \in left :
        /\ AlsoReadable(q)
        /\ left' = left \ {q}
        /\ controls' = [i \in DOMAIN controls |->
             [controls[i] EXCEPT !.readable = @ \/ i \in RecordsOf(q)]]
  BY DEF MarkReadable
<1>2. /\ phase = "readable" /\ making = NoProperty
      /\ UNCHANGED <<plugin, phase, making, ports, symbols, call>>
  BY DEF MarkReadable, symapVars
<1>3. q \in plugin.properties /\ q.readable /\ q.writable
  BY <1>1, <1>2, LeftIs DEF AlsoReadable
<1>4. ASSUME NEW i \in DOMAIN controls
      PROVE  /\ controls'[i].kind = controls[i].kind /\ controls'[i].node = controls[i].node
             /\ controls'[i].id = controls[i].id
             /\ controls'[i].writable = controls[i].writable
             /\ controls'[i].readable <=> controls[i].readable \/ i \in RecordsOf(q)
  <2>1. controls[i] \in ControlRecord
    BY DEF PanelInv, PanelTyped, ControlsTyped, ControlOK
  <2> DEFINE readable == controls[i].readable \/ i \in RecordsOf(q)
             d == [controls[i] EXCEPT !.readable = readable]
  <2>2. controls'[i] = d
    BY <1>1, <2>1
  <2> HIDE DEF readable
  <2>3. /\ d.kind = controls[i].kind /\ d.node = controls[i].node /\ d.id = controls[i].id
        /\ d.writable = controls[i].writable /\ d.readable = readable
    BY <2>1 DEF ControlRecord
  <2> HIDE DEF d
  <2> QED
    BY <2>2, <2>3 DEF readable
<1>5. DOMAIN controls' = DOMAIN controls
  BY <1>1
<1>6. \A r : Waits(r)' <=> (Waits(r) /\ r # q)
  BY <1>1, <1>2 DEF Waits
<1>7. \A r : Recorded(r)' <=> Recorded(r)
  BY <1>2, <1>3, <1>6 DEF Recorded
<1>8. Marked(q)' /\ \A r : r # q => (Marked(r)' <=> Marked(r))
  BY <1>2, <1>3, <1>6 DEF Marked
<1>9. PortsMatch'
  <2>1. phase' \notin {"ports", "failed"} /\ Len(ports) = Len(plugin.ports)
    BY <1>2 DEF MatchInv, PortsMatch
  <2>2. /\ \A i, j \in DOMAIN controls : (i < j /\ IsPort(j)) => IsPort(i)
        /\ \A p \in 0..(Len(ports) - 1) :
             plugin.ports[p + 1].class = "control" =>
               \E i \in DOMAIN controls : IsPort(i) /\ controls[i].id = p
    BY DEF MatchInv, PortsMatch
  <2>3. \A i \in DOMAIN controls : IsPort(i)' <=> IsPort(i)
    BY <1>4 DEF IsPort
  <2>4. \A i, j \in DOMAIN controls' : (i < j /\ IsPort(j)') => IsPort(i)'
    BY <1>5, <2>2, <2>3
  <2>5. \A p \in 0..(Len(ports) - 1) :
           plugin.ports[p + 1].class = "control" =>
             \E i \in DOMAIN controls' : IsPort(i)' /\ controls'[i].id = p
    BY <1>4, <1>5, <2>2, <2>3
  <2> QED
    BY <1>2, <2>1, <2>4, <2>5 DEF PortsMatch
<1>10. LoopsMatch'
  BY <1>1, <1>2 DEF MatchInv, LoopsMatch
<1>11. ASSUME NEW i \in DOMAIN controls, ~IsPort(i)
       PROVE  /\ \E r \in plugin.properties :
                   /\ Recorded(r)' /\ controls'[i].node = r.uri
                   /\ controls'[i].writable = r.writable
                   /\ controls'[i].readable <=> Marked(r)'
              /\ controls'[i].id # 0 =>
                   controls'[i].id \in 1..Size' /\ symbols'[controls'[i].id] = controls'[i].node
  <2>1. PICK r \in plugin.properties :
          /\ Recorded(r) /\ controls[i].node = r.uri
          /\ controls[i].writable = r.writable
          /\ controls[i].readable <=> Marked(r)
    BY <1>11 DEF MatchInv, RecordsMatch
  <2>2. controls[i].id # 0 =>
          controls[i].id \in 1..Size /\ symbols[controls[i].id] = controls[i].node
    BY <1>11 DEF MatchInv, RecordsMatch
  <2>3. i \in RecordsOf(q) <=> r = q
    <3>1. controls[i].kind = "property"
      BY <1>11 DEF IsPort, PanelInv, PanelTyped, ControlsTyped, ControlOK, ControlRecord
    <3>2. i \in RecordsOf(q) <=> controls[i].node = q.uri
      BY <3>1 DEF RecordsOf
    <3> QED
      BY <1>3, <2>1, <3>2, UrisApart
  <2>4. controls'[i].readable <=> Marked(r)'
    BY <1>4, <1>8, <2>1, <2>3
  <2>5. /\ Recorded(r)' /\ controls'[i].node = r.uri /\ controls'[i].writable = r.writable
    BY <1>4, <1>7, <2>1
  <2>6. controls'[i].id # 0 =>
          controls'[i].id \in 1..Size' /\ symbols'[controls'[i].id] = controls'[i].node
    BY <1>2, <1>4, <2>2 DEF Size
  <2> QED
    BY <2>4, <2>5, <2>6
<1>12. ASSUME NEW r \in plugin.properties, Recorded(r)'
       PROVE  \E i \in DOMAIN controls : controls'[i].kind # "port" /\ controls'[i].node = r.uri
  <2>1. PICK i \in DOMAIN controls : ~IsPort(i) /\ controls[i].node = r.uri
    BY <1>7, <1>12 DEF MatchInv, RecordsMatch
  <2> QED
    BY <1>4, <2>1 DEF IsPort
<1>13. ASSUME NEW i \in DOMAIN controls, NEW j \in DOMAIN controls,
              controls'[i].kind # "port", controls'[j].kind # "port",
              controls'[i].node = controls'[j].node
       PROVE  i = j
  BY <1>4, <1>13 DEF MatchInv, RecordsMatch, IsPort
<1>14. \A i \in DOMAIN controls : controls'[i].kind # "port" => ~IsPort(i)
  BY <1>4 DEF IsPort
<1>15. RecordsMatch'
  BY <1>2, <1>5, <1>11, <1>12, <1>13, <1>14 DEF RecordsMatch, IsPort
<1> QED
  BY <1>9, <1>10, <1>15 DEF MatchInv

LEMMA MatchMake ==
  ASSUME PanelInv, MatchInv, MakeControl
  PROVE  MatchInv'
<1>1. PICK q \in left :
        ~AlsoReadable(q) /\ making' = q /\ left' = left \ {q} /\ BeginMap(q.uri)
  BY DEF MakeControl
<1>2. /\ phase \in {"writable", "readable"} /\ making = NoProperty
      /\ UNCHANGED <<plugin, phase, ports, controls>>
  BY DEF MakeControl, widgets
<1>3. /\ q \in plugin.properties /\ q # NoProperty
      /\ \/ phase = "writable" /\ q.writable
         \/ phase = "readable" /\ q.readable
  BY LeftIs
<1>4. call'.step # "idle" /\ call'.sym = q.uri /\ UNCHANGED symbols
  <2>1. SUFFICES ASSUME NEW sym, sym = q.uri
                 PROVE  call'.step # "idle" /\ call'.sym = sym /\ UNCHANGED symbols
    OBVIOUS
  <2>2. BeginMap(sym)
    BY <1>1, <2>1
  <2> QED
    BY <2>2 DEF BeginMap, Idle
<1>5. \A r : Waits(r)' <=> Waits(r)
  BY <1>1, <1>2, <1>3 DEF Waits
<1>6. \A r : (Recorded(r)' <=> Recorded(r)) /\ (Marked(r)' <=> Marked(r))
  BY <1>2, <1>5 DEF Recorded, Marked
<1>7. (phase = "readable" /\ q.writable) => q.range = "none"
  <2> SUFFICES ASSUME phase = "readable", q.writable, q.range # "none" PROVE FALSE
    OBVIOUS
  <2>1. Recorded(q)
    BY <1>2 DEF Recorded
  <2>2. PICK i \in DOMAIN controls : ~IsPort(i) /\ controls[i].node = q.uri
    BY <1>3, <2>1 DEF MatchInv, RecordsMatch
  <2>3. i \in RecordsOf(q)
    BY <2>2 DEF RecordsOf, IsPort, PanelInv, PanelTyped, ControlsTyped, ControlOK, ControlRecord
  <2> QED
    BY <1>1, <2>3 DEF AlsoReadable
<1>8. LoopsMatch'
  <2>1. \A r \in left' : \/ phase = "writable" /\ r.writable
                         \/ phase = "readable" /\ r.readable
    BY <1>1 DEF MatchInv, LoopsMatch
  <2>2. making' \notin left'
    BY <1>1
  <2> QED
    BY <1>1, <1>2, <1>3, <1>4, <1>7, <2>1, <2>2 DEF LoopsMatch
<1>9. PortsMatch'
  BY <1>2 DEF MatchInv, PortsMatch, IsPort
<1>10. RecordsMatch'
  <2>1. \A i \in DOMAIN controls : ~IsPort(i) =>
          \E r \in plugin.properties :
            /\ Recorded(r)' /\ controls[i].node = r.uri
            /\ controls[i].writable = r.writable
            /\ controls[i].readable <=> Marked(r)'
    BY <1>6 DEF MatchInv, RecordsMatch
  <2>2. \A r \in plugin.properties : Recorded(r)' =>
          \E i \in DOMAIN controls : ~IsPort(i) /\ controls[i].node = r.uri
    BY <1>6 DEF MatchInv, RecordsMatch
  <2>3. /\ \A i, j \in DOMAIN controls :
             (~IsPort(i) /\ ~IsPort(j) /\ controls[i].node = controls[j].node) => i = j
        /\ \A i \in DOMAIN controls : (~IsPort(i) /\ controls[i].id # 0) =>
             controls[i].id \in 1..Size /\ symbols[controls[i].id] = controls[i].node
    BY DEF MatchInv, RecordsMatch
  <2>4. UNCHANGED <<symbols, plugin, controls>> /\ Size' = Size
    BY <1>2, <1>4 DEF Size
  <2> QED
    BY <2>1, <2>2, <2>3, <2>4 DEF RecordsMatch, IsPort
<1> QED
  BY <1>8, <1>9, <1>10 DEF MatchInv

\* The record that new_property_control makes of a known type.
Flagged(c, writable, readable) == [c EXCEPT !.writable = writable, !.readable = readable]

LEMMA PropertyControlIs ==
  ASSUME NEW q \in PropertyData, q.range # "none", NEW id \in Int,
         NEW writable \in BOOLEAN, NEW readable \in BOOLEAN, NEW e,
         e = Flagged(PropertyControl(q, id), writable, readable)
  PROVE  /\ e \in ControlRecord /\ e.kind = "property" /\ e.node = q.uri /\ e.id = id
         /\ e.writable = writable /\ e.readable = readable
<1>1. q.uri \in Int /\ q.range \in Texts \union Numbers
  <2>1. q.uri \in Symbol /\ q.range \in Texts \union Numbers \union {"none"}
    BY DEF PropertyData
  <2>2. q.uri \in Nat
    BY <2>1, SymapAssumption
  <2> QED
    BY <2>1, <2>2
<1> DEFINE look == IF q.range \in Texts THEN "text" ELSE "slider"
           base == NewControl("property", q.uri, id, look, q.range, NoValue)
           one == [base EXCEPT !.writable = writable]
           d == [one EXCEPT !.readable = readable]
<1>2. Flagged(PropertyControl(q, id), writable, readable) = d
  BY Zenon DEF PropertyControl, Flagged
<1>3. look \in Looks \union {"text"} /\ (look = "text" <=> q.range \in Texts)
  BY DEF Looks
<1>4. ValueOK(NoValue)
  BY NoValueOK
<1> HIDE DEF look
<1>5. /\ base \in ControlRecord /\ ~base.widget /\ base.value = NoValue
      /\ base.kind = "property" /\ base.type = q.range /\ base.look = look
      /\ base.id = id /\ base.node = q.uri
  BY <1>1, <1>3, <1>4 DEF NewControl, ControlRecord, ValueOK
<1> HIDE DEF base
<1>6. ControlOK(base)
  BY <1>3, <1>4, <1>5 DEF ControlOK
<1>7. /\ ControlOK(one) /\ Coherent(one) /\ one.kind = "property" /\ one.id = id
      /\ one.node = q.uri /\ one.writable = writable
  BY <1>5, <1>6, WritableOK
<1> HIDE DEF one
<1>8. /\ ControlOK(d) /\ d.kind = "property" /\ d.id = id /\ d.node = q.uri
      /\ d.writable = writable /\ d.readable = readable
  BY <1>7, ReadableOK
<1> HIDE DEF d
<1> QED
  BY <1>2, <1>8 DEF ControlOK

LEMMA MatchAdd ==
  ASSUME PanelInv, SymapInv, MatchInv, AddControl
  PROVE  MatchInv'
<1>0. SUFFICES ASSUME NEW q, q = making, NEW id, id = call.id,
                      NEW writable \in BOOLEAN, writable = (phase = "writable"),
                      NEW readable \in BOOLEAN, readable = (phase = "readable")
               PROVE  MatchInv'
  OBVIOUS
<1> DEFINE d == [PropertyControl(q, id) EXCEPT !.writable = writable, !.readable = readable]
<1>1. /\ making # NoProperty /\ making' = NoProperty /\ call.step = "done"
      /\ UNCHANGED <<plugin, phase, left, ports, symbols>>
      /\ controls' = IF q.range = "none" THEN controls ELSE Append(controls, d)
  BY <1>0 DEF AddControl, Return
<1> HIDE DEF d
<1>2. /\ q \in plugin.properties /\ q \in PropertyData /\ q \notin left
      /\ \/ phase = "writable" /\ q.writable
         \/ phase = "readable" /\ q.readable /\ (q.writable => q.range = "none")
      /\ call.sym = q.uri
  BY <1>0, <1>1, PluginIs DEF PanelInv, PanelTyped, OpeningTyped, MatchInv, LoopsMatch
<1>3. /\ id \in Int /\ (id # 0 => id \in 1..Size /\ symbols[id] = q.uri)
      /\ controls \in Seq(ControlRecord)
  BY <1>0, <1>1, <1>2 DEF SymapInv, SymapTypeOK, SearchNarrows, PanelInv, PanelTyped, ControlsTyped
<1>4. LoopsMatch'
  BY <1>1 DEF MatchInv, LoopsMatch
<1>5. /\ Waits(q) /\ ~Waits(q)'
      /\ \A r : r # q => (Waits(r)' <=> Waits(r))
  BY <1>0, <1>1, <1>2 DEF Waits
<1>6. \A r : r # q => (Recorded(r)' <=> Recorded(r)) /\ (Marked(r)' <=> Marked(r))
  BY <1>1, <1>5 DEF Recorded, Marked
<1>7. ~Recorded(q)
  BY <1>2, <1>5 DEF Recorded
<1>8. Recorded(q)' <=> q.range # "none"
  BY <1>1, <1>2, <1>5 DEF Recorded
<1>9. /\ \A i, j \in DOMAIN controls : (i < j /\ IsPort(j)) => IsPort(i)
      /\ \A p \in 0..(Len(ports) - 1) :
           plugin.ports[p + 1].class = "control" =>
             \E i \in DOMAIN controls : IsPort(i) /\ controls[i].id = p
      /\ phase \notin {"ports", "failed"} /\ Len(ports) = Len(plugin.ports)
  BY <1>2 DEF MatchInv, PortsMatch
<1>10. ASSUME NEW i \in DOMAIN controls, ~IsPort(i)
       PROVE  /\ \E r \in plugin.properties :
                   /\ Recorded(r)' /\ controls[i].node = r.uri
                   /\ controls[i].writable = r.writable
                   /\ controls[i].readable <=> Marked(r)'
              /\ controls[i].node # q.uri
              /\ controls[i].id # 0 =>
                   controls[i].id \in 1..Size /\ symbols[controls[i].id] = controls[i].node
  <2>1. PICK r \in plugin.properties :
          /\ Recorded(r) /\ controls[i].node = r.uri
          /\ controls[i].writable = r.writable
          /\ controls[i].readable <=> Marked(r)
    BY <1>10 DEF MatchInv, RecordsMatch
  <2>2. r # q
    BY <1>7, <2>1
  <2>3. r.uri # q.uri
    BY <1>2, <2>2, UrisApart
  <2>4. /\ Recorded(r)'
        /\ controls[i].readable <=> Marked(r)'
    BY <1>6, <2>1, <2>2
  <2>5. controls[i].id # 0 =>
          controls[i].id \in 1..Size /\ symbols[controls[i].id] = controls[i].node
    BY <1>10 DEF MatchInv, RecordsMatch
  <2> QED
    BY <1>6, <2>1, <2>2, <2>3, <2>4, <2>5
<1>11. ASSUME NEW r \in plugin.properties, r # q, Recorded(r)'
       PROVE  \E i \in DOMAIN controls : ~IsPort(i) /\ controls[i].node = r.uri
  BY <1>6, <1>11 DEF MatchInv, RecordsMatch
<1>12. \A i, j \in DOMAIN controls :
         (~IsPort(i) /\ ~IsPort(j) /\ controls[i].node = controls[j].node) => i = j
  BY DEF MatchInv, RecordsMatch
<1>13. Size' = Size
  BY <1>1 DEF Size
<1>14. CASE q.range = "none"
  <2>1. UNCHANGED controls
    BY <1>1, <1>14
  <2>2. PortsMatch'
    BY <1>1, <1>9, <2>1 DEF PortsMatch, IsPort
  <2>3. \A r \in plugin.properties : Recorded(r)' => r # q
    BY <1>8, <1>14
  <2>5. \A r \in plugin.properties : Recorded(r)' =>
          \E i \in DOMAIN controls : ~IsPort(i) /\ controls[i].node = r.uri
    BY <1>11, <2>3
  <2>6. \A i \in DOMAIN controls : ~IsPort(i) =>
          /\ \E r \in plugin.properties :
               /\ Recorded(r)' /\ controls[i].node = r.uri
               /\ controls[i].writable = r.writable
               /\ controls[i].readable <=> Marked(r)'
          /\ controls[i].id # 0 =>
               controls[i].id \in 1..Size /\ symbols[controls[i].id] = controls[i].node
    BY <1>10
  <2>7. UNCHANGED <<symbols, plugin, controls>>
    BY <1>1, <2>1
  <2>8. \A i : IsPort(i)' <=> IsPort(i)
    BY <2>1 DEF IsPort
  <2>9. \A r \in plugin.properties' : Recorded(r)' =>
          \E i \in DOMAIN controls' : ~IsPort(i)' /\ controls'[i].node = r.uri
    BY <2>5, <2>7, <2>8
  <2>10. ASSUME NEW i \in DOMAIN controls', ~IsPort(i)'
         PROVE  /\ \E r \in plugin.properties' :
                     /\ Recorded(r)' /\ controls'[i].node = r.uri
                     /\ controls'[i].writable = r.writable
                     /\ controls'[i].readable <=> Marked(r)'
                /\ controls'[i].id # 0 =>
                     controls'[i].id \in 1..Size' /\ symbols'[controls'[i].id] = controls'[i].node
    <3>1. i \in DOMAIN controls /\ ~IsPort(i)
      BY <2>1, <2>8, <2>10
    <3>2. PICK r \in plugin.properties :
            /\ Recorded(r)' /\ controls[i].node = r.uri
            /\ controls[i].writable = r.writable
            /\ controls[i].readable <=> Marked(r)'
      BY <2>6, <3>1
    <3>3. controls[i].id # 0 =>
            controls[i].id \in 1..Size /\ symbols[controls[i].id] = controls[i].node
      BY <2>6, <3>1
    <3>4. controls'[i] = controls[i] /\ r \in plugin.properties'
      BY <2>7
    <3>5. controls'[i].id # 0 =>
            controls'[i].id \in 1..Size' /\ symbols'[controls'[i].id] = controls'[i].node
      BY <1>13, <2>7, <3>3
    <3> QED
      BY <3>2, <3>4, <3>5
  <2>11. \A i, j \in DOMAIN controls' :
           (~IsPort(i)' /\ ~IsPort(j)' /\ controls'[i].node = controls'[j].node) => i = j
    BY <1>12, <2>7, <2>8
  <2>4. RecordsMatch'
    BY <2>9, <2>10, <2>11 DEF RecordsMatch
  <2> QED
    BY <1>4, <2>2, <2>4 DEF MatchInv
<1>15. CASE q.range # "none"
  <2>1. SUFFICES ASSUME NEW e, e = d PROVE MatchInv'
    OBVIOUS
  <2>2. e = Flagged(PropertyControl(q, id), writable, readable)
    BY <2>1 DEF d, Flagged
  <2>3. /\ e \in ControlRecord /\ e.kind = "property" /\ e.node = q.uri /\ e.id = id
        /\ e.writable = writable /\ e.readable = readable
    <3>1. q \in PropertyData /\ id \in Int
      BY <1>2, <1>3
    <3> QED
      BY <1>15, <2>2, <3>1, PropertyControlIs
  <2>4. controls' = Append(controls, e)
    BY <1>1, <1>15, <2>1
  <2> DEFINE last == Len(controls) + 1
  <2>5. /\ DOMAIN controls' = DOMAIN controls \union {last} /\ controls'[last] = e
        /\ \A i \in DOMAIN controls : i \in Int /\ i < last /\ controls'[i] = controls[i]
        /\ last \in Int
    BY <1>3, <2>3, <2>4
  <2> HIDE DEF last
  <2>6. \A i \in DOMAIN controls' :
          \/ i \in DOMAIN controls /\ controls'[i] = controls[i] /\ (IsPort(i)' <=> IsPort(i))
          \/ i = last /\ controls'[i] = e /\ ~IsPort(i)'
    BY <2>3, <2>5 DEF IsPort
  <2>7. PortsMatch'
    <3>1. ASSUME NEW i \in DOMAIN controls', NEW j \in DOMAIN controls', i < j, IsPort(j)'
          PROVE  IsPort(i)'
      <4>1. j \in DOMAIN controls /\ IsPort(j)
        BY <2>6, <3>1
      <4>2. i # last
        BY <2>5, <3>1, <4>1
      <4> QED
        BY <1>9, <2>6, <3>1, <4>1, <4>2
    <3>2. \A p \in 0..(Len(ports) - 1) :
            plugin.ports[p + 1].class = "control" =>
              \E i \in DOMAIN controls' : IsPort(i)' /\ controls'[i].id = p
      BY <1>9, <2>5 DEF IsPort
    <3> QED
      BY <1>1, <1>9, <3>1, <3>2 DEF PortsMatch
  <2>8. Recorded(q)' /\ (q.writable <=> writable) /\ (Marked(q)' <=> readable)
    BY <1>0, <1>1, <1>2, <1>5, <1>8, <1>15 DEF Marked
  <2>9. q.writable \in BOOLEAN
    BY <1>2 DEF PropertyData
  <2>10. ASSUME NEW i \in DOMAIN controls', ~IsPort(i)'
         PROVE  /\ \E r \in plugin.properties :
                     /\ Recorded(r)' /\ controls'[i].node = r.uri
                     /\ controls'[i].writable = r.writable
                     /\ controls'[i].readable <=> Marked(r)'
                /\ controls'[i].id # 0 =>
                     controls'[i].id \in 1..Size /\ symbols[controls'[i].id] = controls'[i].node
    <3>1. CASE i = last
      <4>1. controls'[i] = e
        BY <2>5, <3>1
      <4>2. /\ Recorded(q)' /\ controls'[i].node = q.uri /\ controls'[i].writable = q.writable
            /\ controls'[i].readable <=> Marked(q)'
        BY <2>3, <2>8, <2>9, <4>1
      <4> QED
        BY <1>2, <1>3, <2>3, <4>1, <4>2
    <3>2. CASE i # last
      BY <1>10, <2>6, <2>10, <3>2
    <3> QED
      BY <3>1, <3>2
  <2>11. ASSUME NEW r \in plugin.properties, Recorded(r)'
         PROVE  \E i \in DOMAIN controls' : ~IsPort(i)' /\ controls'[i].node = r.uri
    <3>1. CASE r = q
      <4>1. last \in DOMAIN controls' /\ controls'[last] = e
        BY <2>5
      <4>2. controls'[last].kind # "port" /\ controls'[last].node = r.uri
        BY <2>3, <3>1, <4>1
      <4> QED
        BY <4>1, <4>2 DEF IsPort
    <3>2. CASE r # q
      BY <1>11, <2>5, <2>11, <3>2 DEF IsPort
    <3> QED
      BY <3>1, <3>2
  <2>12. ASSUME NEW i \in DOMAIN controls', NEW j \in DOMAIN controls',
                ~IsPort(i)', ~IsPort(j)', controls'[i].node = controls'[j].node
         PROVE  i = j
    <3>1. CASE i # last /\ j # last
      BY <1>12, <2>6, <2>12, <3>1
    <3>a. \A k \in DOMAIN controls' :
            /\ k = last => controls'[k].node = q.uri
            /\ k # last /\ ~IsPort(k)' => controls'[k].node # q.uri
      <4>1. ASSUME NEW k \in DOMAIN controls', k # last, ~IsPort(k)'
            PROVE  controls'[k].node # q.uri
        <5>1. k \in DOMAIN controls /\ ~IsPort(k) /\ controls'[k] = controls[k]
          BY <2>6, <4>1
        <5>2. controls[k].node # q.uri
          BY <1>10, <5>1
        <5> QED
          BY <5>1, <5>2
      <4> QED
        BY <2>3, <2>5, <4>1
    <3>2. CASE i = last /\ j # last
      BY <2>12, <3>2, <3>a
    <3>3. CASE i # last /\ j = last
      BY <2>12, <3>3, <3>a
    <3> QED
      BY <3>1, <3>2, <3>3
  <2>13. RecordsMatch'
    BY <1>1, <1>13, <2>10, <2>11, <2>12 DEF RecordsMatch
  <2> QED
    BY <1>4, <2>7, <2>13 DEF MatchInv
<1> QED
  BY <1>14, <1>15

\* The rest of jalv_open: no control is made and none is taken away.
LEMMA MatchOpens ==
  ASSUME PanelInv, PanelInv', SymapInv, SyncInv, MatchInv,
         OpenState \/ ControlArgument \/ OpenWindow
  PROVE  MatchInv'
<1>1. /\ UNCHANGED <<plugin, left, making, ports, symapVars>>
      /\ {phase, phase'} \subseteq LaterPhases
  BY DEF OpenState, ControlArgument, OpenWindow, At, LaterPhases
<1>2. UNCHANGED <<symbols, call>>
  BY <1>1 DEF symapVars
<1>3. /\ DOMAIN controls' = DOMAIN controls
      /\ \A i \in DOMAIN controls : Alike(controls[i], controls'[i])
  <2>1. CASE OpenState \/ ControlArgument
    BY <2>1, SyncOpenState, SyncArgument DEF Remade
  <2>2. CASE OpenWindow
    <3>1. controls' = [i \in DOMAIN controls |-> WindowHandled[i].control]
      BY <2>2, OpenWindowIs
    <3>2. \A i \in DOMAIN controls : Alike(controls[i], WindowHandled[i].control)
      BY WindowControlsOK DEF PanelInv, PanelTyped
    <3> QED
      BY <3>1, <3>2
  <2> QED
    BY <2>1, <2>2
<1>4. \A id \in 1..Size : id \in 1..Size' /\ symbols'[id] = symbols[id]
  BY <1>2 DEF Size
<1>5. making # NoProperty => call'.step # "idle" /\ call'.sym = call.sym
  BY <1>2 DEF MatchInv, LoopsMatch
<1> QED
  BY <1>1, <1>3, <1>4, <1>5, MatchKept

\* The running program maps nothing and finds nothing.
LEMMA RunningIs ==
  ASSUME User \/ Command \/ Update \/ Process \/ Output
  PROVE  UNCHANGED <<opening, symapVars>>
<1>1. CASE User
  <2>1. CASE UserMoves \/ UserTurnsDial \/ UserTypes \/ RequestValue \/ PluginUiWrites
    BY <2>1 DEF UserMoves, UserTurnsDial, UserTypes, RequestValue, PluginUiWrites
  <2>2. CASE LoadPreset
    BY <2>2 DEF LoadPreset
  <2>3. CASE SavePreset
    BY <2>3 DEF SavePreset
  <2>4. CASE SavePresetAs
    BY <2>4 DEF SavePresetAs
  <2>5. CASE DeletePreset
    BY <2>5 DEF DeletePreset
  <2> QED
    BY <1>1, <2>1, <2>2, <2>3, <2>4, <2>5 DEF User
<1>2. CASE Command
  <2>1. CASE ConsoleSets \/ ConsoleSetsIndex \/ ConsoleSetsText
    BY <2>1 DEF ConsoleSets, ConsoleSetsIndex, ConsoleSetsText, SetFromString
  <2>2. CASE ConsolePreset
    BY <2>2 DEF ConsolePreset
  <2> QED
    BY <1>2, <2>1, <2>2 DEF Command
<1>3. CASE Update
  BY <1>3 DEF Update, PortEvent, PropertyEvent, ValuelessSet
<1>4. CASE Process \/ Output
  BY <1>4 DEF Process, Output
<1> QED
  BY <1>1, <1>2, <1>3, <1>4

LEMMA MatchInit == Init => MatchInv
<1> SUFFICES ASSUME Init PROVE MatchInv
  OBVIOUS
<1>1. /\ controls = <<>> /\ ports = <<>> /\ phase = "ports" /\ left = {}
      /\ making = NoProperty
  BY DEF Init
<1>2. PortsMatch
  BY <1>1 DEF PortsMatch
<1>3. LoopsMatch
  BY <1>1 DEF LoopsMatch
<1>4. RecordsMatch
  <2>1. DOMAIN controls = {}
    BY <1>1
  <2>2. \A q : ~Recorded(q)
    BY <1>1 DEF Recorded
  <2> QED
    BY <2>1, <2>2 DEF RecordsMatch
<1> QED
  BY <1>2, <1>3, <1>4 DEF MatchInv

LEMMA MatchStep ==
  PanelInv /\ PanelInv' /\ SymapInv /\ SyncInv /\ MatchInv /\ [Next]_vars => MatchInv'
<1> SUFFICES ASSUME PanelInv, PanelInv', SymapInv, SyncInv, MatchInv, [Next]_vars
             PROVE  MatchInv'
  OBVIOUS
<1>1. CASE UNCHANGED vars
  <2>1. UNCHANGED <<opening, symapVars, controls>>
    BY <1>1 DEF vars, widgets
  <2> QED
    BY <2>1, RemadeNone, MatchRunning
<1>2. CASE Opening
  BY <1>2, MatchCreate, MatchLoop, MatchMark, MatchMake, MatchMaps, MatchAdd, MatchOpens
     DEF Opening
<1>3. CASE User
  <2>1. Remade
    BY <1>3, SyncMoves, SyncForeign, SyncTypes, SyncLoad, SyncPresets DEF User
  <2> QED
    BY <1>3, <2>1, RunningIs, MatchRunning
<1>4. CASE Command
  <2>1. Remade
    BY <1>4, SyncCommands, SyncTypes, SyncLoad DEF Command
  <2> QED
    BY <1>4, <2>1, RunningIs, MatchRunning
<1>5. CASE Update
  <2>1. Remade
    BY <1>5, SyncPortEvent, SyncPropertyEvent, SyncPresets DEF Update
  <2> QED
    BY <1>5, <2>1, RunningIs, MatchRunning
<1>6. CASE Process \/ Output
  <2>1. Remade
    BY <1>6, SyncProcess, SyncOutput
  <2> QED
    BY <1>6, <2>1, RunningIs, MatchRunning
<1> QED
  BY <1>1, <1>2, <1>3, <1>4, <1>5, <1>6 DEF Next


\* What is in a one-to-one relation with a finite set has as many elements.
LEMMA Tally ==
  ASSUME NEW S, IsFiniteSet(S), NEW T, NEW f \in [S -> T],
         \A i, j \in S : f[i] = f[j] => i = j,
         \A t \in T : \E i \in S : f[i] = t
  PROVE  Cardinality(T) = Cardinality(S)
<1>1. f \in Bijection(S, T)
  BY DEF Bijection, Injection, Surjection, IsInjective
<1> QED
  BY <1>1, FS_Bijection DEF ExistsBijection

Classed == {p \in DOMAIN buf : plugin.ports[p + 1].class = "control"}
KnownOnes == {q \in plugin.properties : (q.writable \/ q.readable) /\ q.range # "none"}
PortRows == {i \in DOMAIN controls : IsPort(i)}
PropertyRows == {i \in DOMAIN controls : ~IsPort(i)}

\* Once the loops are done, what has a record is what is writable or readable.
LEMMA MadeIs ==
  ASSUME PanelInv, MatchInv, Made
  PROVE  /\ phase \notin {"ports", "failed", "writable", "readable"}
         /\ \A q : ~Waits(q)
         /\ \A q \in plugin.properties : Recorded(q) <=> q \in KnownOnes
         /\ \A q \in plugin.properties : Marked(q) <=> q.readable
         /\ DOMAIN buf = 0..(Len(ports) - 1)
<1>1. phase \notin {"ports", "failed", "writable", "readable"}
  BY DEF Made
<1>2. \A q : ~Waits(q)
  BY <1>1 DEF MatchInv, LoopsMatch, Waits
<1>3. \A q \in plugin.properties : Recorded(q) <=> q \in KnownOnes
  BY <1>1, <1>2 DEF Recorded, KnownOnes
<1>4. \A q \in plugin.properties : Marked(q) <=> q.readable
  BY <1>1, <1>2 DEF Marked
<1>5. Len(ports) = Len(plugin.ports)
  BY <1>1 DEF MatchInv, PortsMatch
<1>6. DOMAIN buf = 0..(Len(ports) - 1)
  BY <1>5 DEF PanelInv, PanelTyped, RingsTyped, PortIds
<1> QED
  BY <1>1, <1>2, <1>3, <1>4, <1>6

LEMMA PortIdsAreClassed ==
  ASSUME PanelInv, MatchInv, Made
  PROVE  /\ \A i \in PortRows : controls[i].id \in Classed
         /\ \A p \in Classed : \E i \in PortRows : controls[i].id = p
<1>1. DOMAIN buf = 0..(Len(ports) - 1)
  BY MadeIs
<1>2. ASSUME NEW i \in PortRows PROVE controls[i].id \in Classed
  <2>1. OfPort(controls[i])
    BY DEF PortRows, IsPort, PanelInv, PanelTyped, ControlsTyped
  <2> QED
    BY <1>1, <2>1 DEF OfPort, Classed
<1>3. ASSUME NEW p \in Classed PROVE \E i \in PortRows : controls[i].id = p
  BY <1>1 DEF Classed, PortRows, MatchInv, PortsMatch
<1> QED
  BY <1>2, <1>3

LEMMA PortsCounted ==
  ASSUME PanelInv, SyncInv, MatchInv, Made
  PROVE  /\ IsFiniteSet(PortRows)
         /\ Cardinality(Classed) = Cardinality(PortRows)
<1>1. IsFiniteSet(PortRows)
  BY PointersFinite, FS_Subset DEF PortRows, PanelInv, PanelTyped
<1>2. ASSUME NEW i \in PortRows, NEW j \in PortRows, controls[i].id = controls[j].id
      PROVE  i = j
  <2>1. i \in Nat /\ j \in Nat
    BY PointersFinite DEF PortRows, PanelInv, PanelTyped
  <2>2. controls[i].id \in Int
    BY DEF PortRows, IsPort, PanelInv, PanelTyped, ControlsTyped, OfPort
  <2>3. /\ i < j => controls[i].id < controls[j].id
        /\ j < i => controls[j].id < controls[i].id
    BY DEF PortRows, SyncInv, PortsApart
  <2> QED
    BY <1>2, <2>1, <2>2, <2>3
<1> DEFINE f == [i \in PortRows |-> controls[i].id]
<1>3. f \in [PortRows -> Classed]
  BY PortIdsAreClassed
<1>4. \A i, j \in PortRows : f[i] = f[j] => i = j
  BY <1>2
<1>5. \A p \in Classed : \E i \in PortRows : f[i] = p
  BY PortIdsAreClassed
<1> HIDE DEF f
<1>6. Cardinality(Classed) = Cardinality(PortRows)
  BY <1>1, <1>3, <1>4, <1>5, Tally
<1> QED
  BY <1>1, <1>6

LEMMA PropertiesCounted ==
  ASSUME PanelInv, MatchInv, Made
  PROVE  /\ IsFiniteSet(PropertyRows)
         /\ Cardinality(KnownOnes) = Cardinality(PropertyRows)
<1>1. IsFiniteSet(PropertyRows)
  BY PointersFinite, FS_Subset DEF PropertyRows, PanelInv, PanelTyped
<1> DEFINE q(i) == CHOOSE r \in KnownOnes : r.uri = controls[i].node
           f == [i \in PropertyRows |-> q(i)]
<1>2. ASSUME NEW i \in PropertyRows
      PROVE  q(i) \in KnownOnes /\ q(i).uri = controls[i].node
  <2>1. \E r \in KnownOnes : r.uri = controls[i].node
    BY MadeIs DEF PropertyRows, MatchInv, RecordsMatch
  <2> QED
    BY <2>1
<1>3. f \in [PropertyRows -> KnownOnes]
  BY <1>2
<1>4. ASSUME NEW i \in PropertyRows, NEW j \in PropertyRows, f[i] = f[j]
      PROVE  i = j
  <2>1. controls[i].node = controls[j].node
    BY <1>2, <1>4
  <2> QED
    BY <2>1 DEF PropertyRows, MatchInv, RecordsMatch
<1>5. ASSUME NEW r \in KnownOnes
      PROVE  \E i \in PropertyRows : f[i] = r
  <2>1. r \in plugin.properties
    BY DEF KnownOnes
  <2>2. PICK i \in PropertyRows : controls[i].node = r.uri
    BY <2>1, MadeIs DEF PropertyRows, MatchInv, RecordsMatch
  <2>3. q(i) \in plugin.properties /\ q(i).uri = r.uri
    BY <1>2, <2>2 DEF KnownOnes
  <2>4. q(i) = r
    BY <2>1, <2>3, UrisApart
  <2> QED
    BY <2>2, <2>4
<1> HIDE DEF f
<1>6. Cardinality(KnownOnes) = Cardinality(PropertyRows)
  BY <1>1, <1>3, <1>4, <1>5, Tally
<1> QED
  BY <1>1, <1>6

LEMMA RowsCounted ==
  ASSUME PanelInv, SyncInv, MatchInv, Made
  PROVE  Len(controls) = Cardinality(Classed) + Cardinality(KnownOnes)
<1>1. DOMAIN controls = 1..Len(controls) /\ Len(controls) \in Nat
  BY PointersFinite DEF PanelInv, PanelTyped
<1>2. /\ PortRows \union PropertyRows = DOMAIN controls
      /\ PortRows \cap PropertyRows = {}
  BY DEF PortRows, PropertyRows
<1>3. Cardinality(DOMAIN controls) = Len(controls)
  <2>1. Cardinality(1..Len(controls)) =
          IF 1 > Len(controls) THEN 0 ELSE Len(controls) - 1 + 1
    BY <1>1, FS_Interval
  <2>2. (IF 1 > Len(controls) THEN 0 ELSE Len(controls) - 1 + 1) = Len(controls)
    BY <1>1
  <2> QED
    BY <1>1, <2>1, <2>2
<1>4. /\ IsFiniteSet(PortRows) /\ IsFiniteSet(PropertyRows)
      /\ Cardinality(Classed) = Cardinality(PortRows)
      /\ Cardinality(KnownOnes) = Cardinality(PropertyRows)
  BY PortsCounted, PropertiesCounted
<1>5. /\ Cardinality(DOMAIN controls) =
           Cardinality(PortRows) + Cardinality(PropertyRows) - Cardinality(PortRows \cap PropertyRows)
  BY <1>2, <1>4, FS_Union
<1>6. Cardinality(PortRows \cap PropertyRows) = 0
  <2>1. Cardinality({}) = 0
    BY FS_EmptySet
  <2> QED
    BY <1>2, <2>1
<1>7. Cardinality(PortRows) \in Nat /\ Cardinality(PropertyRows) \in Nat
  BY <1>4, FS_CardinalityType
<1> QED
  BY <1>3, <1>4, <1>5, <1>6, <1>7

\* The record of a property, which its ID finds.
LEMMA RecordOf ==
  ASSUME PanelInv, MatchInv, Made, NEW q \in KnownOnes
  PROVE  \E i \in DOMAIN controls :
           /\ controls[i].kind = "property" /\ controls[i].node = q.uri
           /\ controls[i].writable = q.writable
           /\ controls[i].readable = q.readable
           /\ controls[i].id # 0 =>
                /\ symbols[controls[i].id] = q.uri
                /\ ControlsOf(controls[i].id) = {i}
<1>1. q \in plugin.properties /\ Recorded(q)
  BY MadeIs DEF KnownOnes
<1>2. PICK i \in DOMAIN controls : ~IsPort(i) /\ controls[i].node = q.uri
  BY <1>1 DEF MatchInv, RecordsMatch
<1>3. PICK r \in plugin.properties :
        /\ controls[i].node = r.uri /\ controls[i].writable = r.writable
        /\ controls[i].readable <=> Marked(r)
  BY <1>2 DEF MatchInv, RecordsMatch
<1>4. r = q
  BY <1>1, <1>2, <1>3, UrisApart
<1>5. controls[i] \in ControlRecord /\ q \in PropertyData
  BY <1>1, PluginIs DEF PanelInv, PanelTyped, OpeningTyped, ControlsTyped
<1>6. controls[i].kind = "property"
  BY <1>2, <1>5 DEF IsPort, ControlRecord
<1>7. controls[i].readable = q.readable
  <2>1. controls[i].readable \in BOOLEAN /\ q.readable \in BOOLEAN
    BY <1>5 DEF ControlRecord, PropertyData
  <2>2. controls[i].readable <=> q.readable
    BY <1>1, <1>3, <1>4, MadeIs
  <2> QED
    BY <2>1, <2>2
<1>8. ASSUME NEW j \in DOMAIN controls, ~IsPort(j), controls[j].id # 0
      PROVE  symbols[controls[j].id] = controls[j].node
  BY <1>8 DEF MatchInv, RecordsMatch
<1>9. ASSUME controls[i].id # 0
      PROVE  /\ symbols[controls[i].id] = q.uri
             /\ ControlsOf(controls[i].id) = {i}
  <2>1. symbols[controls[i].id] = q.uri
    BY <1>2, <1>8, <1>9
  <2>2. ASSUME NEW j \in DOMAIN controls, ~IsPort(j), controls[j].id = controls[i].id
        PROVE  j = i
    <3>1. controls[j].node = controls[i].node
      BY <1>2, <1>8, <1>9, <2>2
    <3> QED
      BY <1>2, <2>2, <3>1 DEF MatchInv, RecordsMatch
  <2>3. \A j \in 1..(i - 1) : j \in DOMAIN controls /\ j # i
    BY PointersFinite DEF PanelInv, PanelTyped
  <2>4. i \in ControlsOf(controls[i].id)
    BY <1>6, <2>2, <2>3 DEF ControlsOf, IsPort
  <2>5. \A j \in ControlsOf(controls[i].id) : j = i
    BY <2>2 DEF ControlsOf, IsPort
  <2> QED
    BY <2>1, <2>4, <2>5
<1> QED
  BY <1>2, <1>3, <1>4, <1>6, <1>7, <1>9

LEMMA MatchSaysAll == PanelInv /\ SyncInv /\ MatchInv => ControlsMatch
<1> SUFFICES ASSUME PanelInv, SyncInv, MatchInv, Made PROVE ControlsMatch
  BY DEF ControlsMatch
<1>1. {controls[i].id : i \in PortRows} = Classed
  BY PortIdsAreClassed
<1>2. ASSUME NEW i \in DOMAIN controls, NEW j \in DOMAIN controls, i < j, IsPort(j)
      PROVE  IsPort(i) /\ controls[i].id < controls[j].id
  <2>1. IsPort(i)
    BY <1>2 DEF MatchInv, PortsMatch
  <2> QED
    BY <1>2, <2>1 DEF SyncInv, PortsApart
<1>3. Len(controls) = Cardinality(Classed) + Cardinality(KnownOnes)
  BY RowsCounted
<1>4. \A q \in KnownOnes : \E i \in DOMAIN controls :
        /\ controls[i].kind = "property" /\ controls[i].node = q.uri
        /\ controls[i].writable = q.writable
        /\ controls[i].readable = q.readable
        /\ controls[i].id # 0 =>
             /\ symbols[controls[i].id] = q.uri
             /\ ControlsOf(controls[i].id) = {i}
  BY RecordOf
<1> QED
  BY <1>1, <1>2, <1>3, <1>4 DEF ControlsMatch, Classed, KnownOnes, PortRows, IsPort

\* The records of every plugin, whatever ports and properties it has and in
\* whatever order jalv meets them: a record for each control port, in order and
\* first, and one for each property that is writable or readable, found by its
\* ID.
THEOREM RecordsMatchPlugin == Spec => []ControlsMatch
<1>1. Spec => []SymapInv
  BY ImplementsSymap, SymapCorrect, PTL
<1>2. Spec => []SyncInv
  BY <1>1, PanelStaysTyped, SyncInit, SyncStep, PTL DEF Spec
<1>3. Spec => []MatchInv
  BY <1>1, <1>2, PanelStaysTyped, MatchInit, MatchStep, PTL DEF Spec
<1> QED
  BY <1>2, <1>3, PanelStaysTyped, MatchSaysAll, PTL

-----------------------------------------------------------------------------
(* What the user writes.                                                   *)

\* A scale that is moved sets the value of its position.
LEMMA ScaleSends ==
  ASSUME NEW c \in ControlRecord, NEW position,
         MoveScale(Quiet(c), position).sent # <<>>
  PROVE  LastOf(MoveScale(Quiet(c), position).sent) = ValueAt(c.look, position)
<1> DEFINE s == Quiet(c)
           moved == [s EXCEPT !.control.scale = position]
           v == ValueAt(c.look, position)
<1>1. s.control = c /\ s.sent = <<>> /\ s = [control |-> c, sent |-> <<>>]
  BY DEF Quiet
<1>2. moved.sent = <<>>
  BY <1>1
<1>3. MoveScale(s, position) = SetNumber(moved, v)
  BY <1>1, <1>2 DEF MoveScale
<1>4. SetNumber(moved, v).sent = Append(moved.sent, v)
  BY DEF SetNumber
<1>5. Append(<<>>, v) = <<v>> /\ Len(<<v>>) = 1 /\ <<v>>[1] = v
  OBVIOUS
<1> QED
  BY <1>2, <1>3, <1>4, <1>5 DEF LastOf

\* A spin button that is turned to a mark moves the scale there.
LEMMA SpinSends ==
  ASSUME NEW c \in ControlRecord, HasSpin(c.look), NEW v \in Marks,
         TurnSpin(Quiet(c), v).sent # <<>>
  PROVE  LastOf(TurnSpin(Quiet(c), v).sent) = v
<1> DEFINE d == [c EXCEPT !.spin = v]
           position == PositionOf(c.look, v)
<1>1. d \in ControlRecord /\ d.look = c.look
  BY ValuesAre DEF ControlRecord
<1>2. [Quiet(c) EXCEPT !.control.spin = v] = Quiet(d) /\ Quiet(d).sent = <<>>
      /\ Quiet(c).control = c
  BY DEF Quiet
<1> HIDE DEF d
<1>3. TurnSpin(Quiet(c), v) = MoveScale(Quiet(d), position)
  BY <1>2 DEF TurnSpin
<1>4. LastOf(MoveScale(Quiet(d), position).sent) = ValueAt(c.look, position)
  BY <1>1, <1>3, ScaleSends
<1> QED
  BY <1>3, <1>4, PlaceOfMark

\* What a user does with a scale, a slider or a box writes a value in the range.
LEMMA MovesInRange ==
  ASSUME NEW c \in ControlRecord, c.look \notin {"spinner", "switch"},
         NEW inputs, NEW r \in Moves(c, inputs), r.sent # <<>>
  PROVE  LastOf(r.sent) \in Lowest..Highest
<1>1. Marks \subseteq Lowest..Highest /\ Points \subseteq Lowest..Highest
  BY DEF Marks, Points, Lowest, Highest
<1>2. CASE c.look = "combo"
  <2>1. Moves(c, inputs) = {MoveScale(Quiet(c), p) : p \in Points}
    <3>1. ~HasSpin(c.look)
      BY <1>2 DEF HasSpin
    <3> QED
      BY <1>2, <3>1, Zenon DEF Moves
  <2>2. PICK p \in Points : r = MoveScale(Quiet(c), p)
    BY <2>1
  <2>3. LastOf(r.sent) = ValueAt(c.look, p)
    BY <2>2, ScaleSends
  <2> QED
    BY <1>1, <1>2, <2>3 DEF ValueAt
<1>3. CASE HasSpin(c.look)
  <2>1. Moves(c, inputs) = {MoveScale(Quiet(c), p) : p \in Positions(c.look)}
                             \union {TurnSpin(Quiet(c), v) : v \in Marks}
    <3>1. c.look \notin {"switch", "combo", "spinner"}
      BY <1>3 DEF HasSpin
    <3> QED
      BY <1>3, <3>1, Zenon DEF Moves
  <2>2. CASE \E p \in Positions(c.look) : r = MoveScale(Quiet(c), p)
    <3>1. PICK p \in Positions(c.look) : r = MoveScale(Quiet(c), p)
      BY <2>2
    <3>2. LastOf(r.sent) = ValueAt(c.look, p)
      BY <3>1, ScaleSends
    <3>3. ValueAt(c.look, p) \in Marks
      BY <1>3, PlaceOfMark
    <3> QED
      BY <1>1, <3>2, <3>3
  <2>3. CASE \E v \in Marks : r = TurnSpin(Quiet(c), v)
    <3>1. PICK v \in Marks : r = TurnSpin(Quiet(c), v)
      BY <2>3
    <3>2. LastOf(r.sent) = v
      BY <1>3, <3>1, SpinSends
    <3> QED
      BY <1>1, <3>2
  <2> QED
    BY <2>1, <2>2, <2>3
<1>4. CASE c.look = "text"
  <2>1. ~HasSpin(c.look)
    BY <1>4 DEF HasSpin
  <2>2. Moves(c, inputs) = {}
    BY <1>4, <2>1, Zenon DEF Moves
  <2> QED
    BY <2>2
<1> QED
  BY <1>2, <1>3, <1>4 DEF ControlRecord, Looks, HasSpin

\* A dial writes a value in the range, but for the last of a logarithmic one.
LEMMA DialInRange ==
  ASSUME NEW look, look # "switch", NEW d \in DialPositions(look)
  PROVE  DialValue(look, d) \in Lowest..Highest \/ (look = "log" /\ d = Steps)
<1>1. CASE look = "log"
  <2>1. d \in 1..3
    BY <1>1, Zenon DEF DialPositions, Steps
  <2>2. DialValue(look, d) = 2 ^ d
    BY <1>1, Zenon DEF DialValue
  <2>3. 2 ^ 1 = 2 /\ 2 ^ 2 = 4
    OBVIOUS
  <2>4. d = 1 \/ d = 2 \/ d = 3
    BY <2>1
  <2>5. CASE d = 3
    BY <1>1, <2>5 DEF Steps
  <2>6. CASE d \in {1, 2}
    <3>1. DialValue(look, d) = 2 \/ DialValue(look, d) = 4
      BY <2>2, <2>3, <2>6
    <3> QED
      BY <3>1 DEF Lowest, Highest
  <2> QED
    BY <2>4, <2>5, <2>6
<1>2. CASE look = "combo"
  <2>1. DialValue(look, d) = IF d = 0 THEN Lowest ELSE Highest
    BY <1>2, Zenon DEF DialValue
  <2> QED
    BY <2>1 DEF Lowest, Highest
<1>3. CASE look \notin {"log", "combo"}
  <2>1. DialValue(look, d) = d
    BY <1>3, Zenon DEF DialValue
  <2>2. DialPositions(look) = Marks
    BY <1>3, Zenon DEF DialPositions
  <2> QED
    BY <2>1, <2>2 DEF Marks, Lowest, Highest
<1> QED
  BY <1>1, <1>2, <1>3

\* A value put over others leaves them as they are.
LEMMA OverElsewhere ==
  ASSUME NEW one, NEW g
  PROVE  \A p \in DOMAIN Over(one, g) :
           p \notin DOMAIN one => p \in DOMAIN g /\ Over(one, g)[p] = g[p]
<1>1. DOMAIN Over(one, g) = DOMAIN one \union DOMAIN g
  BY OverIs
<1> SUFFICES ASSUME NEW p \in DOMAIN Over(one, g), p \notin DOMAIN one
             PROVE  p \in DOMAIN g /\ Over(one, g)[p] = g[p]
  BY Zenon
<1>2. p \in DOMAIN g /\ p \in DOMAIN one \union DOMAIN g
  BY <1>1
<1> QED
  BY <1>2 DEF Over

\* What UserMoves writes is in the range.
LEMMA MovesMeant ==
  ASSUME PanelInv, UserMoves, NEW p \in DOMAIN pending'
  PROVE  \/ p \in DOMAIN pending /\ pending'[p] = pending[p]
         \/ pending'[p] \in Lowest..Highest
         \/ plugin.ports[p + 1].look \in {"spinner", "switch"}
<1>1. PICK i \in DOMAIN controls : \E s \in Moves(controls[i], plugin.inputs) :
        Write(controls[i], s.sent)
  BY DEF UserMoves
<1>2. PICK s \in Moves(controls[i], plugin.inputs) : Write(controls[i], s.sent)
  BY <1>1
<1>3. controls[i] \in ControlRecord /\ (controls[i].kind = "port" => OfPort(controls[i]))
  BY DEF PanelInv, PanelTyped, ControlsTyped, ControlOK
<1>4. CASE controls[i].kind = "property" \/ s.sent = <<>>
  BY <1>2, <1>4 DEF Write
<1>5. CASE controls[i].kind # "property" /\ s.sent # <<>>
  <2> DEFINE one == [q \in {controls[i].id} |-> LastOf(s.sent)]
  <2>1. pending' = Over(one, pending)
    BY <1>2, <1>5 DEF Write, LastOf
  <2>2. DOMAIN one = {controls[i].id} /\ one[controls[i].id] = LastOf(s.sent)
    OBVIOUS
  <2>3. OfPort(controls[i])
    BY <1>3, <1>5 DEF ControlRecord
  <2> HIDE DEF one
  <2>4. CASE p = controls[i].id
    <3>1. pending'[p] = LastOf(s.sent)
      BY <2>1, <2>2, <2>4, OverIs
    <3>2. controls[i].look = plugin.ports[p + 1].look
      BY <2>3, <2>4 DEF OfPort
    <3>3. controls[i].look \notin {"spinner", "switch"} => LastOf(s.sent) \in Lowest..Highest
      BY <1>2, <1>3, <1>5, MovesInRange
    <3> QED
      BY <3>1, <3>2, <3>3
  <2>5. CASE p # controls[i].id
    <3>1. p \notin DOMAIN one /\ p \in DOMAIN Over(one, pending)
      BY <2>1, <2>2, <2>5
    <3>2. p \in DOMAIN pending /\ Over(one, pending)[p] = pending[p]
      BY <3>1, OverElsewhere
    <3>3. pending'[p] = pending[p]
      BY <2>1, <3>2
    <3> QED
      BY <3>2, <3>3
  <2> QED
    BY <2>4, <2>5
<1> QED
  BY <1>4, <1>5

\* So is what UserTurnsDial writes, but for the last position.
LEMMA DialsMeant ==
  ASSUME PanelInv, SyncInv, UserTurnsDial, NEW p \in DOMAIN pending'
  PROVE  \/ p \in DOMAIN pending /\ pending'[p] = pending[p]
         \/ pending'[p] \in Lowest..Highest
         \/ plugin.ports[p + 1].look \in {"spinner", "switch"}
         \/ /\ plugin.ports[p + 1].look = "log" /\ frontend = "qt"
            /\ dials'[p] = Steps
<1>1. PICK t \in DOMAIN dials :
        LET look == plugin.ports[t + 1].look
        IN \E d \in DialPositions(look) \ {dials[t]} :
             /\ dials' = [dials EXCEPT ![t] = d]
             /\ pending' = Over([q \in {t} |-> DialValue(look, d)], pending)
  BY DEF UserTurnsDial
<1> DEFINE look == plugin.ports[t + 1].look
<1>2. PICK d \in DialPositions(look) \ {dials[t]} :
        /\ dials' = [dials EXCEPT ![t] = d]
        /\ pending' = Over([q \in {t} |-> DialValue(look, d)], pending)
  BY <1>1
<1>3. dials # <<>>
  BY <1>1
<1>4. frontend = "qt" /\ dials'[t] = d
  BY <1>2, <1>3 DEF SyncInv, WidgetsOwn
<1> DEFINE one == [q \in {t} |-> DialValue(look, d)]
<1>5. DOMAIN one = {t} /\ one[t] = DialValue(look, d) /\ pending' = Over(one, pending)
  BY <1>2
<1> HIDE DEF one
<1>6. CASE p = t
  <2>1. pending'[p] = DialValue(look, d)
    BY <1>5, <1>6, OverIs
  <2>2. CASE look = "switch"
    BY <1>6, <2>2
  <2>3. CASE look # "switch"
    BY <1>4, <1>6, <2>1, <2>3, DialInRange
  <2> QED
    BY <2>2, <2>3
<1>7. CASE p # t
  <2>1. p \notin DOMAIN one /\ p \in DOMAIN Over(one, pending)
    BY <1>5, <1>7
  <2>2. p \in DOMAIN pending /\ Over(one, pending)[p] = pending[p]
    BY <2>1, OverElsewhere
  <2>3. pending'[p] = pending[p]
    BY <1>5, <2>2
  <2> QED
    BY <2>2, <2>3
<1> QED
  BY <1>6, <1>7

\* No update of the plugin's values comes back to the plugin, whatever widgets
\* move whatever others, and what the user does writes a value in the range,
\* for every plugin; the exceptions are the two that WritesMeant names.
THEOREM WritesAreMeant == Spec => WritesMeant
<1>1. Spec => []SymapInv
  BY ImplementsSymap, SymapCorrect, PTL
<1>2. Spec => []SyncInv
  BY <1>1, PanelStaysTyped, SyncInit, SyncStep, PTL DEF Spec
<1> DEFINE Meant ==
      /\ Update => pending' = pending
      /\ \A p \in DOMAIN pending' :
           \/ p \in DOMAIN pending /\ pending'[p] = pending[p]
           \/ ~(UserMoves \/ UserTurnsDial)
           \/ pending'[p] \in Lowest..Highest
           \/ plugin.ports[p + 1].look \in {"spinner", "switch"}
           \/ /\ plugin.ports[p + 1].look = "log" /\ frontend = "qt"
              /\ dials'[p] = Steps
<1>3. PanelInv /\ SyncInv => Meant
  <2>1. ASSUME Update PROVE pending' = pending
    <3>1. CASE PortEvent
      BY <3>1 DEF PortEvent, CutUpdate
    <3>2. CASE PropertyEvent
      BY <3>2 DEF PropertyEvent, rings
    <3>3. CASE ValuelessSet
      BY <3>3 DEF ValuelessSet, rings
    <3> QED
      BY <2>1, <3>1, <3>2, <3>3 DEF Update
  <2>2. PanelInv /\ UserMoves =>
          \A p \in DOMAIN pending' :
             \/ p \in DOMAIN pending /\ pending'[p] = pending[p]
             \/ pending'[p] \in Lowest..Highest
             \/ plugin.ports[p + 1].look \in {"spinner", "switch"}
    BY MovesMeant
  <2>3. PanelInv /\ SyncInv /\ UserTurnsDial =>
          \A p \in DOMAIN pending' :
             \/ p \in DOMAIN pending /\ pending'[p] = pending[p]
             \/ pending'[p] \in Lowest..Highest
             \/ plugin.ports[p + 1].look \in {"spinner", "switch"}
             \/ /\ plugin.ports[p + 1].look = "log" /\ frontend = "qt"
                /\ dials'[p] = Steps
    BY DialsMeant
  <2> QED
    BY <2>1, <2>2, <2>3
<1> HIDE DEF Meant
<1>4. Spec => [][Meant]_vars
  BY <1>2, <1>3, PanelStaysTyped, PTL
<1> QED
  BY <1>4 DEF WritesMeant, Meant
=============================================================================
