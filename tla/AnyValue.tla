------------------------------ MODULE AnyValue ------------------------------
(***************************************************************************)
(* The value of a control: a size, a type, and a word that holds either    *)
(* the bits of the value or a pointer to them.  A number is itself; of a   *)
(* text only its length is kept.                                           *)
(***************************************************************************)
EXTENDS Integers

Texts == {"String", "Path"}
Numbers == {"Float", "Int"}

\* Sizes in bytes, a text with its terminator.
SizeOf(type, body) == IF type \in Texts THEN body + 1 ELSE 4

\* A value with nothing in it.  The word is "zero", a "number", a "wide" one
\* with bits beyond the fourth byte, or a "pointer".
NoValue == [size |-> 0, type |-> "none", body |-> 0, word |-> "zero"]

IsLong(size) == size > 8

\* A mutant: the memory of a longer value is never released.
ResetNever(value, size) == value

\* What any_value_set begins with: the memory of a longer value is released,
\* unless the new one has exactly the size of a pointer.
ResetFor(value, size) ==
  IF IsLong(value.size) /\ size < 8 THEN NoValue ELSE value

\* The word is grown by realloc().
Grows(value, size) == IsLong(size) /\ size > value.size

\* What is grown is no pointer that malloc() has returned.
GrowsNumber(value, size) == Grows(value, size) /\ value.word \in {"number", "wide"}

\* The word after the four bytes of a number, or a text of n characters and
\* its zero byte, were copied into it; the bytes behind those stay.
NumberWord(value, body) ==
  IF value.word = "wide" THEN "wide" ELSE IF body = 0 THEN "zero" ELSE "number"

TextWords(value, n) ==
  IF IsLong(n + 1) THEN {"pointer"}
  ELSE IF n > 4 THEN {"wide"}
  ELSE IF value.word = "wide" THEN {"wide"} \union {w \in {"number"} : n = 4}
  ELSE IF n > 0 THEN {"number"}
  ELSE {value.word, "zero"}

WordsOf(value, type, body) ==
  LET old == ResetFor(value, SizeOf(type, body))
  IN IF type \in Texts THEN TextWords(old, body) ELSE {NumberWord(old, body)}

Copied(type, body, word) ==
  [size |-> SizeOf(type, body), type |-> type, body |-> body, word |-> word]

\* any_value_set of a number, which needs no memory.
Put(value, type, body) == Copied(type, body, NumberWord(ResetFor(value, 4), body))

\* A mutant: what is there is released with every new value.
BlocksReleased(value, size) ==
  (IF value.word = "zero" THEN 0 ELSE 0 - 1) + (IF IsLong(size) THEN 1 ELSE 0)

\* The change in the number of blocks that are allocated.
Blocks(value, size) ==
  LET old == ResetFor(value, size)
  IN (IF value.word = "pointer" /\ old = NoValue THEN 0 - 1 ELSE 0)
       + (IF Grows(old, size) /\ old.word = "zero" THEN 1 ELSE 0)

\* A value of the size of a pointer takes the place of a longer one: it is not
\* reset, and the pointer to the block is lost.
Loses(value, size) == IsLong(value.size) /\ size = 8

\* What any_value_set may come to: done, out of memory, or undefined.
Sets(value, type, body) ==
  LET size == SizeOf(type, body)
  IN IF GrowsNumber(value, size)
     THEN {[value |-> value, blocks |-> 0, lost |-> 0, status |-> "undefined"]}
     ELSE {[value |-> Copied(type, body, word), blocks |-> Blocks(value, size),
            lost |-> IF Loses(value, size) THEN 1 ELSE 0, status |-> "done"] :
             word \in WordsOf(value, type, body)}
            \union
          {[value |-> NoValue, blocks |-> IF IsLong(value.size) THEN 0 - 1 ELSE 0,
            lost |-> 0, status |-> "memory"] : n \in {n \in {size} : Grows(value, n)}}

\* any_value_number
Number(value) == IF value.type \in Numbers THEN value.body ELSE 0
=============================================================================
