------------------------------ MODULE Widgets ------------------------------
(***************************************************************************)
(* What the widgets of a control do when they are moved, by the user or by *)
(* the program: GTK calls the handlers of a widget whenever its value      *)
(* changes, and the handlers move other widgets.  An operator returns the  *)
(* control and the values its handlers have set, in their order.           *)
(*                                                                         *)
(* Every range is from 1 to 4, values in it are 1, 2 and 4, and a          *)
(* logarithmic scale has the exponents to base two where the code has      *)
(* those to base e.                                                        *)
(***************************************************************************)
EXTENDS Integers, Sequences, AnyValue

\* The widgets of a number, by the plugin's data.
Looks == {"slider", "log", "combo", "switch", "spinner"}

Lowest == 1
Highest == 4
Points == {1, 4} \* the scale points of an enumeration
Nothing == 0     \* what a combo box shows when nothing is selected

Clamp(v, low, high) == IF v < low THEN low ELSE IF v > high THEN high ELSE v

HasSpin(look) == look \in {"log", "slider"}

\* The positions of a slider, and the value at a position.  Values are at one
\* of them, or out of the range.
Marks == {1, 2, 4}
Values == {v \in Int : v \in Lowest..Highest => v \in Marks}
Positions(look) == IF look = "log" THEN 0..2 ELSE Marks
ValueAt(look, position) == IF look = "log" THEN 2 ^ position ELSE position
PositionOf(look, v) == CHOOSE p \in Positions(look) : ValueAt(look, p) = v

\* gtk_range_set_value
Nearest(look, v) ==
  IF look = "log" THEN Clamp(v, 0, 2) ELSE Clamp(v, Lowest, Highest)

Quiet(control) == [control |-> control, sent |-> <<>>]

\* set_number_control, called by the handler of a widget: the value is set,
\* and the spin button, if there is one, follows.
SetNumber(s, v) ==
  [control |-> [s.control EXCEPT !.value = Put(@, s.control.type, v),
                                 !.spin = IF HasSpin(s.control.look) THEN v
                                          ELSE 0],
   sent |-> Append(s.sent, v)]

\* The scale, or the only widget of a control, is moved; one that is not
\* writable has no handler.
MoveScale(s, position) ==
  LET moved == [s EXCEPT !.control.scale = position]
  IN IF s.control.scale = position \/ ~s.control.writable THEN moved
     ELSE SetNumber(moved, ValueAt(s.control.look, position))

\* The spin button is turned: its handler moves the scale, whose handler sets
\* the value.
TurnSpin(s, v) ==
  LET turned == [s EXCEPT !.control.spin = v]
      position == PositionOf(s.control.look, v)
  IN IF s.control.spin = v \/ ~s.control.writable \/ s.control.scale = position
     THEN turned ELSE MoveScale(turned, position)

\* make_controller: where the widgets of a control are at first.
FirstPosition(look, f) ==
  CASE look = "switch"  -> IF f # 0 THEN 1 ELSE 0
    [] look = "combo"   -> IF f \in Points THEN f ELSE Nothing
    [] HasSpin(look)    -> PositionOf(look, Clamp(f, Lowest, Highest))
    [] look = "spinner" -> IF f < 0 THEN 0 ELSE f
    [] OTHER            -> 0

Built(control) ==
  LET f == Number(control.value)
  IN [control EXCEPT
        !.widget = TRUE,
        !.scale = FirstPosition(control.look, f),
        !.spin = IF HasSpin(control.look) THEN Clamp(f, Lowest, Highest) ELSE 0]

\* jalv_frontend_control_changed of GTK.  The scale of a logarithmic control is
\* first given the value itself, and the spin button then puts it right.  A
\* spinner does not go below FLT_MIN, which is zero here.
Changed(control) ==
  LET f == Number(control.value)
      s == Quiet(control)
  IN IF ~control.widget THEN s
     ELSE CASE control.look = "text" ->
            IF control.value.type = control.type
            THEN Quiet([control EXCEPT !.scale = control.value.body]) ELSE s
       [] control.look = "switch" -> MoveScale(s, IF f > 0 THEN 1 ELSE 0)
       [] control.look = "combo" -> IF f \in Points THEN MoveScale(s, f) ELSE s
       [] HasSpin(control.look) ->
            TurnSpin(MoveScale(s, Nearest(control.look, f)),
                     Clamp(f, Lowest, Highest))
       [] control.look = "spinner" -> MoveScale(s, IF f < 0 THEN 0 ELSE f)

\* What a user can do to the widgets of a control: each of the results.
Moves(control, inputs) ==
  LET s == Quiet(control)
  IN CASE control.look = "switch" -> {MoveScale(s, 1 - control.scale)}
       [] control.look = "combo" -> {MoveScale(s, p) : p \in Points}
       [] HasSpin(control.look) ->
            {MoveScale(s, p) : p \in Positions(control.look)}
              \union {TurnSpin(s, v) : v \in Marks}
       [] control.look = "spinner" -> {MoveScale(s, v) : v \in inputs \cap Nat}
       [] OTHER -> {}

\* The number the widgets show.
Shown(control) == ValueAt(control.look, control.scale)

-----------------------------------------------------------------------------
(* The dials of Qt, which know their port only.                            *)

Steps == 3 \* of a logarithmic dial

DialPositions(look) ==
  CASE look = "log" -> 1..Steps
    [] look \in {"combo", "switch"} -> 0..1
    [] OTHER -> Marks

\* Controller::setValue, and how QDial bounds the position: steps * log(v / min)
\* / log(max / min), cut to an integer, for a logarithmic dial
DialFor(look, v) ==
  CASE look = "log"    -> IF v = Highest THEN Steps ELSE 1
    [] look = "combo"  -> IF v = Lowest THEN 0 ELSE 1
    [] look = "switch" -> Clamp(v, 0, 1)
    [] OTHER           -> Clamp(v, Lowest, Highest)

\* Controller::getValue: min * pow(max / min, position / (steps - 1)) for a
\* logarithmic dial, whose last position is above the maximum
DialValue(look, position) ==
  CASE look = "log"   -> 2 ^ position
    [] look = "combo" -> IF position = 0 THEN Lowest ELSE Highest
    [] OTHER          -> position
=============================================================================
