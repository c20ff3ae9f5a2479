------------------------------ MODULE Lifetimes ------------------------------
(***************************************************************************)
(* What a session promises about the things it allocates: a thing is made  *)
(* once, after everything it rests on, and given back once, before         *)
(* anything it rests on.  Session implements this module.                  *)
(***************************************************************************)
CONSTANTS Resource, \* what is allocated
          Needs     \* Needs[r]: what r rests on while it lives

VARIABLE life

LiveIn(l) == {r \in Resource : l[r] = "live"}

Supported(l) == \A r \in LiveIn(l) : Needs[r] \subseteq LiveIn(l)

Init ==
  /\ life \in [Resource -> {"unset", "live"}]
  /\ Supported(life)

\* What a step makes: the pointer was not set before, and points to it after.
Made == {r \in Resource : life[r] = "unset" /\ life'[r] = "live"}

\* What it gives back: the pointer is reset, or left dangling.
GivenBack ==
  {r \in Resource : life[r] = "live" /\ life'[r] \in {"unset", "freed"}}

Next ==
  /\ life' \in [Resource -> {"unset", "live", "freed"}]
  /\ \A r \in Resource \ (Made \union GivenBack) : life'[r] = life[r]
  /\ Made = {} \/ GivenBack = {}
  /\ Supported(life')

Spec == Init /\ [][Next]_life
=============================================================================
