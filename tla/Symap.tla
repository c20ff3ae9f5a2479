------------------------------- MODULE Symap -------------------------------
(***************************************************************************)
(* The map of URIs to numbers: an array of symbols by their ID, and an     *)
(* index of the IDs in the order of the symbols, searched by bisection.    *)
(* A call holds the mapper's lock from its begin to its return; a turn of  *)
(* the search's loop is a step.                                            *)
(***************************************************************************)
EXTENDS Naturals, Sequences

CONSTANT Symbol \* strings, as numbers in the order of strcmp

ASSUME SymapAssumption == Symbol \subseteq Nat

VARIABLES
  symbols, \* map->symbols, an ID is a place in it
  index,   \* map->index, from zero as in C
  call     \* the call that holds the lock

symapVars == <<symbols, index, call>>

Size == Len(symbols)

\* The symbol at place i of the index.
Entry(i) == symbols[index[i]]

Idle == [step |-> "idle", sym |-> 0, lower |-> 0, upper |-> 0, place |-> 0,
         id |-> 0]

SymapInit ==
  /\ symbols = <<>>
  /\ index = [i \in {} |-> 0]
  /\ call = Idle

-----------------------------------------------------------------------------
\* map_uri takes the lock; symap_search looks at the last symbol first.
BeginMap(sym) ==
  /\ call.step = "idle"
  /\ call' = IF Size = 0 \/ Entry(Size - 1) < sym
             THEN [Idle EXCEPT !.step = "insert", !.sym = sym, !.place = Size]
             ELSE [Idle EXCEPT !.step = "search", !.sym = sym,
                               !.upper = Size - 1]
  /\ UNCHANGED <<symbols, index>>

\* A turn of the loop: it ends with the symbol found, or with its place.
SearchStep ==
  /\ call.step = "search"
  /\ LET i == call.lower + ((call.upper - call.lower) \div 2)
     IN call' =
          IF Entry(i) = call.sym
            THEN [call EXCEPT !.step = "done", !.id = index[i]]
          ELSE IF Entry(i) > call.sym
            THEN IF i = call.lower
                 THEN [call EXCEPT !.step = "insert", !.place = i]
                 ELSE [call EXCEPT !.upper = i - 1]
          ELSE IF i = call.upper
            THEN [call EXCEPT !.step = "insert", !.place = i + 1]
            ELSE [call EXCEPT !.lower = i + 1]
  /\ UNCHANGED <<symbols, index>>

\* A mutant: the IDs behind the place are not moved.
InsertedOver(place, id) ==
  [k \in 0..Size |-> IF k = place THEN id
                     ELSE IF k < Size THEN index[k] ELSE id]

\* The index with an ID put in at a place: realloc, memmove, store.
Inserted(place, id) ==
  [k \in 0..Size |-> IF k < place THEN index[k]
                     ELSE IF k = place THEN id ELSE index[k - 1]]

Insert ==
  /\ call.step = "insert"
  /\ symbols' = Append(symbols, call.sym)
  /\ index' = Inserted(call.place, Size + 1)
  /\ call' = [call EXCEPT !.step = "done", !.id = Size + 1]

\* A mutant: the new symbol takes the place of the last when memory is short.
OutOfMemoryReplaces ==
  /\ call.step = "insert"
  /\ call' = [call EXCEPT !.step = "done", !.id = 0]
  /\ symbols' = IF Size > 0 THEN [symbols EXCEPT ![Size] = call.sym] ELSE symbols
  /\ UNCHANGED index

\* Either array could not grow: the one that may have grown is not used.
OutOfMemory ==
  /\ call.step = "insert"
  /\ call' = [call EXCEPT !.step = "done", !.id = 0]
  /\ UNCHANGED <<symbols, index>>

\* The lock is released and the ID returned.
Return ==
  /\ call.step = "done"
  /\ call' = Idle
  /\ UNCHANGED <<symbols, index>>

SymapSteps == SearchStep \/ Insert \/ OutOfMemory

SymapNext == (\E sym \in Symbol : BeginMap(sym)) \/ SymapSteps \/ Return

SymapSpec == SymapInit /\ [][SymapNext]_symapVars

-----------------------------------------------------------------------------
(* Properties                                                              *)

SymapTypeOK ==
  /\ symbols \in Seq(Symbol)
  /\ index \in [0..(Size - 1) -> 1..Size]
  /\ call \in [step : {"idle", "search", "insert", "done"},
               sym : Symbol \union {0}, lower : Nat, upper : Nat,
               place : Nat, id : Nat]

\* The index is sorted and has every ID, whatever the order in which symbols
\* come and wherever memory runs out: a symbol has one ID and is found.
IndexSorted ==
  /\ \A i, j \in DOMAIN index : i < j => Entry(i) < Entry(j)
  /\ \A id \in 1..Size : \E i \in DOMAIN index : index[i] = id

\* What the search has found out about the places it will not look at again,
\* and a call returns the ID of its symbol, or zero without memory.
SearchNarrows ==
  /\ call.step = "search" =>
       /\ call.lower <= call.upper /\ call.upper < Size
       /\ \A i \in 0..(call.lower - 1) : Entry(i) < call.sym
       /\ \A i \in (call.upper + 1)..(Size - 1) : call.sym < Entry(i)
  /\ call.step = "insert" =>
       /\ call.place <= Size
       /\ \A i \in 0..(call.place - 1) : Entry(i) < call.sym
       /\ \A i \in call.place..(Size - 1) : call.sym < Entry(i)
  /\ (call.step = "done" /\ call.id # 0) =>
       call.id \in 1..Size /\ symbols[call.id] = call.sym

\* An ID that was given out means the same symbol for ever.
IdsStable ==
  [][\A id \in 1..Size : id <= Len(symbols') /\ symbols'[id] = symbols[id]]_symapVars
=============================================================================
