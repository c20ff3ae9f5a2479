----------------------------- MODULE SymapProofs -----------------------------
(***************************************************************************)
(* The index of the URI map stays sorted and complete, the bisection finds *)
(* what is there, and an ID keeps its meaning, for every set of symbols    *)
(* and every order in which they come.                                     *)
(***************************************************************************)
EXTENDS Symap, TLAPS

\* A call that is under way has a symbol.
CallHasSymbol == call.step # "idle" => call.sym \in Symbol

\* What is kept by every step: the search is right only in a sorted index,
\* and the index stays sorted only by what the search has found.
SymapInv == SymapTypeOK /\ CallHasSymbol /\ IndexSorted /\ SearchNarrows

-----------------------------------------------------------------------------
\* The entries of the index are symbols, which are numbers.
LEMMA EntryIsSymbol ==
  ASSUME SymapTypeOK
  PROVE  /\ Size \in Nat
         /\ DOMAIN index = 0..(Size - 1)
         /\ \A i \in 0..(Size - 1) :
              index[i] \in 1..Size /\ Entry(i) \in Symbol /\ Entry(i) \in Nat
<1>1. Size \in Nat /\ symbols \in [1..Size -> Symbol]
  BY DEF SymapTypeOK, Size
<1>2. index \in [0..(Size - 1) -> 1..Size]
  BY DEF SymapTypeOK
<1>3. Symbol \subseteq Nat
  BY SymapAssumption
<1> QED
  BY <1>1, <1>2, <1>3 DEF Entry

\* The last entry of a sorted index is the largest.
LEMMA LastIsLargest ==
  ASSUME SymapTypeOK, IndexSorted, Size > 0
  PROVE  \A i \in 0..(Size - 1) : Entry(i) <= Entry(Size - 1)
<1>0. /\ Size \in Nat
      /\ DOMAIN index = 0..(Size - 1)
      /\ \A i \in 0..(Size - 1) : Entry(i) \in Nat
  BY EntryIsSymbol
<1> SUFFICES ASSUME NEW i \in 0..(Size - 1)
             PROVE  Entry(i) <= Entry(Size - 1)
  OBVIOUS
<1>1. CASE i = Size - 1
  BY <1>0, <1>1
<1>2. CASE i # Size - 1
  <2>1. i < Size - 1 /\ Size - 1 \in 0..(Size - 1)
    BY <1>0, <1>2
  <2>2. Entry(i) < Entry(Size - 1)
    BY <1>0, <2>1 DEF IndexSorted
  <2> QED
    BY <1>0, <2>1, <2>2
<1> QED
  BY <1>1, <1>2

\* The middle of two places lies between them.
LEMMA MiddleBetween ==
  ASSUME NEW lower \in Nat, NEW upper \in Nat, lower <= upper
  PROVE  /\ lower + ((upper - lower) \div 2) \in Nat
         /\ lower <= lower + ((upper - lower) \div 2)
         /\ lower + ((upper - lower) \div 2) <= upper
OBVIOUS

-----------------------------------------------------------------------------
LEMMA SymapInitInv == SymapInit => SymapInv
<1> SUFFICES ASSUME SymapInit PROVE SymapInv
  OBVIOUS
<1>1. Size = 0 /\ symbols = <<>> /\ call = Idle
  BY DEF SymapInit, Size
<1>2. DOMAIN index = {} /\ index \in [0..(Size - 1) -> 1..Size]
  BY <1>1 DEF SymapInit
<1>3. SymapTypeOK
  BY <1>1, <1>2 DEF SymapTypeOK, Idle
<1>4. CallHasSymbol /\ SearchNarrows
  BY <1>1 DEF CallHasSymbol, SearchNarrows, Idle
<1>5. IndexSorted
  BY <1>1, <1>2 DEF IndexSorted
<1> QED
  BY <1>3, <1>4, <1>5 DEF SymapInv

-----------------------------------------------------------------------------
\* A step that changes only the call keeps the two arrays in order.
LEMMA CallOnly ==
  ASSUME SymapInv, UNCHANGED <<symbols, index>>,
         call' \in [step : {"idle", "search", "insert", "done"},
                    sym : Symbol \union {0}, lower : Nat, upper : Nat,
                    place : Nat, id : Nat],
         CallHasSymbol', SearchNarrows'
  PROVE  SymapInv'
<1>1. SymapTypeOK'
  BY DEF SymapInv, SymapTypeOK, Size
<1>2. IndexSorted'
  BY DEF SymapInv, IndexSorted, Entry, Size
<1> QED
  BY <1>1, <1>2 DEF SymapInv

\* The look at the last symbol: all are less, or the search begins.
LEMMA BeginMapInv ==
  ASSUME SymapInv, NEW sym \in Symbol, BeginMap(sym)
  PROVE  SymapInv'
<1>0. /\ Size \in Nat
      /\ \A i \in 0..(Size - 1) : Entry(i) \in Nat
      /\ sym \in Nat
  BY EntryIsSymbol, SymapAssumption DEF SymapInv
<1>1. UNCHANGED <<symbols, index>>
  BY DEF BeginMap
<1>2. CASE Size = 0 \/ Entry(Size - 1) < sym
  <2>1. /\ call' = [step |-> "insert", sym |-> sym, lower |-> 0, upper |-> 0,
                    place |-> Size, id |-> 0]
    BY <1>2 DEF BeginMap, Idle
  <2>2. \A i \in 0..(Size - 1) : Entry(i) < sym
    <3>1. CASE Size = 0
      BY <3>1
    <3>2. CASE Size > 0
      <4>1. \A i \in 0..(Size - 1) : Entry(i) <= Entry(Size - 1)
        BY <3>2, LastIsLargest DEF SymapInv
      <4>2. Size - 1 \in 0..(Size - 1) /\ Entry(Size - 1) < sym
        BY <1>0, <1>2, <3>2
      <4> QED
        BY <1>0, <4>1, <4>2
    <3> QED
      BY <1>0, <3>1, <3>2
  <2>3. SearchNarrows'
    BY <1>0, <1>1, <2>1, <2>2 DEF SearchNarrows, Entry, Size
  <2> QED
    BY <1>0, <1>1, <2>1, <2>3, CallOnly DEF CallHasSymbol
<1>3. CASE ~(Size = 0 \/ Entry(Size - 1) < sym)
  <2>1. call' = [step |-> "search", sym |-> sym, lower |-> 0,
                 upper |-> Size - 1, place |-> 0, id |-> 0]
    BY <1>3 DEF BeginMap, Idle
  <2>2. Size > 0 /\ Size - 1 \in Nat
    BY <1>0, <1>3
  <2>3. SearchNarrows'
    BY <1>0, <1>1, <2>1, <2>2 DEF SearchNarrows, Entry, Size
  <2> QED
    BY <1>1, <2>1, <2>2, <2>3, CallOnly DEF CallHasSymbol
<1> QED
  BY <1>2, <1>3

\* A turn of the loop: what the middle tells of the places on one side.
LEMMA SearchStepInv ==
  ASSUME SymapInv, SearchStep
  PROVE  SymapInv'
<1> DEFINE i == call.lower + ((call.upper - call.lower) \div 2)
<1>0. /\ Size \in Nat
      /\ DOMAIN index = 0..(Size - 1)
      /\ \A k \in 0..(Size - 1) : Entry(k) \in Nat /\ index[k] \in 1..Size
  BY EntryIsSymbol DEF SymapInv
<1>1. /\ call.step = "search" /\ call.sym \in Symbol /\ call.sym \in Nat
      /\ call.lower \in Nat /\ call.upper \in Nat
      /\ call.lower <= call.upper /\ call.upper < Size
      /\ call \in [step : {"idle", "search", "insert", "done"},
                   sym : Symbol \union {0}, lower : Nat, upper : Nat,
                   place : Nat, id : Nat]
  BY SymapAssumption
     DEF SearchStep, SymapInv, CallHasSymbol, SearchNarrows, SymapTypeOK
<1>2. /\ \A k \in 0..(call.lower - 1) : Entry(k) < call.sym
      /\ \A k \in (call.upper + 1)..(Size - 1) : call.sym < Entry(k)
  BY <1>1 DEF SymapInv, SearchNarrows
<1>3. i \in Nat /\ call.lower <= i /\ i <= call.upper /\ i \in 0..(Size - 1)
  <2>1. i \in Nat /\ call.lower <= i /\ i <= call.upper
    BY <1>1, MiddleBetween
  <2> QED
    BY <1>0, <1>1, <2>1
<1>4. \A j, k \in 0..(Size - 1) : j < k => Entry(j) < Entry(k)
  BY <1>0 DEF SymapInv, IndexSorted
<1>5. UNCHANGED <<symbols, index>>
  BY DEF SearchStep
<1> HIDE DEF i
<1>6. CASE Entry(i) = call.sym
  <2>1. call' = [call EXCEPT !.step = "done", !.id = index[i]]
    BY <1>6 DEF SearchStep, i
  <2>2. /\ index[i] \in 1..Size /\ index[i] \in Nat
        /\ symbols[index[i]] = call.sym
    BY <1>0, <1>3, <1>6 DEF Entry
  <2>3. SearchNarrows'
    BY <1>1, <1>5, <2>1, <2>2 DEF SearchNarrows, Size
  <2> QED
    BY <1>1, <1>5, <2>1, <2>2, <2>3, CallOnly DEF CallHasSymbol
<1>7. CASE Entry(i) # call.sym /\ Entry(i) > call.sym
  <2>1. \A k \in i..(Size - 1) : call.sym < Entry(k)
    <3> SUFFICES ASSUME NEW k \in i..(Size - 1)
                 PROVE  call.sym < Entry(k)
      OBVIOUS
    <3>1. k \in 0..(Size - 1) /\ (k = i \/ i < k)
      BY <1>0, <1>3
    <3>2. k = i \/ Entry(i) < Entry(k)
      BY <1>3, <1>4, <3>1
    <3> QED
      BY <1>0, <1>1, <1>3, <1>7, <3>1, <3>2
  <2>2. CASE i = call.lower
    <3>1. call' = [call EXCEPT !.step = "insert", !.place = i]
      BY <1>7, <2>2 DEF SearchStep, i
    <3>2. SearchNarrows'
      BY <1>0, <1>1, <1>2, <1>3, <1>5, <2>1, <2>2, <3>1
         DEF SearchNarrows, Entry, Size
    <3> QED
      BY <1>1, <1>3, <1>5, <3>1, <3>2, CallOnly DEF CallHasSymbol
  <2>3. CASE i # call.lower
    <3>1. call' = [call EXCEPT !.upper = i - 1]
      BY <1>7, <2>3 DEF SearchStep, i
    <3>2. i - 1 \in Nat /\ call.lower <= i - 1 /\ i - 1 < Size
          /\ (i - 1) + 1 = i
      BY <1>0, <1>1, <1>3, <2>3
    <3>3. SearchNarrows'
      BY <1>0, <1>1, <1>2, <1>5, <2>1, <3>1, <3>2
         DEF SearchNarrows, Entry, Size
    <3> QED
      BY <1>1, <1>5, <3>1, <3>2, <3>3, CallOnly DEF CallHasSymbol
  <2> QED
    BY <2>2, <2>3
<1>8. CASE Entry(i) # call.sym /\ ~(Entry(i) > call.sym)
  <2>1. \A k \in 0..i : Entry(k) < call.sym
    <3> SUFFICES ASSUME NEW k \in 0..i
                 PROVE  Entry(k) < call.sym
      OBVIOUS
    <3>1. k \in 0..(Size - 1) /\ (k = i \/ k < i)
      BY <1>0, <1>3
    <3>2. k = i \/ Entry(k) < Entry(i)
      BY <1>3, <1>4, <3>1
    <3> QED
      BY <1>0, <1>1, <1>3, <1>8, <3>1, <3>2
  <2>2. CASE i = call.upper
    <3>1. call' = [call EXCEPT !.step = "insert", !.place = i + 1]
      BY <1>8, <2>2 DEF SearchStep, i
    <3>2. i + 1 \in Nat /\ i + 1 <= Size /\ (i + 1) - 1 = i
      BY <1>0, <1>3
    <3>3. SearchNarrows'
      BY <1>0, <1>1, <1>2, <1>5, <2>1, <2>2, <3>1, <3>2
         DEF SearchNarrows, Entry, Size
    <3> QED
      BY <1>1, <1>5, <3>1, <3>2, <3>3, CallOnly DEF CallHasSymbol
  <2>3. CASE i # call.upper
    <3>1. call' = [call EXCEPT !.lower = i + 1]
      BY <1>8, <2>3 DEF SearchStep, i
    <3>2. i + 1 \in Nat /\ i + 1 <= call.upper /\ (i + 1) - 1 = i
      BY <1>1, <1>3, <2>3
    <3>3. SearchNarrows'
      BY <1>0, <1>1, <1>2, <1>5, <2>1, <3>1, <3>2
         DEF SearchNarrows, Entry, Size
    <3> QED
      BY <1>1, <1>5, <3>1, <3>2, <3>3, CallOnly DEF CallHasSymbol
  <2> QED
    BY <2>2, <2>3
<1> QED
  BY <1>6, <1>7, <1>8

\* The entries after an insertion: those behind the place have moved by one.
LEMMA InsertEntries ==
  ASSUME SymapInv, Insert
  PROVE  /\ Size \in Nat /\ Size' = Size + 1 /\ Size + 1 \in Nat
         /\ call.sym \in Symbol /\ call.sym \in Nat
         /\ call.place \in 0..Size
         /\ symbols' \in Seq(Symbol)
         /\ index' \in [0..Size -> 1..(Size + 1)]
         /\ index'[call.place] = Size + 1
         /\ \A k \in 0..(call.place - 1) :
              index'[k] = index[k] /\ Entry(k)' = Entry(k)
         /\ \A k \in 0..Size : k = call.place => Entry(k)' = call.sym
         /\ \A k \in (call.place + 1)..Size :
              index'[k] = index[k - 1] /\ Entry(k)' = Entry(k - 1)
         /\ symbols'[Size + 1] = call.sym
         /\ \A id \in 1..Size : symbols'[id] = symbols[id]
<1>0. /\ Size \in Nat
      /\ \A i \in 0..(Size - 1) : index[i] \in 1..Size
  BY EntryIsSymbol DEF SymapInv
<1>1. /\ call.sym \in Symbol /\ call.sym \in Nat
      /\ call.place \in Nat /\ call.place <= Size
      /\ symbols \in Seq(Symbol)
  BY SymapAssumption
     DEF SymapInv, CallHasSymbol, SearchNarrows, SymapTypeOK, Insert
<1>2. /\ symbols' = Append(symbols, call.sym)
      /\ index' = Inserted(call.place, Size + 1)
  BY DEF Insert
<1>3. /\ symbols' \in Seq(Symbol) /\ Size' = Size + 1
      /\ symbols'[Size + 1] = call.sym
      /\ \A id \in 1..Size : symbols'[id] = symbols[id]
  BY <1>1, <1>2 DEF Size
<1>4. \A k \in 0..Size :
        index'[k] = IF k < call.place THEN index[k]
                    ELSE IF k = call.place THEN Size + 1 ELSE index[k - 1]
  BY <1>2 DEF Inserted
<1>5. index' \in [0..Size -> 1..(Size + 1)]
  <2>1. \A k \in 0..Size : index'[k] \in 1..(Size + 1)
    BY <1>0, <1>1, <1>4
  <2>2. index' = [k \in 0..Size |-> index'[k]]
    BY <1>2 DEF Inserted
  <2> QED
    BY <2>1, <2>2
<1>6. /\ index'[call.place] = Size + 1
      /\ \A k \in 0..(call.place - 1) : index'[k] = index[k]
      /\ \A k \in (call.place + 1)..Size : index'[k] = index[k - 1]
  BY <1>0, <1>1, <1>4
<1>7. /\ \A k \in 0..Size : k = call.place => Entry(k)' = call.sym
      /\ \A k \in 0..(call.place - 1) : Entry(k)' = Entry(k)
      /\ \A k \in (call.place + 1)..Size : Entry(k)' = Entry(k - 1)
  <2>1. ASSUME NEW k \in 0..Size, k = call.place
        PROVE  Entry(k)' = call.sym
    BY <1>3, <1>6, <2>1 DEF Entry
  <2>2. ASSUME NEW k \in 0..(call.place - 1)
        PROVE  Entry(k)' = Entry(k)
    <3>1. index[k] \in 1..Size /\ index'[k] = index[k]
      BY <1>0, <1>1, <1>6
    <3> QED
      BY <1>3, <3>1 DEF Entry
  <2>3. ASSUME NEW k \in (call.place + 1)..Size
        PROVE  Entry(k)' = Entry(k - 1)
    <3>1. index[k - 1] \in 1..Size /\ index'[k] = index[k - 1]
      BY <1>0, <1>1, <1>6
    <3> QED
      BY <1>3, <3>1 DEF Entry
  <2> QED
    BY <2>1, <2>2, <2>3
<1> QED
  BY <1>0, <1>1, <1>3, <1>5, <1>6, <1>7

\* The new entry is larger than those before it and less than those behind.
LEMMA InsertSorted ==
  ASSUME SymapInv, Insert
  PROVE  IndexSorted'
<1>1. /\ Size \in Nat /\ Size' = Size + 1 /\ Size + 1 \in Nat
      /\ call.sym \in Nat /\ call.place \in 0..Size
      /\ DOMAIN index' = 0..Size
      /\ index'[call.place] = Size + 1
      /\ \A k \in 0..(call.place - 1) :
           index'[k] = index[k] /\ Entry(k)' = Entry(k)
      /\ \A k \in 0..Size : k = call.place => Entry(k)' = call.sym
      /\ \A k \in (call.place + 1)..Size :
           index'[k] = index[k - 1] /\ Entry(k)' = Entry(k - 1)
  BY InsertEntries
<1>2. /\ \A k \in 0..(Size - 1) : Entry(k) \in Nat
      /\ \A j, k \in 0..(Size - 1) : j < k => Entry(j) < Entry(k)
      /\ \A id \in 1..Size : \E k \in 0..(Size - 1) : index[k] = id
  BY EntryIsSymbol DEF SymapInv, IndexSorted
<1>3. /\ \A k \in 0..(call.place - 1) : Entry(k) < call.sym
      /\ \A k \in call.place..(Size - 1) : call.sym < Entry(k)
  BY DEF SymapInv, SearchNarrows, Insert
<1>4. ASSUME NEW j \in 0..Size, NEW k \in 0..Size, j < k
      PROVE  Entry(j)' < Entry(k)'
  <2>1. CASE k < call.place
    <3>1. /\ j \in 0..(call.place - 1) /\ k \in 0..(call.place - 1)
          /\ j \in 0..(Size - 1) /\ k \in 0..(Size - 1)
      BY <1>1, <1>4, <2>1
    <3>2. Entry(j)' = Entry(j) /\ Entry(k)' = Entry(k)
      BY <1>1, <3>1
    <3> QED
      BY <1>2, <1>4, <3>1, <3>2
  <2>2. CASE k = call.place
    <3>1. j \in 0..(call.place - 1)
      BY <1>1, <1>4, <2>2
    <3> QED
      BY <1>1, <1>3, <2>2, <3>1
  <2>3. CASE k > call.place
    <3>1. /\ k \in (call.place + 1)..Size /\ Entry(k)' = Entry(k - 1)
          /\ k - 1 \in 0..(Size - 1) /\ k - 1 \in call.place..(Size - 1)
      BY <1>1, <2>3
    <3>2. CASE j < call.place
      <4>1. /\ j \in 0..(call.place - 1) /\ j \in 0..(Size - 1)
            /\ j < k - 1
        BY <1>1, <2>3, <3>2
      <4>2. Entry(j)' = Entry(j) /\ Entry(j) < Entry(k - 1)
        BY <1>1, <1>2, <3>1, <4>1
      <4> QED
        BY <3>1, <4>2
    <3>3. CASE j = call.place
      BY <1>1, <1>3, <3>1, <3>3
    <3>4. CASE j > call.place
      <4>1. /\ j \in (call.place + 1)..Size /\ j - 1 \in 0..(Size - 1)
            /\ j - 1 < k - 1
        BY <1>1, <1>4, <3>1, <3>4
      <4>2. Entry(j)' = Entry(j - 1) /\ Entry(j - 1) < Entry(k - 1)
        BY <1>1, <1>2, <3>1, <4>1
      <4> QED
        BY <3>1, <4>2
    <3> QED
      BY <1>1, <3>2, <3>3, <3>4
  <2> QED
    BY <1>1, <2>1, <2>2, <2>3
<1>5. ASSUME NEW id \in 1..(Size + 1)
      PROVE  \E k \in 0..Size : index'[k] = id
  <2>1. CASE id = Size + 1
    BY <1>1, <2>1
  <2>2. CASE id # Size + 1
    <3>1. id \in 1..Size
      BY <1>1, <2>2
    <3>2. PICK k \in 0..(Size - 1) : index[k] = id
      BY <1>2, <3>1
    <3>3. CASE k < call.place
      <4>1. k \in 0..(call.place - 1) /\ k \in 0..Size
        BY <1>1, <3>3
      <4> QED
        BY <1>1, <3>2, <4>1
    <3>4. CASE ~(k < call.place)
      <4>1. k + 1 \in (call.place + 1)..Size /\ k + 1 \in 0..Size
            /\ (k + 1) - 1 = k
        BY <1>1, <3>4
      <4>2. index'[k + 1] = id
        BY <1>1, <3>2, <4>1
      <4> QED
        BY <4>1, <4>2
    <3> QED
      BY <3>3, <3>4
  <2> QED
    BY <2>1, <2>2
<1> QED
  BY <1>1, <1>4, <1>5 DEF IndexSorted

LEMMA InsertInv ==
  ASSUME SymapInv, Insert
  PROVE  SymapInv'
<1>1. /\ Size \in Nat /\ Size' = Size + 1 /\ Size + 1 \in Nat
      /\ call.sym \in Symbol
      /\ symbols' \in Seq(Symbol)
      /\ index' \in [0..Size -> 1..(Size + 1)]
      /\ symbols'[Size + 1] = call.sym
  BY InsertEntries
<1>2. /\ call' = [call EXCEPT !.step = "done", !.id = Size + 1]
      /\ call \in [step : {"idle", "search", "insert", "done"},
                   sym : Symbol \union {0}, lower : Nat, upper : Nat,
                   place : Nat, id : Nat]
  BY DEF Insert, SymapInv, SymapTypeOK
<1>3. (Size' - 1) = Size
  BY <1>1
<1>4. SymapTypeOK'
  BY <1>1, <1>2, <1>3 DEF SymapTypeOK
<1>5. CallHasSymbol'
  BY <1>1, <1>2 DEF CallHasSymbol
<1>6. SearchNarrows'
  BY <1>1, <1>2 DEF SearchNarrows
<1> QED
  BY <1>4, <1>5, <1>6, InsertSorted DEF SymapInv

LEMMA SymapStepInv == SymapInv /\ [SymapNext]_symapVars => SymapInv'
<1> SUFFICES ASSUME SymapInv, [SymapNext]_symapVars
             PROVE  SymapInv'
  OBVIOUS
<1>1. ASSUME NEW sym \in Symbol, BeginMap(sym)
      PROVE  SymapInv'
  BY <1>1, BeginMapInv
<1>2. CASE SearchStep
  BY <1>2, SearchStepInv
<1>3. CASE Insert
  BY <1>3, InsertInv
<1>4. CASE OutOfMemory
  <2>1. /\ call' = [call EXCEPT !.step = "done", !.id = 0]
        /\ call \in [step : {"idle", "search", "insert", "done"},
                     sym : Symbol \union {0}, lower : Nat, upper : Nat,
                     place : Nat, id : Nat]
        /\ call.sym \in Symbol
        /\ UNCHANGED <<symbols, index>>
    BY <1>4 DEF OutOfMemory, SymapInv, SymapTypeOK, CallHasSymbol
  <2> QED
    BY <2>1, CallOnly DEF CallHasSymbol, SearchNarrows
<1>5. CASE Return
  <2>1. /\ call' = [step |-> "idle", sym |-> 0, lower |-> 0, upper |-> 0,
                    place |-> 0, id |-> 0]
        /\ UNCHANGED <<symbols, index>>
    BY <1>5 DEF Return, Idle
  <2> QED
    BY <2>1, CallOnly DEF CallHasSymbol, SearchNarrows
<1>6. CASE UNCHANGED symapVars
  <2>1. /\ call' \in [step : {"idle", "search", "insert", "done"},
                      sym : Symbol \union {0}, lower : Nat, upper : Nat,
                      place : Nat, id : Nat]
        /\ UNCHANGED <<symbols, index>> /\ CallHasSymbol'
    BY <1>6 DEF symapVars, SymapInv, SymapTypeOK, CallHasSymbol
  <2>2. SearchNarrows'
    BY <1>6 DEF symapVars, SymapInv, SearchNarrows, Entry, Size
  <2> QED
    BY <2>1, <2>2, CallOnly
<1> QED
  BY <1>1, <1>2, <1>3, <1>4, <1>5, <1>6 DEF SymapNext, SymapSteps

-----------------------------------------------------------------------------
\* The invariant of the URI map, for every set of symbols.
THEOREM SymapCorrect == SymapSpec => []SymapInv
<1> QED
  BY SymapInitInv, SymapStepInv, PTL DEF SymapSpec

\* The index is sorted and complete in every state: symap_map inserts a new
\* ID where symap_search has left off, also after memory ran out.
THEOREM IndexStaysSorted == SymapSpec => []IndexSorted
<1>1. SymapInv => IndexSorted
  BY DEF SymapInv
<1> QED
  BY <1>1, SymapCorrect, PTL

\* symap_search finds what is in the map and else the place where it belongs,
\* and map_uri returns the ID of the symbol that was asked for.
THEOREM SearchIsRight == SymapSpec => []SearchNarrows
<1>1. SymapInv => SearchNarrows
  BY DEF SymapInv
<1> QED
  BY <1>1, SymapCorrect, PTL

\* An ID that was given to a plugin keeps its meaning: symbols are only added.
THEOREM IdsKeepMeaning == SymapSpec => IdsStable
<1>1. ASSUME SymapInv, [SymapNext]_symapVars
      PROVE  [\A id \in 1..Size :
                 id <= Len(symbols') /\ symbols'[id] = symbols[id]]_symapVars
  <2>1. CASE symbols' = symbols
    <3>1. Size \in Nat
      BY <1>1, EntryIsSymbol DEF SymapInv
    <3> QED
      BY <2>1, <3>1 DEF Size
  <2>2. CASE Insert
    <3>1. /\ Size \in Nat /\ Size' = Size + 1
          /\ \A id \in 1..Size : symbols'[id] = symbols[id]
      BY <1>1, <2>2, InsertEntries
    <3> QED
      BY <3>1 DEF Size
  <2> QED
    BY <1>1, <2>1, <2>2
       DEF SymapNext, SymapSteps, BeginMap, SearchStep, OutOfMemory, Return,
           symapVars
<1> QED
  BY <1>1, SymapCorrect, PTL DEF IdsStable, SymapSpec
=============================================================================
