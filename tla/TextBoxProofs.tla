--------------------------- MODULE TextBoxProofs ----------------------------
(* Proofs about TextBox, for every limit and every set of characters. *)
EXTENDS TextBox, TLAPS

USE SizeLimitAssumption, MaxKeysAssumption, CharsAssumption

IInv == TextBoxTypeOK /\ Terminated

\* What is typed between two frames is a sequence.
LEMMA KeysAreSequences == \A keys \in Keys : keys \in Seq(Chars \cup Odd)
<1>1. SUFFICES ASSUME NEW m \in 0..MaxKeys, NEW keys \in [1..m -> Chars \cup Odd]
              PROVE  keys \in Seq(Chars \cup Odd)
  BY DEF Keys
<1> QED
  OBVIOUS

\* What one call of updateText leaves behind, with its local variables named.
Result(b, sel, keys, from, n) ==
    /\ from = AfterBack(b)
    /\ \A j \in 1..n : keys[j] \in Chars
    /\ from + n <= sizeLimit
    /\ selected' = sel
    /\ currentChar' = from + n
    /\ text' = [k \in 0..sizeLimit |->
                  IF k \in from..(from + n - 1) THEN keys[k - from + 1]
                  ELSE IF k = from + n /\ (b \/ n > 0) THEN NUL
                  ELSE text[k]]

\* What one call of updateText does to the buffer, position by position.
LEMMA Step ==
    ASSUME IInv, [Next]_vars
    PROVE  \/ UNCHANGED vars
           \/ \E b, sel \in BOOLEAN, keys \in Seq(Chars \cup Odd), from \in 0..sizeLimit :
              \E n \in 0..Len(keys) : Result(b, sel, keys, from, n)
<1>1. CASE UNCHANGED vars
  BY <1>1
<1>2. CASE Next
  <2>1. PICK click, hovering, back \in BOOLEAN, keys \in Keys :
          \E n \in 0..Len(keys) : UpdateText(click, hovering, back, keys, n)
    BY <1>2 DEF Next
  <2>2. PICK n \in 0..Len(keys) : UpdateText(click, hovering, back, keys, n)
    BY <2>1
  <2>3. keys \in Seq(Chars \cup Odd)
    BY KeysAreSequences
  <2> DEFINE sel == Selected(click, hovering)
             b == sel /\ back
             from == AfterBack(b)
  <2>4. sel \in BOOLEAN /\ b \in BOOLEAN
    BY DEF IInv, TextBoxTypeOK, Selected
  <2>5. from \in 0..sizeLimit
    BY DEF IInv, TextBoxTypeOK, AfterBack
  <2>6. IF sel THEN Takes(keys, from, n) ELSE n = 0
    BY <2>2 DEF UpdateText
  <2>7. (\A j \in 1..n : keys[j] \in Chars) /\ from + n <= sizeLimit
    <3>1. CASE sel
      BY <2>6, <3>1 DEF Takes
    <3>2. CASE ~sel
      BY <2>5, <2>6, <3>2
    <3> QED
      BY <3>1, <3>2, <2>4
  <2>8. /\ selected' = sel
        /\ currentChar' = from + n
        /\ text' = [k \in 0..sizeLimit |->
                      IF k \in from..(from + n - 1) THEN keys[k - from + 1]
                      ELSE IF k = from + n /\ (b \/ n > 0) THEN NUL
                      ELSE text[k]]
    BY <2>2 DEF UpdateText, Terminates
  <2> HIDE DEF sel, b, from
  <2>9. from = AfterBack(b)
    BY DEF from
  <2>10. Result(b, sel, keys, from, n)
    BY <2>7, <2>8, <2>9, Zenon DEF Result
  <2> QED
    BY <2>3, <2>4, <2>5, <2>10
<1> QED
  BY <1>1, <1>2

\* The cleared buffer is an empty string.
LEMMA InitInv == Init => IInv
<1> SUFFICES ASSUME Init PROVE IInv
  OBVIOUS
<1>1. text \in [0..sizeLimit -> Chars \cup {NUL}]
  <2>1. NUL \in Chars \cup {NUL}
    OBVIOUS
  <2> QED
    BY <2>1 DEF Init
<1>2. currentChar \in 0..sizeLimit
  BY DEF Init
<1>5. selected \in BOOLEAN
  BY DEF Init
<1>3. text[currentChar] = NUL
  BY <1>2 DEF Init
<1>4. \A k \in 0..(currentChar - 1) : text[k] # NUL
  BY DEF Init
<1> QED
  BY <1>1, <1>2, <1>3, <1>4, <1>5 DEF IInv, TextBoxTypeOK, Terminated

\* updateText keeps the string terminated within the buffer.
LEMMA NextInv == IInv /\ [Next]_vars => IInv'
<1> SUFFICES ASSUME IInv, [Next]_vars PROVE IInv'
  OBVIOUS
<1>1. CASE UNCHANGED vars
  BY <1>1 DEF vars, IInv, TextBoxTypeOK, Terminated
<1>2. ASSUME NEW b \in BOOLEAN, NEW sel \in BOOLEAN, NEW keys \in Seq(Chars \cup Odd),
             NEW from \in 0..sizeLimit, NEW n \in 0..Len(keys),
             Result(b, sel, keys, from, n)
      PROVE  IInv'
  <2>1. currentChar' \in 0..sizeLimit /\ selected' \in BOOLEAN
    BY <1>2 DEF Result
  <2>2. text' \in [0..sizeLimit -> Chars \cup {NUL}]
    <3>1. \A k \in 0..sizeLimit : text[k] \in Chars \cup {NUL}
      BY DEF IInv, TextBoxTypeOK
    <3>2. \A k \in from..(from + n - 1) : keys[k - from + 1] \in Chars
      BY <1>2 DEF Result
    <3> QED
      BY <1>2, <3>1, <3>2 DEF Result
  <2>3. text'[currentChar'] = NUL
    <3>1. CASE b \/ n > 0
      BY <1>2, <2>1, <3>1 DEF Result
    <3>2. CASE ~b /\ n = 0
      BY <1>2, <2>1, <3>2 DEF Result, AfterBack, IInv, TextBoxTypeOK, Terminated
    <3> QED
      BY <3>1, <3>2
  <2>4. ASSUME NEW k \in 0..(currentChar' - 1) PROVE text'[k] # NUL
    <3>1. CASE k < from
      <4>1. text[k] # NUL
        BY <1>2, <2>4, <3>1 DEF Result, AfterBack, IInv, TextBoxTypeOK, Terminated
      <4> QED
        BY <1>2, <2>4, <3>1, <4>1 DEF Result
    <3>2. CASE k >= from
      <4>1. keys[k - from + 1] \in Chars /\ k \in from..(from + n - 1)
        BY <1>2, <2>4, <3>2 DEF Result
      <4>2. text'[k] = keys[k - from + 1]
        BY <1>2, <4>1 DEF Result
      <4> QED
        BY <4>1, <4>2
    <3> QED
      BY <3>1, <3>2
  <2> QED
    BY <2>1, <2>2, <2>3, <2>4 DEF IInv, TextBoxTypeOK, Terminated
<1> QED
  BY <1>1, <1>2, Step

\* The buffer is never written beyond its end, and getText returns what
\* currentChar counts, for every sizeLimit (updateText in textBox.hpp).
THEOREM TextTerminated == Spec => [](TextBoxTypeOK /\ Terminated)
<1>1. Init => IInv
  BY InitInv
<1>2. IInv /\ [Next]_vars => IInv'
  BY NextInv
<1> QED
  BY <1>1, <1>2, PTL DEF Spec, IInv

-----------------------------------------------------------------------------
\* A new box is an empty field.
LEMMA FieldInit == Init => Field!Init
  BY DEF Init, Field!Init, GetText

\* Every call of updateText is an edit at the end of the text.
LEMMA FieldStep == IInv /\ IInv' /\ [Next]_vars => [Field!Next]_GetText
<1> SUFFICES ASSUME IInv, IInv', [Next]_vars PROVE [Field!Next]_GetText
  OBVIOUS
<1>1. CASE UNCHANGED vars
  BY <1>1 DEF vars, GetText
<1>2. ASSUME NEW b \in BOOLEAN, NEW sel \in BOOLEAN, NEW keys \in Seq(Chars \cup Odd),
             NEW from \in 0..sizeLimit, NEW n \in 0..Len(keys),
             Result(b, sel, keys, from, n)
      PROVE  Field!Next
  <2> DEFINE c == GetText
             d == GetText'
  <2>1. c \in Seq(Chars) /\ Len(c) = currentChar /\ \A k \in 1..currentChar : c[k] = text[k - 1]
    <3>1. \A k \in 1..currentChar : text[k - 1] \in Chars
      BY DEF IInv, TextBoxTypeOK, Terminated
    <3>2. currentChar \in Nat
      BY DEF IInv, TextBoxTypeOK
    <3> QED
      BY <3>1, <3>2 DEF GetText
  <2>2. /\ d \in Seq(Chars)
        /\ Len(d) = currentChar'
        /\ \A k \in 1..currentChar' : d[k] = text'[k - 1]
    <3>2. currentChar' \in 0..sizeLimit /\ text' \in [0..sizeLimit -> Chars \cup {NUL}]
      BY DEF IInv, TextBoxTypeOK
    <3>3. \A k \in 0..(currentChar' - 1) : text'[k] # NUL
      BY DEF IInv, Terminated
    <3>1. ASSUME NEW k \in 1..currentChar' PROVE text'[k - 1] \in Chars
      <4>1. k - 1 \in 0..sizeLimit /\ k - 1 \in 0..(currentChar' - 1)
        BY <3>2
      <4> QED
        BY <3>2, <3>3, <4>1
    <3> QED
      BY <3>1, <3>2 DEF GetText
  <2>3. currentChar \in 0..sizeLimit
    BY DEF IInv, TextBoxTypeOK
  <2> HIDE DEF c, d
  <2>4. \A k \in 1..from : k \in 1..currentChar /\ d[k] = c[k]
    <3> SUFFICES ASSUME NEW k \in 1..from PROVE k \in 1..currentChar /\ d[k] = c[k]
      OBVIOUS
    <3>1. k \in 1..currentChar
      BY <1>2, <2>3 DEF Result, AfterBack
    <3>2. text'[k - 1] = text[k - 1]
      BY <1>2 DEF Result
    <3>3. k \in 1..currentChar'
      BY <1>2 DEF Result
    <3> QED
      BY <2>1, <2>2, <3>1, <3>2, <3>3
  <2> DEFINE kept == IF b /\ c # <<>> THEN SubSeq(c, 1, Len(c) - 1) ELSE c
  <2>5. kept = SubSeq(c, 1, from) /\ Len(kept) = from
    <3>1. CASE b /\ currentChar > 0
      <4>1. c # <<>> /\ from = Len(c) - 1
        BY <1>2, <2>1, <2>3, <3>1 DEF Result, AfterBack
      <4> QED
        BY <2>1, <4>1, <3>1
    <3>2. CASE ~(b /\ currentChar > 0)
      <4>1. from = Len(c) /\ kept = c
        BY <1>2, <2>1, <2>3, <3>2 DEF Result, AfterBack
      <4> QED
        BY <2>1, <4>1
    <3> QED
      BY <3>1, <3>2
  <2> HIDE DEF kept
  <2>6. SubSeq(d, 1, from) = SubSeq(c, 1, from)
    <3>1. from <= Len(c) /\ from <= Len(d)
      BY <1>2, <2>1, <2>2, <2>3 DEF Result, AfterBack
    <3> QED
      BY <2>1, <2>2, <2>4, <3>1
  <2>7. Len(d) \in Len(kept)..sizeLimit
    BY <1>2, <2>2, <2>5 DEF Result
  <2>8. Field!Kept(b) = kept
    BY DEF Field!Kept, kept, c
  <2>9. Field!Edit(b)
    BY <2>2, <2>5, <2>6, <2>7, <2>8 DEF Field!Edit, d
  <2> QED
    BY <2>9 DEF Field!Next
<1> QED
  BY <1>1, <1>2, Step

\* The text box implements the text field: its text changes at the end only,
\* by one character taken away and characters added, and stays within the limit.
THEOREM ImplementsField == Spec => FieldSpec
<1>1. Init => Field!Init
  BY FieldInit
<1>2. IInv /\ IInv' /\ [Next]_vars => [Field!Next]_GetText
  BY FieldStep
<1>3. Spec => []IInv
  BY TextTerminated DEF IInv
<1> QED
  BY <1>1, <1>2, <1>3, PTL DEF Spec, FieldSpec, Field!Spec
=============================================================================
