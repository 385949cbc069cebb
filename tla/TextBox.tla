------------------------------ MODULE TextBox -------------------------------
(***************************************************************************)
(* A text box: a C string in a buffer of sizeLimit + 1 characters, written *)
(* by updateText in every frame in which the box is drawn, from what the   *)
(* keyboard and the mouse did since the last one.                          *)
(***************************************************************************)
EXTENDS Integers, Sequences

CONSTANTS
    Chars,          \* printable characters below 123, the ones that are accepted
    Odd,            \* other characters that GetCharPressed may return
    sizeLimit,
    MaxKeys         \* bound: characters typed between two frames

NUL == "NUL"

ASSUME SizeLimitAssumption == sizeLimit \in Nat
ASSUME MaxKeysAssumption == MaxKeys \in Nat
ASSUME CharsAssumption == NUL \notin Chars /\ Chars \cap Odd = {}

VARIABLES text, currentChar, selected

vars == <<text, currentChar, selected>>

\* The constructor: calloc clears the buffer.
Init ==
    /\ text = [k \in 0..sizeLimit |-> NUL]
    /\ currentChar = 0
    /\ selected = FALSE

\* A click selects the box it hits and takes the selection from any other.
Selected(click, hovering) == IF click THEN hovering ELSE selected

\* Backspace.
AfterBack(back) == IF back /\ currentChar > 0 THEN currentChar - 1 ELSE currentChar

\* The while loop takes n characters: it ends at the first that is not
\* accepted, when the box is full, and when there are no more.
MutantTakes(keys, from, n) ==
    /\ \A j \in 1..n : keys[j] \in Chars
    /\ from + n <= sizeLimit + 1
    /\ (n < Len(keys) /\ from + n < sizeLimit + 1) => keys[n + 1] \notin Chars
Takes(keys, from, n) ==
    /\ \A j \in 1..n : keys[j] \in Chars
    /\ from + n <= sizeLimit
    /\ (n < Len(keys) /\ from + n < sizeLimit) => keys[n + 1] \notin Chars

\* Backspace and every character taken put a NUL behind the text.
MutantTerminates(back, n) == n > 0
Terminates(back, n) == back \/ n > 0

\* updateText.
UpdateText(click, hovering, back, keys, n) ==
    LET sel == Selected(click, hovering)
        b == sel /\ back
        from == AfterBack(b)
    IN  /\ IF sel THEN Takes(keys, from, n) ELSE n = 0
        /\ selected' = sel
        /\ currentChar' = from + n
        /\ text' = [k \in 0..sizeLimit |->
                       IF k \in from..(from + n - 1) THEN keys[k - from + 1]
                       ELSE IF k = from + n /\ Terminates(b, n) THEN NUL
                       ELSE text[k]]

Keys == UNION {[1..n -> Chars \cup Odd] : n \in 0..MaxKeys}

Next ==
    \E click, hovering, back \in BOOLEAN, keys \in Keys :
        \E n \in 0..Len(keys) : UpdateText(click, hovering, back, keys, n)

Spec == Init /\ [][Next]_vars

-----------------------------------------------------------------------------
(* Properties.                                                             *)

TextBoxTypeOK ==
    /\ text \in [0..sizeLimit -> Chars \cup {NUL}]
    /\ currentChar \in 0..sizeLimit
    /\ selected \in BOOLEAN

\* The buffer holds a C string that ends within it, and currentChar is its
\* length: what getText returns is what was typed, at every limit.
Terminated ==
    /\ text[currentChar] = NUL
    /\ \A k \in 0..(currentChar - 1) : text[k] # NUL

\* getText.
GetText == [k \in 1..currentChar |-> text[k - 1]]

Field == INSTANCE TextField WITH content <- GetText, Limit <- sizeLimit

\* The text box is a text field.
FieldSpec == Field!Spec
=============================================================================
