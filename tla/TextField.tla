----------------------------- MODULE TextField ------------------------------
(***************************************************************************)
(* What a text box promises: a text of at most Limit printable characters  *)
(* that changes only at its end, by at most one character taken away and   *)
(* any number added.                                                       *)
(***************************************************************************)
EXTENDS Integers, Sequences

CONSTANTS Chars, Limit

VARIABLE content

Init == content = <<>>

\* What is left after backspace, if it was pressed.
Kept(back) ==
    IF back /\ content # <<>> THEN SubSeq(content, 1, Len(content) - 1) ELSE content

Edit(back) ==
    /\ content' \in Seq(Chars)
    /\ Len(content') \in Len(Kept(back))..Limit
    /\ SubSeq(content', 1, Len(Kept(back))) = Kept(back)

Next == \E back \in BOOLEAN : Edit(back)

Spec == Init /\ [][Next]_content
=============================================================================
