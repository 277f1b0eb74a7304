----------------------------- MODULE MC_TaskDeps -----------------------------
(* Titles and mentions for TLC.  "b" is no title: it is found in "ab" only.   *)
(* The text of every other ID has the title "a" in it.                       *)
EXTENDS TaskDeps

A == <<"a">>
B == <<"b">>
AB == <<"a", "b">>

TwoTitles == {A, AB}
ThreeMentions == {A, B, AB}
HexTexts == [n \in 1..6 |-> IF n % 2 = 0 THEN <<"3">> ELSE <<"3", "a">>]
=============================================================================
