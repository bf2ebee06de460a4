------------------------------- MODULE LineFeed -------------------------------
(***************************************************************************)
(* What splitting a file by byte offset promises (csv.ts): "Every line is  *)
(* processed exactly once, by exactly one worker".                         *)
(***************************************************************************)
VARIABLES lines,   \* the lines of the file
          given    \* each line taken, with the reader that took it

Init == given = {}

Give(g) ==
  /\ g.line \in lines
  /\ \A h \in given : h.line # g.line
  /\ given' = given \cup {g}
  /\ UNCHANGED lines

Next == \E g \in given' : Give(g)
Spec == Init /\ [][Next]_<<lines, given>>

AllGiven == <>[](\A l \in lines : \E g \in given : g.line = l)
===============================================================================
