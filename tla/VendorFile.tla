------------------------------ MODULE VendorFile ------------------------------
(***************************************************************************)
(* What the import of one file is to whoever follows it (GET               *)
(* /api/v1/imports, its errors, and the catalogue): it is registered; its  *)
(* lines come to account and none is taken back; an end is reported once,  *)
(* when no line is left, and nothing follows it.  A line is accounted for  *)
(* as a row, as a recorded rejection, or behind as many as are recorded.   *)
(***************************************************************************)
CONSTANTS FileLines, Rejected

VARIABLES accounted,   \* the lines dealt with
          status       \* of the job; none before there is one

Init == accounted = {} /\ status = "none"

Register ==
  /\ status = "none"
  /\ status' = "processing"
  /\ UNCHANGED accounted

Account ==
  /\ status = "processing"
  /\ accounted \subseteq accounted' /\ accounted' \subseteq FileLines
  /\ UNCHANGED status

(* Rejected lines are "an operator's to-do list, not a reason to discard"  *)
(* the others: they make the outcome partial, never failed.                *)
Finish ==
  /\ status = "processing" /\ accounted = FileLines
  /\ status' = IF Rejected = {} THEN "completed" ELSE "partial"
  /\ UNCHANGED accounted

Next == Register \/ Account \/ Finish
Spec == Init /\ [][Next]_<<accounted, status>>
===============================================================================
