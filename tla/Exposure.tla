----------------------------- MODULE Exposure -----------------------------
(***************************************************************************)
(* What one strategy run promises the account, without chains, attempts,   *)
(* crashes or lost answers: at most one order is worked at a time, an      *)
(* entry only before there has been a position and an exit only against    *)
(* one, and a run is booked as finished once, when nothing is left, after  *)
(* which nothing moves any more.  OrderLifecycle implements it.            *)
(***************************************************************************)
VARIABLES
  working,    \* the order the broker works: "none", "entry" or "exit"
  position,   \* "never", "held" or "closed"
  booked      \* the recorded end of the run: "none", "NO_TRADE" or "FLAT"

vars == <<working, position, booked>>

Init == working = "none" /\ position = "never" /\ booked = "none"

Live == booked = "none"

WorkEntry ==
  /\ Live /\ working = "none" /\ position = "never"
  /\ working' = "entry" /\ UNCHANGED <<position, booked>>

WorkExit ==
  /\ Live /\ working = "none" /\ position = "held"
  /\ working' = "exit" /\ UNCHANGED <<position, booked>>

\* Canceled, rejected or expired without a fill.
End ==
  /\ Live /\ working # "none"
  /\ working' = "none" /\ UNCHANGED <<position, booked>>

Fill ==
  /\ Live /\ working # "none"
  /\ position' = IF working = "entry" THEN "held" ELSE "closed"
  /\ working' = "none" /\ UNCHANGED booked

\* NO_TRADE says that there never was a position.
Book ==
  /\ Live /\ working = "none" /\ position # "held"
  /\ booked' \in IF position = "never" THEN {"NO_TRADE", "FLAT"} ELSE {"FLAT"}
  /\ UNCHANGED <<working, position>>

Next == WorkEntry \/ WorkExit \/ End \/ Fill \/ Book

Spec == Init /\ [][Next]_vars
=============================================================================
