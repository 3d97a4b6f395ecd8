---------------------------- MODULE AttemptedRun ----------------------------
(***************************************************************************)
(* What becomes of a strategy run from the moment its entry order is        *)
(* attempted, without workers, calls, chains or recovery: the run moves on  *)
(* by the transition table and never back to screening; the order may       *)
(* reach the broker at any time until the run is finished, also after its   *)
(* caller gave up; and the run is finished only when the order did reach    *)
(* it.  OrderLifecycle implements this in detail and EntryGate, date by     *)
(* date, in the coarse: it is the interface at which the two meet.          *)
(***************************************************************************)
EXTENDS Lifecycle

VARIABLES
  run,      \* strategy_runs.state
  placed    \* the broker has taken the order and the run is not finished

vars == <<run, placed>>

\* Where the handling of an attempted order may take its run.
Unfinished == WorkingEntryStates \cup ExitStates \cup {"POSITION_OPEN", "RISK_OFF"}

Init == run = "SUBMITTING" /\ placed = FALSE

Reach ==
  /\ run \in Unfinished
  /\ placed' = TRUE /\ UNCHANGED run

Move ==
  /\ \E s \in Unfinished : StrategyStep(run, s) /\ run' = s
  /\ UNCHANGED placed

\* FLAT or NO_TRADE, on the broker's word about an order it has had.
Finish ==
  /\ placed
  /\ \E s \in TERMINAL_STRATEGY_STATES : StrategyStep(run, s) /\ run' = s
  /\ placed' = FALSE

\* The kill switch: out of the table, from every unfinished state.
RiskOff ==
  /\ run \in Unfinished
  /\ run' = "RISK_OFF" /\ UNCHANGED placed

Next == Reach \/ Move \/ Finish \/ RiskOff

Spec == Init /\ [][Next]_vars
=============================================================================
