----------------------------- MODULE Schedule -----------------------------
(***************************************************************************)
(* What a worker cycle is to do at a moment of a trading day (schedule.py  *)
(* action_for_time).                                                       *)
(***************************************************************************)
EXTENDS EventConfig

\* SEP3_INTRADAY_CANARY_SESSION
CONSTANTS CANARY_DATE, CANARY_START, CANARY_STOP, CANARY_CANCEL, CANARY_EXIT

ASSUME SessionTypes ==
  CANARY_DATE \in Nat /\ {CANARY_START, CANARY_STOP, CANARY_CANCEL, CANARY_EXIT} \subseteq Nat

\* IntradaySession.__post_init__
ASSUME SessionOrdered ==
  CANARY_START <= CANARY_STOP /\ CANARY_STOP < CANARY_CANCEL /\ CANARY_CANCEL < CANARY_EXIT

NoDate == 0     \* open_trade_date is None
ScheduleActions ==
  {"observe", "entry_scan", "cancel_unfilled", "exit", "final_snapshot", "idle"}

NINE_THIRTY      == 9 * 60 + 30
NINE_FORTY_FIVE  == 9 * 60 + 45

\* Mutant: the exit is looked for before the working entry.
OvernightAction_ExitFirst(clock, working) ==
  IF clock >= NINE_FORTY_FIVE THEN "exit"
  ELSE IF working THEN "cancel_unfilled" ELSE "observe"

\* The day after the trade day, whatever the profile.
OvernightAction(clock, working) ==
  IF working THEN "cancel_unfilled"
  ELSE IF clock >= NINE_FORTY_FIVE THEN "exit" ELSE "observe"

InCanaryWindow(clock) == CANARY_START <= clock /\ clock <= CANARY_STOP

CanaryDayAction(clock, open, working) ==
  IF working
    THEN IF clock >= CANARY_CANCEL THEN "cancel_unfilled"
         ELSE IF InCanaryWindow(clock) THEN "entry_scan" ELSE "observe"
  ELSE IF open = CANARY_DATE
    THEN IF clock >= CANARY_EXIT THEN "exit" ELSE "observe"
  ELSE IF InCanaryWindow(clock) THEN "entry_scan" ELSE "observe"

\* Neither an overnight position nor a day of the profile.
OtherDayAction(day, clock) ==
  IF day = TRADE_EXPIRATION /\ clock >= NINE_THIRTY THEN "final_snapshot" ELSE "idle"

CanaryAction(day, clock, open, working) ==
  IF day = CANARY_DATE THEN CanaryDayAction(clock, open, working)
  ELSE IF working /\ day > CANARY_DATE THEN "cancel_unfilled"
  ELSE OtherDayAction(day, clock)

EarningsAction(day, clock, working) ==
  IF day \in EVENT_DAYS /\ ENTRY_START <= clock /\ clock <= STOP_NEW_ORDERS
    THEN "entry_scan"
  ELSE IF day \in EVENT_DAYS /\ working /\ clock >= CANCEL_ALL_UNFILLED
    THEN "cancel_unfilled"
  ELSE IF day = TRADE_EXPIRATION /\ clock >= NINE_THIRTY
    THEN "final_snapshot"
  ELSE IF day \in EVENT_DAYS THEN "observe" ELSE "idle"

action_for_time(day, clock, open, working, profile) ==
  IF open # NoDate /\ day > open THEN OvernightAction(clock, working)
  ELSE IF profile = "canary" THEN CanaryAction(day, clock, open, working)
  ELSE EarningsAction(day, clock, working)
=============================================================================
