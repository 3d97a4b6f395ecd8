---------------------------- MODULE EventConfig ----------------------------
(***************************************************************************)
(* What config/events.yaml fixes and events.py loads.  Days and moments    *)
(* are numbers: days of September 2026, minutes after midnight in New      *)
(* York.                                                                   *)
(***************************************************************************)
EXTENDS Integers

CONSTANTS
  EVENT_DAYS,         \* days with a verified event
  TRADE_EXPIRATION,   \* the day the options traded expire
  TERM_EXPIRATION,    \* the later expiration their volatility is compared with
  ENTRY_START, STOP_NEW_ORDERS, CANCEL_ALL_UNFILLED   \* entry_window

ASSUME EventConfigTypes ==
  /\ EVENT_DAYS \subseteq Nat /\ TRADE_EXPIRATION \in Nat /\ TERM_EXPIRATION \in Nat
  /\ {ENTRY_START, STOP_NEW_ORDERS, CANCEL_ALL_UNFILLED} \subseteq Nat

\* The file's window is ordered; nothing in EntryWindow checks it.
ASSUME EntryWindowOrdered ==
  ENTRY_START <= STOP_NEW_ORDERS /\ STOP_NEW_ORDERS < CANCEL_ALL_UNFILLED
=============================================================================
