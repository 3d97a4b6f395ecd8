----------------------------- MODULE Lifecycle -----------------------------
(* The two durable state machines of storage.py: the strategy run and the   *)
(* order chain.  Every write of a state goes through                         *)
(* transition_strategy_run / transition_order_chain, which treat a request   *)
(* for the current state as a no-op and refuse what the tables do not allow. *)

PreDispatchStates == {"DISCOVERING", "SCREENING", "AI_REVIEW", "POLICY_CHECK"}
WorkingEntryStates == {"SUBMITTING", "ORDER_PENDING", "CANCEL_PENDING"}
ExitStates == {"EXIT_SUBMITTING", "EXIT_PENDING"}
TERMINAL_STRATEGY_STATES == {"FLAT", "NO_TRADE"}

STRATEGY_STATES ==
    PreDispatchStates \cup WorkingEntryStates \cup ExitStates
        \cup TERMINAL_STRATEGY_STATES \cup {"POSITION_OPEN", "RISK_OFF", "ERROR"}

STRATEGY_TRANSITIONS ==
    [ DISCOVERING     |-> {"SCREENING", "NO_TRADE", "RISK_OFF", "ERROR"},
      SCREENING       |-> {"AI_REVIEW", "NO_TRADE", "RISK_OFF", "ERROR"},
      AI_REVIEW       |-> {"POLICY_CHECK", "SCREENING", "NO_TRADE", "RISK_OFF", "ERROR"},
      POLICY_CHECK    |-> {"SUBMITTING", "SCREENING", "NO_TRADE", "RISK_OFF", "ERROR"},
      SUBMITTING      |-> {"ORDER_PENDING", "POSITION_OPEN", "CANCEL_PENDING",
                           "RISK_OFF", "NO_TRADE", "ERROR"},
      ORDER_PENDING   |-> {"POSITION_OPEN", "CANCEL_PENDING", "RISK_OFF", "ERROR"},
      CANCEL_PENDING  |-> {"SCREENING", "POSITION_OPEN", "NO_TRADE", "RISK_OFF", "ERROR"},
      POSITION_OPEN   |-> {"EXIT_SUBMITTING", "RISK_OFF", "FLAT", "ERROR"},
      EXIT_SUBMITTING |-> {"EXIT_PENDING", "FLAT", "RISK_OFF", "ERROR"},
      EXIT_PENDING    |-> {"FLAT", "RISK_OFF", "ERROR"},
      RISK_OFF        |-> {"EXIT_SUBMITTING", "EXIT_PENDING", "FLAT", "ERROR"},
      ERROR           |-> {"RISK_OFF", "NO_TRADE"},
      FLAT            |-> {},
      NO_TRADE        |-> {} ]

\* Mutant: the table lacks AI_REVIEW -> NO_TRADE and -> SCREENING.
StrategyStep_ReviewIsKept(from, to) ==
    \/ from = to
    \/ /\ to \in STRATEGY_TRANSITIONS[from]
       /\ ~(from = "AI_REVIEW" /\ to \in {"NO_TRADE", "SCREENING"})

\* What transition_strategy_run accepts (the kill-switch guard on SUBMITTING
\* is stated where that transition is taken).
StrategyStep(from, to) == from = to \/ to \in STRATEGY_TRANSITIONS[from]

TerminalChainStates == {"CANCELED", "FILLED", "REJECTED", "EXPIRED"}
WORKING_CHAIN_STATES ==
    {"PLANNED", "SUBMITTING", "UNKNOWN", "PENDING", "PARTIALLY_FILLED",
     "CANCEL_PENDING", "REPLACEMENT_PENDING", "ERROR"}
ORDER_CHAIN_STATES == WORKING_CHAIN_STATES \cup TerminalChainStates

BrokerOutcomes == {"PARTIALLY_FILLED", "ERROR"} \cup TerminalChainStates

ORDER_CHAIN_TRANSITIONS ==
    [ PLANNED             |-> {"SUBMITTING", "ERROR"},
      SUBMITTING          |-> BrokerOutcomes \cup {"UNKNOWN", "PENDING", "CANCEL_PENDING"},
      UNKNOWN             |-> BrokerOutcomes \cup {"PENDING", "CANCEL_PENDING"},
      PENDING             |-> BrokerOutcomes \cup {"CANCEL_PENDING", "REPLACEMENT_PENDING"},
      PARTIALLY_FILLED    |-> (BrokerOutcomes \ {"PARTIALLY_FILLED"})
                                  \cup {"CANCEL_PENDING", "REPLACEMENT_PENDING"},
      CANCEL_PENDING      |-> BrokerOutcomes,
      REPLACEMENT_PENDING |-> BrokerOutcomes \cup {"SUBMITTING", "UNKNOWN", "PENDING"},
      ERROR               |-> {"UNKNOWN", "CANCEL_PENDING", "REPLACEMENT_PENDING"},
      CANCELED            |-> {},
      FILLED              |-> {},
      REJECTED            |-> {},
      EXPIRED             |-> {} ]

\* What transition_order_chain accepts.
ChainStep(from, to) == from = to \/ to \in ORDER_CHAIN_TRANSITIONS[from]
=============================================================================
