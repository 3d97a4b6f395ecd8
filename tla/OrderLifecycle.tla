--------------------------- MODULE OrderLifecycle ---------------------------
(* One strategy run from its durable SUBMITTING commit to FLAT or NO_TRADE:  *)
(* the entry order, its repricing and cancellation, the mandatory exit with   *)
(* its retries, and the recovery of each after an ambiguous answer, a crash   *)
(* between two database commits, or a kill switch thrown at any moment.       *)
(*                                                                            *)
(* Chain 0 is the entry chain, chains 1..MaxExits are the exit chains; order  *)
(* <<c, s>> is attempt number s of chain c, under its own client order ID.    *)
(* The worker is one sequential process (the lease keeps it alone); the       *)
(* database commits, broker reads and broker calls of a cycle are its steps.  *)
EXTENDS Integers, FiniteSets, Sequences, Lifecycle

CONSTANTS
    MaxExits,    \* MAX_EXIT_ORDER_CHAINS
    MaxSeq,      \* replacements per chain explored
    MaxKills,    \* operator or broker-event activations of the kill switch
    MaxCrashes,  \* process deaths between two steps
    MaxFaults    \* lost or late requests, lost answers, failed reads

ASSUME LifecycleConstants ==
    /\ MaxExits \in Nat \ {0}
    /\ {MaxSeq, MaxKills, MaxCrashes, MaxFaults} \subseteq Nat

Chains == 0..MaxExits
ExitChains == 1..MaxExits
OrderIds == Chains \X (0..MaxSeq)

VARIABLES
    run, kill,      \* strategy_runs.state, runtime_controls.kill_switch_enabled
    chain,          \* order_chains.state per chain ("NONE": no row)
    exits,          \* number of exit order_intents rows
    attempts,       \* number of order_attempts rows per chain
    bound,          \* attempts whose broker_order_id is known
    order,          \* the broker's orders: "absent", "open", "filled", "zero", "replaced"
    net,            \* requests that may still reach the broker
    fills, shown,   \* fills so far; how many of them the positions API reflects
    phase,          \* "entry", "cancel", "closed", "exit": the trading calendar
    w,              \* the worker's place in its cycle and its local values
    kills, crashes, faults

durable == <<run, kill, chain, exits, attempts, bound>>
broker  == <<order, net, fills, shown>>
bounds  == <<kills, crashes, faults>>
vars    == <<durable, broker, phase, w, bounds>>

-----------------------------------------------------------------------------
(* Views of the state.                                                       *)

Attempted(c) == attempts[c] > 0
Latest(c) == <<c, attempts[c] - 1>>
Persisted(id) == id[2] < attempts[id[1]]
OpenOrders == {id \in OrderIds : order[id] = "open"}
PositionShown == shown % 2 = 1
\* Mutant: "replaced" is taken for a terminal status without a fill.
Seen_ReplacedIsZero(id) == IF order[id] = "replaced" THEN "zero" ELSE order[id]

\* The broker's status as the code classifies it: "replaced" is neither filled
\* nor in TERMINAL_ZERO_FILL_STATUSES.
Seen(id) == IF order[id] = "replaced" THEN "open" ELSE order[id]
ExitRows == {c \in ExitChains : chain[c] # "NONE"}
\* list_order_chains(purpose="exit")[-1], 0 when there is none.
LastExit == IF ExitRows = {} THEN 0 ELSE CHOOSE c \in ExitRows : \A d \in ExitRows : d <= c

Idle == [pc |-> "idle", act |-> "entry", st |-> "NO_TRADE", ec |-> "NONE",
         ords |-> {}, pos |-> FALSE, ef |-> FALSE, c |-> 0, how |-> "order",
         res |-> "absent", again |-> FALSE, err |-> "raise", todo |-> <<>>,
         ret |-> "idle"]

Init ==
    /\ run = "SUBMITTING" /\ kill = FALSE
    /\ chain = [c \in Chains |-> IF c = 0 THEN "SUBMITTING" ELSE "NONE"]
    /\ exits = 0
    /\ attempts = [c \in Chains |-> IF c = 0 THEN 1 ELSE 0]
    /\ bound = {}
    /\ order = [id \in OrderIds |-> "absent"]
    /\ net = {} /\ fills = 0 /\ shown = 0
    /\ phase = "entry"
    /\ w = [Idle EXCEPT !.pc = "place", !.again = TRUE, !.err = "kill"]
    /\ kills = 0 /\ crashes = 0 /\ faults = 0

At(l) == w.pc = l
Goto(l) == w' = [w EXCEPT !.pc = l]
End == w' = Idle
\* An exception: submit_entry and resume_entry_submission look the order up
\* once more, the caller of submit_entry throws the kill switch, and everything
\* else abandons the cycle (run_worker restarts the loop).
Fail == w' = IF w.again THEN [w EXCEPT !.pc = "relook", !.again = FALSE]
             ELSE IF w.err = "kill" THEN [w EXCEPT !.pc = "kill"] ELSE Idle
\* Continue after an applied order.
Return == w' = IF w.ret = "idle" THEN Idle ELSE [w EXCEPT !.pc = w.ret]

SetRun(s) == run' = s /\ UNCHANGED <<kill, chain, exits, attempts, bound>>
SetChain(c, s) == chain' = [chain EXCEPT ![c] = s]
                  /\ UNCHANGED <<run, kill, exits, attempts, bound>>
Fault == faults < MaxFaults /\ faults' = faults + 1
NoFault == UNCHANGED faults

-----------------------------------------------------------------------------
(* The cycle: snapshot, then _reconcile_active.                              *)

\* find_active_strategy_run; this state is the one _reconcile_active starts
\* from, although the snapshot is awaited in between.
BeginCycle ==
    /\ At("idle") /\ run \notin TERMINAL_STRATEGY_STATES
    /\ w' = [w EXCEPT !.pc = "orders", !.act = phase, !.st = run]
    /\ UNCHANGED <<durable, broker, phase, bounds>>

ReadOrders ==
    /\ At("orders")
    /\ w' = [w EXCEPT !.pc = "positions", !.ords = OpenOrders]
    /\ UNCHANGED <<durable, broker, phase, bounds>>

ReadPositions ==
    /\ At("positions")
    /\ w' = [w EXCEPT !.pc = "activities", !.pos = PositionShown]
    /\ UNCHANGED <<durable, broker, phase, bounds>>

\* reconcile_account_activities: an assignment or exercise throws the switch and
\* re-reads the run.
CheckActivities ==
    /\ At("activities")
    /\ \/ /\ Goto("recEntry")
          /\ UNCHANGED <<durable, kills>>
       \/ /\ kills < MaxKills /\ kills' = kills + 1
          /\ kill' = TRUE
          /\ run' = "RISK_OFF"
          /\ w' = [w EXCEPT !.pc = "recEntry", !.st = "RISK_OFF"]
          /\ UNCHANGED <<chain, exits, attempts, bound>>
    /\ UNCHANGED <<broker, phase, crashes, faults>>

\* _lookup_by_client_id: any failed read is reported as "no such order".
LookedUp(id, r) ==
    \/ r = Seen(id) /\ NoFault
    \/ r = "absent" /\ Seen(id) # "absent" /\ Fault

EntryStates == WorkingEntryStates \cup {"RISK_OFF"}

ReconcileEntry ==
    /\ At("recEntry")
    /\ LET look == w.st \in EntryStates
           seen == [w EXCEPT !.ec = IF look THEN chain[0] ELSE "NONE", !.c = 0]
       IN IF look /\ chain[0] \notin TerminalChainStates
            THEN \E r \in {"absent", "open", "filled", "zero"} :
                    /\ LookedUp(Latest(0), r)
                    /\ w' = IF r = "absent"
                              THEN [seen EXCEPT !.pc = "recTerm", !.st = run]
                              ELSE [seen EXCEPT !.pc = "bind", !.how = "order", !.res = r,
                                                !.ef = (r = "filled"), !.ret = "recEntryDone"]
            ELSE /\ w' = [seen EXCEPT !.pc = "recTerm"]
                 /\ NoFault
    /\ UNCHANGED <<durable, broker, phase, kills, crashes>>

ReconcileEntryDone ==
    /\ At("recEntryDone")
    /\ w' = [w EXCEPT !.pc = "recTerm", !.st = run]
    /\ UNCHANGED <<durable, broker, phase, bounds>>

\* A terminal entry chain found under an unfinished entry: the chain state is
\* the one read before this cycle's own reconciliation.
TerminalEntry ==
    /\ At("recTerm")
    /\ IF /\ w.st \in WorkingEntryStates
          /\ w.ec \in TerminalChainStates \ {"FILLED"}
          /\ ~w.pos /\ w.ords = {}
         THEN w' = [w EXCEPT !.pc = "run", !.st = "NO_TRADE", !.ret = "recExit", !.err = "raise",
                             !.todo = IF w.st = "ORDER_PENDING"
                                        THEN <<"CANCEL_PENDING", "NO_TRADE">> ELSE <<"NO_TRADE">>]
         ELSE Goto("recExit")
    /\ UNCHANGED <<durable, broker, phase, bounds>>

ReconcileExit ==
    /\ At("recExit")
    /\ IF w.st \in ExitStates \cup {"RISK_OFF"} /\ LastExit # 0 /\ Attempted(LastExit)
         THEN \E r \in {"absent", "open", "filled", "zero"} :
                 /\ LookedUp(Latest(LastExit), r)
                 /\ w' = IF r = "absent"
                           THEN [w EXCEPT !.pc = "recFinal", !.st = run]
                           ELSE [w EXCEPT !.pc = "bind", !.how = "order", !.res = r,
                                          !.c = LastExit, !.ret = "recExitDone"]
         ELSE /\ Goto("recFinal")
              /\ NoFault
    /\ UNCHANGED <<durable, broker, phase, kills, crashes>>

ReconcileExitDone ==
    /\ At("recExitDone")
    /\ w' = [w EXCEPT !.pc = "recFinal", !.st = run]
    /\ UNCHANGED <<durable, broker, phase, bounds>>

\* Mutant: an empty snapshot is proof enough that a filled entry was closed.
AllOrderChainsTerminal_TrustsSnapshot ==
    LET tried == {c \in Chains : Attempted(c)}
    IN tried # {} /\ \A c \in tried : chain[c] \in TerminalChainStates

\* _all_order_chains_terminal: every attempted chain is terminal, and a filled
\* entry needs a filled exit.
AllOrderChainsTerminal ==
    LET tried == {c \in Chains : Attempted(c)}
    IN /\ tried # {}
       /\ \A c \in tried : chain[c] \in TerminalChainStates
       /\ chain[0] = "FILLED" => \E c \in tried \ {0} : chain[c] = "FILLED"

\* Mutant: a position does not end a cancellation.
EntryShown_NotCanceling == w.pos /\ w.st \in WorkingEntryStates \ {"CANCEL_PENDING"}

\* The snapshot shows a position while the run still works on its entry.
EntryShown == w.pos /\ w.st \in WorkingEntryStates

ReconcilePositions ==
    /\ At("recFinal")
    /\ w' = CASE EntryShown ->
                   [w EXCEPT !.pc = "run", !.todo = <<"POSITION_OPEN">>, !.ret = "decide",
                             !.err = "raise"]
              [] /\ ~w.pos /\ w.ords = {} /\ ~w.ef
                 /\ AllOrderChainsTerminal
                 /\ w.st \in ExitStates \cup {"POSITION_OPEN", "RISK_OFF"} ->
                   [w EXCEPT !.pc = "run", !.todo = <<"FLAT">>, !.ret = "decide", !.err = "raise"]
              [] OTHER -> [w EXCEPT !.pc = "decide"]
    /\ UNCHANGED <<durable, broker, phase, bounds>>

-----------------------------------------------------------------------------
(* _manage_active.                                                           *)

\* Mutant: the cutoff takes effect only at the close.
Action_LateCutoff ==
    CASE (kill \/ run = "RISK_OFF") /\ w.pos /\ w.act # "closed" -> "EXIT"
      [] ~((kill \/ run = "RISK_OFF") /\ w.pos /\ w.act # "closed") ->
           CASE w.act = "entry" -> "ENTRY_SCAN"
             [] w.act \in {"closed", "exit"} /\ run \in WorkingEntryStates -> "CANCEL_UNFILLED"
             [] w.act = "exit" /\ run \notin WorkingEntryStates -> "EXIT"
             [] OTHER -> "OBSERVE"

\* Mutant: a cancellation already asked for is not asked for again.
Action_CancelsOnce ==
    CASE (kill \/ run = "RISK_OFF") /\ w.pos /\ w.act # "closed" -> "EXIT"
      [] ~((kill \/ run = "RISK_OFF") /\ w.pos /\ w.act # "closed") ->
           CASE w.act = "entry" -> "ENTRY_SCAN"
             [] w.act # "entry" /\ run \in WorkingEntryStates \ {"CANCEL_PENDING"} ->
                  "CANCEL_UNFILLED"
             [] w.act = "exit" /\ run \notin WorkingEntryStates -> "EXIT"
             [] OTHER -> "OBSERVE"

\* action_for_time, with the override of _cycle_locked: exposure under the kill
\* switch or RISK_OFF is exited whenever the market is open.
Action ==
    CASE (kill \/ run = "RISK_OFF") /\ w.pos /\ w.act # "closed" -> "EXIT"
      [] ~((kill \/ run = "RISK_OFF") /\ w.pos /\ w.act # "closed") ->
           CASE w.act = "entry" -> "ENTRY_SCAN"
             [] w.act # "entry" /\ run \in WorkingEntryStates -> "CANCEL_UNFILLED"
             [] w.act = "exit" /\ run \notin WorkingEntryStates -> "EXIT"
             [] OTHER -> "OBSERVE"

\* _working_chain_attempt and _attempt_is_open: the latest attempt of a working
\* chain is among the open orders of the snapshot.
AttemptIsOpen(c) ==
    chain[c] \in WORKING_CHAIN_STATES /\ Attempted(c) /\ Latest(c) \in w.ords

Manage ==
    /\ At("decide")
    /\ LET exposed == w.pos /\ w.act # "closed"
       IN w' = CASE run \in TERMINAL_STRATEGY_STATES -> Idle
                 [] run = "RISK_OFF" ->
                      CASE AttemptIsOpen(0) -> [w EXCEPT !.pc = "cancelId"]
                        [] ~AttemptIsOpen(0) /\ LastExit # 0 /\ AttemptIsOpen(LastExit) ->
                             IF exposed THEN [w EXCEPT !.pc = "reprice", !.c = LastExit] ELSE Idle
                        [] OTHER ->
                             IF w.ords = {} /\ exposed THEN [w EXCEPT !.pc = "startExit"] ELSE Idle
                 [] run \in WorkingEntryStates ->
                      CASE Action = "CANCEL_UNFILLED" -> [w EXCEPT !.pc = "cancelId"]
                        [] Action = "ENTRY_SCAN" -> [w EXCEPT !.pc = "reprice", !.c = 0]
                        [] OTHER -> Idle
                 [] run = "POSITION_OPEN" ->
                      IF Action = "EXIT" THEN [w EXCEPT !.pc = "startExit"] ELSE Idle
                 [] run \in ExitStates ->
                      IF Action = "EXIT" /\ LastExit # 0
                        THEN [w EXCEPT !.pc = "reprice", !.c = LastExit] ELSE Idle
    /\ UNCHANGED <<durable, broker, phase, bounds>>

\* activate_kill_switch(run_id=this run); ends the cycle.
ActivateKill ==
    /\ At("kill")
    /\ kill' = TRUE
    /\ run' = IF run \in TERMINAL_STRATEGY_STATES THEN run ELSE "RISK_OFF"
    /\ End
    /\ UNCHANGED <<chain, exits, attempts, bound, broker, phase, bounds>>

-----------------------------------------------------------------------------
(* Applying a broker answer: _apply_entry_order, _apply_exit_order and        *)
(* _apply_chain_order with _handle_reprice_result.                            *)

Bind ==
    /\ At("bind")
    /\ bound' = bound \cup {Latest(w.c)}
    /\ IF w.how # "replace" /\ w.c = 0 /\ w.res = "open"
          /\ "CANCEL_PENDING" \in {chain[0], run}
         THEN Return
         ELSE Goto("chain")
    /\ UNCHANGED <<run, kill, chain, exits, attempts, broker, phase, bounds>>

ChainStateOf(r) ==
    CASE r = "filled" -> "FILLED" [] r = "zero" -> "CANCELED" [] r = "open" -> "PENDING"

\* The strategy transitions that follow, from the run as read after the chain's.
\* (cancel_entry decides by the run it read before it called the broker).
RunSteps(how, c, r, s) ==
    LET off == s = "RISK_OFF"
        was_off == w.st = "RISK_OFF"
        reprice == how = "replace"
    IN CASE how = "cancel" /\ r = "zero"   -> <<IF was_off THEN "FLAT" ELSE "NO_TRADE">>
         [] how = "cancel" /\ r = "filled" -> IF was_off THEN <<>> ELSE <<"POSITION_OPEN">>
         [] how = "order" /\ off -> <<>>
         [] how = "order" /\ ~off /\ c # 0 ->
              IF r = "zero" THEN <<"RISK_OFF">> ELSE <<"EXIT_PENDING">>
         [] how = "order" /\ ~off /\ c = 0 /\ r = "open" -> <<"ORDER_PENDING">>
         [] how = "order" /\ ~off /\ c = 0 /\ r = "zero" ->
              IF s = "ORDER_PENDING" THEN <<"CANCEL_PENDING", "NO_TRADE">> ELSE <<"NO_TRADE">>
         [] how # "cancel" /\ c = 0 /\ r = "filled" /\ (reprice \/ ~off) -> <<"POSITION_OPEN">>
         [] reprice /\ r = "open" -> <<>>
         [] reprice /\ r = "zero" ->
              IF c = 0 THEN <<"CANCEL_PENDING", "NO_TRADE">> ELSE <<"RISK_OFF">>
         [] reprice /\ c # 0 /\ r = "filled" -> IF off THEN <<>> ELSE <<"EXIT_PENDING">>

ApplyChain ==
    /\ At("chain")
    /\ \/ /\ ChainStep(chain[w.c], ChainStateOf(w.res))
          /\ SetChain(w.c, ChainStateOf(w.res))
          /\ w' = [w EXCEPT !.pc = "run", !.todo = RunSteps(w.how, w.c, w.res, run)]
       \/ /\ ~ChainStep(chain[w.c], ChainStateOf(w.res))
          /\ Fail
          /\ UNCHANGED durable
    /\ UNCHANGED <<broker, phase, bounds>>

\* One transition_strategy_run of those still to be made.
ApplyRun ==
    /\ At("run")
    /\ \/ /\ w.todo = <<>>
          /\ Return
          /\ UNCHANGED durable
       \/ /\ w.todo # <<>> /\ StrategyStep(run, Head(w.todo))
          /\ SetRun(Head(w.todo))
          /\ w' = [w EXCEPT !.todo = Tail(@)]
       \/ /\ w.todo # <<>> /\ ~StrategyStep(run, Head(w.todo))
          /\ Fail
          /\ UNCHANGED durable
    /\ UNCHANGED <<broker, phase, bounds>>

-----------------------------------------------------------------------------
(* Calls and what follows them.                                              *)

\* The broker accepts a new order under an unused client order ID.  It may
\* reject it at once, and an ID it has seen is refused.
Accept(id) == order[id] = "absent"
Placed(id) == {[order EXCEPT ![id] = s] : s \in {"open", "zero"}}

\* place_option_order for the latest attempt: answered, refused, answered into
\* the void, or still under way when the caller gives up.
Place ==
    /\ At("place")
    /\ LET id == Latest(w.c)
       IN \/ /\ Accept(id) /\ phase # "closed"
             /\ order' \in Placed(id)
             /\ w' = [w EXCEPT !.pc = "bind", !.res = order'[id]]
             /\ NoFault /\ UNCHANGED net
          \/ /\ ~Accept(id) \/ phase = "closed"
             /\ Goto("relook")
             /\ NoFault /\ UNCHANGED <<order, net>>
          \/ /\ Accept(id) /\ phase # "closed" /\ Fault
             /\ order' \in Placed(id)
             /\ Goto("relook")
             /\ UNCHANGED net
          \/ /\ Fault
             /\ net' \in {net, net \cup {[kind |-> "place", id |-> id]}}
             /\ Goto("relook")
             /\ UNCHANGED order
    /\ UNCHANGED <<durable, fills, shown, phase, kills, crashes>>

Prior(id) == <<id[1], id[2] - 1>>
Replaced(id) == [order EXCEPT ![Prior(id)] = "replaced", ![id] = "open"]
Replaceable(id) == order[Prior(id)] = "open" /\ order[id] = "absent"

\* replace_order_by_id: refused unless the prior order is still open.
Replace ==
    /\ At("replace")
    /\ LET id == Latest(w.c)
       IN \/ /\ Replaceable(id) /\ phase # "closed"
             /\ order' = Replaced(id)
             /\ w' = [w EXCEPT !.pc = "bind", !.res = "open"]
             /\ NoFault /\ UNCHANGED net
          \/ /\ ~Replaceable(id) \/ phase = "closed"
             /\ Goto("relook")
             /\ NoFault /\ UNCHANGED <<order, net>>
          \/ /\ Replaceable(id) /\ phase # "closed" /\ Fault
             /\ order' = Replaced(id)
             /\ Goto("relook")
             /\ UNCHANGED net
          \/ /\ Fault
             /\ net' \in {net, net \cup {[kind |-> "replace", id |-> id]}}
             /\ Goto("relook")
             /\ UNCHANGED order
    /\ UNCHANGED <<durable, fills, shown, phase, kills, crashes>>

\* After an ambiguous call (or, for an entry, a failed application): broker
\* truth by client order ID decides.
Relook ==
    /\ At("relook")
    /\ \E r \in {"absent", "open", "filled", "zero"} :
          /\ LookedUp(Latest(w.c), r)
          /\ w' = IF r = "absent" THEN [w EXCEPT !.pc = "unknown", !.again = FALSE]
                  ELSE [w EXCEPT !.pc = "bind", !.res = r, !.again = FALSE]
    /\ UNCHANGED <<durable, broker, phase, kills, crashes>>

\* Mutant: an entry nothing is known of was never placed, and its run is over.
Unresolved_BooksNoTrade ==
    /\ At("unknown") /\ ChainStep(chain[w.c], "UNKNOWN")
    /\ SetChain(w.c, "UNKNOWN")
    /\ w' = IF w.how = "replace" THEN [w EXCEPT !.pc = "kill"]
            ELSE [w EXCEPT !.pc = "run", !.todo = <<IF w.c = 0 THEN "NO_TRADE" ELSE "RISK_OFF">>]
    /\ UNCHANGED <<broker, phase, bounds>>

\* Nothing known of it: the chain is UNKNOWN and the run goes to RISK_OFF, for
\* a replacement through the kill switch.
Unresolved ==
    /\ At("unknown")
    /\ \/ /\ ChainStep(chain[w.c], "UNKNOWN")
          /\ SetChain(w.c, "UNKNOWN")
          /\ w' = IF w.how = "replace" THEN [w EXCEPT !.pc = "kill"]
                  ELSE [w EXCEPT !.pc = "run", !.todo = <<"RISK_OFF">>]
       \/ /\ ~ChainStep(chain[w.c], "UNKNOWN")
          /\ Fail
          /\ UNCHANGED durable
    /\ UNCHANGED <<broker, phase, bounds>>

-----------------------------------------------------------------------------
(* Cancelling the entry (_cancel_active_entry, cancel_entry).                *)

\* The broker's ID of the latest attempt, or the one its replacement names.
CancelTarget == IF Latest(0) \in bound THEN Latest(0) ELSE Prior(Latest(0))

CancelRun ==
    /\ At("cancelId")
    /\ \/ /\ Latest(0) \notin bound /\ attempts[0] = 1
          /\ Goto("kill")
          /\ UNCHANGED durable
       \/ /\ Latest(0) \in bound \/ attempts[0] > 1
          /\ \/ /\ run = "RISK_OFF" \/ StrategyStep(run, "CANCEL_PENDING")
                /\ SetRun(IF run = "RISK_OFF" THEN run ELSE "CANCEL_PENDING")
                /\ w' = [w EXCEPT !.pc = "cancelChain", !.st = run]
             \/ /\ run # "RISK_OFF" /\ ~StrategyStep(run, "CANCEL_PENDING")
                /\ End
                /\ UNCHANGED durable
    /\ UNCHANGED <<broker, phase, bounds>>

CancelChain ==
    /\ At("cancelChain")
    /\ \/ /\ ChainStep(chain[0], "CANCEL_PENDING")
          /\ SetChain(0, "CANCEL_PENDING")
          /\ Goto("cancelCall")
       \/ /\ ~ChainStep(chain[0], "CANCEL_PENDING")
          /\ End
          /\ UNCHANGED durable
    /\ UNCHANGED <<broker, phase, bounds>>

\* The broker cancels at once or later; a failed call is swallowed.
CancelCall ==
    /\ At("cancelCall")
    /\ \/ /\ NoFault
          /\ \/ /\ order' = [order EXCEPT ![CancelTarget] = IF @ = "open" THEN "zero" ELSE @]
                /\ UNCHANGED net
             \/ /\ net' = net \cup {[kind |-> "cancel", id |-> CancelTarget]}
                /\ UNCHANGED order
       \/ Fault /\ UNCHANGED <<order, net>>
    /\ Goto("cancelGet")
    /\ UNCHANGED <<durable, fills, shown, phase, kills, crashes>>

\* get_order_by_id; an order still open is left for a later cycle.
CancelGet ==
    /\ At("cancelGet")
    /\ \/ /\ NoFault
          /\ w' = IF Seen(CancelTarget) = "open" THEN Idle
                  ELSE [w EXCEPT !.pc = "chain", !.c = 0, !.how = "cancel",
                                 !.res = Seen(CancelTarget), !.err = "raise", !.ret = "idle"]
       \/ Fault /\ End
    /\ UNCHANGED <<durable, broker, phase, kills, crashes>>

-----------------------------------------------------------------------------
(* The exit (_start_exit, submit_exit).                                      *)

\* Handler-level defaults: an exception abandons the cycle.
Plain(l, c) == [w EXCEPT !.pc = l, !.c = c, !.how = "order", !.again = FALSE,
                         !.err = "raise", !.ret = "idle"]

\* Mutants: an exit of unknown outcome, or a filled one, counts as a closed zero
\* fill; the retry limit is off by one.
ExitUnderway_NotUnknown ==
    exits > 0 /\ (LastExit = 0 \/ chain[LastExit] \notin {"CANCELED", "UNKNOWN"})

ExitUnderway_NotFilled ==
    exits > 0 /\ (LastExit = 0 \/ chain[LastExit] \notin {"CANCELED", "FILLED"})
ExitsLeft_OneMore == exits <= MaxExits

\* Exit intents exist, and the latest exit chain is not a closed zero fill.
ExitUnderway == exits > 0 /\ (LastExit = 0 \/ chain[LastExit] # "CANCELED")
ExitsLeft == exits < MaxExits

\* The quote of a new exit is a read that may fail.
StartExit ==
    /\ At("startExit")
    /\ \/ /\ ExitUnderway
          /\ w' = IF LastExit = 0 \/ chain[LastExit] = "FILLED" THEN Idle
                  ELSE Plain("reprice", LastExit)
          /\ NoFault
       \/ /\ ~ExitUnderway /\ ~ExitsLeft
          /\ Goto("kill") /\ NoFault
       \/ /\ ~ExitUnderway /\ ExitsLeft
          /\ \/ w' = Plain("exitIntent", exits + 1) /\ NoFault
             \/ End /\ Fault
    /\ UNCHANGED <<durable, broker, phase, kills, crashes>>

\* _persist_intent: the intent, then its chain, in two transactions.
PersistIntent ==
    /\ At("exitIntent")
    /\ exits' = w.c
    /\ Goto("exitPlan")
    /\ UNCHANGED <<run, kill, chain, attempts, bound, broker, phase, bounds>>

PersistChain ==
    /\ At("exitPlan")
    /\ SetChain(w.c, "PLANNED")
    /\ Goto("exitSnapshot")
    /\ UNCHANGED <<broker, phase, bounds>>

\* Mutant: the kill switch also blocks the exit.
StillExposed_UnlessKilled == PositionShown /\ ~kill
StillExposed == PositionShown

\* submit_exit's own snapshot: no position any more throws the switch.
ExitSnapshot ==
    /\ At("exitSnapshot")
    /\ \/ /\ w' = IF phase = "closed" THEN Idle
                  ELSE [w EXCEPT !.pc = IF StillExposed THEN "exitRun" ELSE "kill"]
          /\ NoFault
       \/ End /\ Fault
    /\ UNCHANGED <<durable, broker, phase, kills, crashes>>

\* Mutant: a chain already SUBMITTING is never taken up again.
Undispatched_Refused(c) == FALSE

\* SUBMITTING without an attempt: the call cannot have been made.
Undispatched(c) == chain[c] = "SUBMITTING" /\ ~Attempted(c) /\ run = "EXIT_SUBMITTING"

ExitRun ==
    /\ At("exitRun")
    /\ LET planned == chain[w.c] = "PLANNED"
       IN \/ /\ planned /\ StrategyStep(run, "EXIT_SUBMITTING")
             /\ SetRun("EXIT_SUBMITTING")
             /\ Goto("exitChain")
          \/ /\ Undispatched(w.c)
             /\ Goto("exitAttempt")
             /\ UNCHANGED durable
          \/ /\ ~Undispatched(w.c) /\ ~(planned /\ StrategyStep(run, "EXIT_SUBMITTING"))
             /\ End
             /\ UNCHANGED durable
    /\ UNCHANGED <<broker, phase, bounds>>

ExitChain ==
    /\ At("exitChain")
    /\ SetChain(w.c, "SUBMITTING")
    /\ Goto("exitAttempt")
    /\ UNCHANGED <<broker, phase, bounds>>

\* record_order_attempt, before the call.
RecordAttempt ==
    /\ w.pc \in {"exitAttempt", "replaceAttempt"}
    /\ attempts' = [attempts EXCEPT ![w.c] = @ + 1]
    /\ Goto(IF At("exitAttempt") THEN "place" ELSE "replace")
    /\ UNCHANGED <<run, kill, chain, exits, bound, broker, phase, bounds>>

-----------------------------------------------------------------------------
(* Repricing and resuming (_reprice_active_order, replace_order,             *)
(* resume_entry_submission, resume_exit_submission, resume_replacement).     *)

Unbound(c) == Latest(c) \notin bound

Reprice ==
    /\ At("reprice")
    /\ LET c == w.c
           s == chain[c]
       IN w' = CASE c = 0 /\ s = "PLANNED" -> Idle
                 [] c # 0 /\ (s = "PLANNED" \/ (s = "SUBMITTING" /\ ~Attempted(c))) ->
                      Plain("exitSnapshot", c)
                 [] s = "SUBMITTING" /\ Attempted(c) ->
                      Plain(IF c = 0 THEN "resumeEntry" ELSE "resumeExit", c)
                 [] s = "REPLACEMENT_PENDING" /\ Unbound(c) ->
                      [Plain("resumeReplace", c) EXCEPT !.how = "replace"]
                 [] s \in {"PENDING", "UNKNOWN"} /\ Unbound(c) -> [w EXCEPT !.pc = "kill"]
                 [] s \in {"PENDING", "UNKNOWN", "REPLACEMENT_PENDING"} /\ ~Unbound(c) ->
                      [Plain("replaceChain", c) EXCEPT !.how = "replace"]
                 [] OTHER -> Idle
    /\ UNCHANGED <<durable, broker, phase, bounds>>

\* replace_order, unless it is too early, already at the limit price, or the
\* quote cannot be read.
ReplaceChain ==
    /\ At("replaceChain")
    /\ \/ /\ ChainStep(chain[w.c], "REPLACEMENT_PENDING") /\ attempts[w.c] <= MaxSeq
          /\ SetChain(w.c, "REPLACEMENT_PENDING")
          /\ Goto("replaceAttempt")
       \/ /\ End
          /\ UNCHANGED durable
    /\ UNCHANGED <<broker, phase, bounds>>

ResumeReplacement ==
    /\ At("resumeReplace")
    /\ \E r \in {"absent", "open", "filled", "zero"} :
          /\ LookedUp(Latest(w.c), r)
          /\ w' = IF r = "absent" THEN [w EXCEPT !.pc = "replace"]
                  ELSE [w EXCEPT !.pc = "bind", !.res = r]
    /\ UNCHANGED <<durable, broker, phase, kills, crashes>>

\* A submission whose outcome is not on record is looked up before it is resent.
Resume ==
    /\ w.pc \in {"resumeEntry", "resumeExit"}
    /\ \/ /\ run \in IF w.c = 0 THEN {"SUBMITTING"} ELSE {"EXIT_SUBMITTING", "RISK_OFF"}
          /\ \E r \in {"absent", "open", "filled", "zero"} :
                /\ LookedUp(Latest(w.c), r)
                /\ w' = IF r = "absent" THEN [w EXCEPT !.pc = "resumeSnapshot"]
                        ELSE [w EXCEPT !.pc = "bind", !.res = r]
       \/ /\ run \notin IF w.c = 0 THEN {"SUBMITTING"} ELSE {"EXIT_SUBMITTING", "RISK_OFF"}
          /\ End /\ NoFault
    /\ UNCHANGED <<durable, broker, phase, kills, crashes>>

\* What the snapshot of resume_entry_submission must not show for the entry to be
\* sent again (other reasons of entry_admission count as faults).
ResumeBlocked ==
    \/ phase = "closed" \/ OpenOrders # {}
    \/ w.c = 0 /\ (kill \/ PositionShown)

ResumeSnapshot ==
    /\ At("resumeSnapshot")
    /\ LET id == Latest(w.c)
           gone == w.c # 0 /\ id \notin OpenOrders /\ phase # "closed" /\ ~PositionShown
       IN \/ /\ id \in OpenOrders
             /\ w' = [w EXCEPT !.pc = "bind", !.res = "open"]
             /\ NoFault /\ UNCHANGED durable
          \/ /\ gone
             /\ SetChain(w.c, "UNKNOWN")
             /\ Goto("kill")
             /\ NoFault
          \/ /\ id \notin OpenOrders /\ ~gone /\ ~ResumeBlocked
             /\ w' = [w EXCEPT !.pc = "place", !.again = (w.c = 0)]
             /\ NoFault /\ UNCHANGED durable
          \/ /\ id \notin OpenOrders /\ ~gone /\ ResumeBlocked
             /\ End
             /\ NoFault /\ UNCHANGED durable
          \/ End /\ Fault /\ UNCHANGED durable
    /\ UNCHANGED <<broker, phase, kills, crashes>>

-----------------------------------------------------------------------------
(* The operator, the broker, the calendar and the crash.                     *)

OperatorKill ==
    /\ kills < MaxKills /\ kills' = kills + 1
    /\ kill' = TRUE
    /\ run' = IF run \in TERMINAL_STRATEGY_STATES THEN run ELSE "RISK_OFF"
    /\ UNCHANGED <<chain, exits, attempts, bound, broker, phase, w, crashes, faults>>

Fill(id) ==
    /\ order[id] = "open" /\ phase # "closed"
    /\ order' = [order EXCEPT ![id] = "filled"]
    /\ fills' = fills + 1
    /\ UNCHANGED <<durable, net, shown, phase, w, bounds>>

\* The broker ends an order without a fill of its own accord.
Expire(id) ==
    /\ order[id] = "open"
    /\ order' = [order EXCEPT ![id] = "zero"]
    /\ UNCHANGED <<durable, net, fills, shown, phase, w, bounds>>

\* A late request reaches the broker, which refuses it when it no longer applies.
Deliver(m) ==
    /\ net' = net \ {m}
    /\ order' = CASE m.kind = "place" /\ Accept(m.id) -> [order EXCEPT ![m.id] = "open"]
                  [] m.kind = "replace" /\ Replaceable(m.id) -> Replaced(m.id)
                  [] m.kind = "cancel" /\ order[m.id] = "open" -> [order EXCEPT ![m.id] = "zero"]
                  [] OTHER -> order
    /\ UNCHANGED <<durable, fills, shown, phase, w, bounds>>

\* The positions API catches up with one fill.
Show ==
    /\ shown < fills
    /\ shown' = shown + 1
    /\ UNCHANGED <<durable, order, net, fills, phase, w, bounds>>

\* At the close the day's orders end and nothing is in flight any more.  The
\* canary profile exits on the day of its entry.
NextPhase ==
    /\ \/ phase = "entry" /\ phase' = "cancel" /\ UNCHANGED <<order, net>>
       \/ phase = "cancel" /\ phase' = "exit" /\ UNCHANGED <<order, net>>
       \/ /\ phase = "cancel" /\ phase' = "closed"
          /\ order' = [id \in OrderIds |-> IF order[id] = "open" THEN "zero" ELSE order[id]]
          /\ net' = {}
       \/ phase = "closed" /\ phase' = "exit" /\ UNCHANGED <<order, net>>
    /\ UNCHANGED <<durable, fills, shown, w, bounds>>

Crash ==
    /\ crashes < MaxCrashes /\ crashes' = crashes + 1
    /\ ~At("idle")
    /\ w' = Idle
    /\ UNCHANGED <<durable, broker, phase, kills, faults>>

-----------------------------------------------------------------------------
Reconcile ==
    \/ BeginCycle \/ ReadOrders \/ ReadPositions \/ CheckActivities
    \/ ReconcileEntry \/ ReconcileEntryDone \/ TerminalEntry
    \/ ReconcileExit \/ ReconcileExitDone \/ ReconcilePositions

Apply ==
    \/ Bind \/ ApplyChain \/ ApplyRun \/ Relook \/ Unresolved
    \/ ActivateKill

Handle ==
    \/ Manage \/ Place \/ Replace
    \/ CancelRun \/ CancelChain \/ CancelCall \/ CancelGet
    \/ StartExit \/ PersistIntent \/ PersistChain \/ ExitSnapshot
    \/ ExitRun \/ ExitChain \/ RecordAttempt
    \/ Reprice \/ ReplaceChain \/ ResumeReplacement \/ Resume \/ ResumeSnapshot

Worker == Reconcile \/ Apply \/ Handle

Broker ==
    \/ \E id \in OrderIds : Fill(id) \/ Expire(id)
    \/ \E m \in net : Deliver(m)
    \/ Show

Next == Worker \/ Broker \/ OperatorKill \/ NextPhase \/ Crash

Spec == Init /\ [][Next]_vars

\* The worker loop keeps cycling, requests in flight arrive, and the positions
\* API catches up; no fill, no market hour and no operator is assumed.
FairSpec ==
    /\ Spec
    /\ WF_vars(Worker) /\ WF_vars(Show)
    /\ WF_vars(\E m \in net : Deliver(m))

-----------------------------------------------------------------------------
(* Properties.                                                               *)

PCs == {"idle", "orders", "positions", "activities", "recEntry", "recEntryDone",
        "recTerm", "recExit", "recExitDone", "recFinal", "decide", "kill", "bind",
        "chain", "run", "place", "replace", "relook", "unknown", "cancelId",
        "cancelChain", "cancelCall", "cancelGet", "startExit", "exitIntent",
        "exitPlan", "exitSnapshot", "exitRun", "exitChain", "exitAttempt",
        "reprice", "replaceChain", "replaceAttempt", "resumeReplace",
        "resumeEntry", "resumeExit", "resumeSnapshot"}

\* Every variable keeps its type.
TypeOK ==
    /\ run \in STRATEGY_STATES /\ kill \in BOOLEAN
    /\ chain \in [Chains -> ORDER_CHAIN_STATES \cup {"NONE"}]
    /\ exits \in 0..MaxExits
    /\ attempts \in [Chains -> 0..(MaxSeq + 1)]
    /\ bound \subseteq OrderIds
    /\ order \in [OrderIds -> {"absent", "open", "filled", "zero", "replaced"}]
    /\ net \subseteq [kind: {"place", "replace", "cancel"}, id: OrderIds]
    /\ fills \in 0..2 /\ shown \in 0..fills
    /\ phase \in {"entry", "cancel", "closed", "exit"}
    /\ w.pc \in PCs /\ w.c \in Chains /\ w.ords \subseteq OrderIds
    /\ kills \in 0..MaxKills /\ crashes \in 0..MaxCrashes /\ faults \in 0..MaxFaults

\* The broker never works two orders of the run at once, whatever was replaced,
\* resent, lost or recovered.
OneWorkingOrder == Cardinality(OpenOrders) <= 1

\* An exit order is only ever worked while there is a position to close, so the
\* run never turns into a position of the opposite sign.
ExitOrdersReduce ==
    /\ \A id \in OpenOrders : id[1] # 0 => fills = 1
    /\ \A id \in OpenOrders : id[1] = 0 => fills = 0

\* A run recorded as finished left nothing at the broker: no position, no working
\* order, no request that could still become one; and NO_TRADE never hides a fill.
FinishedRunsAreFlat ==
    run \in TERMINAL_STRATEGY_STATES =>
        /\ fills % 2 = 0 /\ OpenOrders = {}
        /\ \A m \in net : m.kind = "cancel" \/ (m.kind = "replace" /\ ~Replaceable(m.id))
                          \/ (m.kind = "place" /\ ~Accept(m.id))
        /\ run = "NO_TRADE" => fills = 0

\* What a closed order chain says is what happened to its orders.
ClosedChainsTellTheTruth ==
    \A c \in Chains :
        LET states == {order[<<c, s>>] : s \in 0..MaxSeq}
        IN /\ chain[c] = "FILLED" => "filled" \in states /\ "open" \notin states
           /\ chain[c] = "CANCELED" => {"filled", "open"} \cap states = {}

\* Exposure left at the exit time reaches the broker as an exit order, or the
\* outcome of an exit call is on record as unknown for a person to resolve.
ExitIsPlaced ==
    (fills = 1 /\ phase = "exit")
        ~> (\E c \in ExitChains : order[<<c, 0>>] # "absent" \/ chain[c] = "UNKNOWN")

\* An entry order still working at the cutoff does not go on working.
UnfilledIsCanceled ==
    (phase = "cancel" /\ \E id \in OpenOrders : id[1] = 0)
        ~> ~(\E id \in OpenOrders : id[1] = 0)

\* Nor does it when the process died or a call was lost, the cancel call included, whose
\* exception cancel_entry swallows (execution.py 471): it is cancelled, or the kill switch
\* calls for a person, as after a replacement whose outcome is unknown (runtime.py 514,
\* 1664).  The exception is a death in a replacement, which leaves the chain
\* REPLACEMENT_PENDING: the table then refuses every cancellation (storage.py 129).
UnfilledIsNotForgotten ==
    (phase = "cancel" /\ \E id \in OpenOrders : id[1] = 0)
        ~> \/ ~(\E id \in OpenOrders : id[1] = 0)
           \/ kill
           \/ crashes > 0 /\ chain[0] = "REPLACEMENT_PENDING"

\* A filled entry does not stay booked as a working one.
FillIsBooked == (fills = 1) ~> (run \notin WorkingEntryStates)

\* An exit written down but not known to be sent is taken up again after a crash.
ExitResumes ==
    \A c \in ExitChains :
        (chain[c] \in {"PLANNED", "SUBMITTING"} /\ phase = "exit")
            ~> (chain[c] \notin {"PLANNED", "SUBMITTING"})

\* Once the broker is flat for good, the run is booked as finished.
FlatIsBooked == (fills = 2) ~> (run \in TERMINAL_STRATEGY_STATES)

-----------------------------------------------------------------------------
(* What the run promises the account.                                        *)

Worked(cs) == \E id \in OpenOrders : id[1] \in cs

Promise == INSTANCE Exposure WITH
    working  <- IF Worked({0}) THEN "entry" ELSE IF Worked(ExitChains) THEN "exit" ELSE "none",
    position <- CASE fills = 0 -> "never" [] fills = 1 -> "held" [] OTHER -> "closed",
    booked   <- IF run \in TERMINAL_STRATEGY_STATES THEN run ELSE "none"

\* Seen from the account, every step of the worker, its crashes and retries, the broker
\* and the operator is one the promise allows or none at all: no second entry, no exit
\* without a position, nothing that moves after the run was booked, NO_TRADE only when
\* nothing ever filled.
ImplementsExposure == Promise!Spec

\* What EntryGate takes an attempted order to do, in the coarse.
Fate == INSTANCE AttemptedRun WITH
    placed <- order[<<0, 0>>] # "absent" /\ run \notin TERMINAL_STRATEGY_STATES

\* Once its entry is attempted a run never returns to screening and never stops in
\* ERROR, and it is finished only when the broker has had the order, however its
\* answers were lost and whatever was retried.
ImplementsAttemptedRun == Fate!Spec
=============================================================================
