# ThetaTrap: a TLA+ model of the trading worker

ThetaTrap (`src/thetatrap/`) is a long-lived worker that may place one
defined-risk option position per strategy date through an external broker
(Alpaca, reached over MCP), and must close it at a fixed time. Everything it
knows survives in one SQLite database; everything it owns is at the broker; the
two are changed by separate calls, either of which may fail, be lost or arrive
late, while an operator works on the same database from a CLI. Between the market
and the order stand two strategies, a model that reviews each candidate with
tools, and a gateway that re-checks every payload. This project models that
worker, checks it with TLC and proves with TLAPS every safety property the passing runs check: of
its entry path, of its orders, of its reviews and of its prices.

## 1. Inventory

| Component | State | Operations | Correct when |
|---|---|---|---|
| Durable state machines (`storage.py` 25-137, 1533-1605, 2537-2599) | `strategy_runs.state`, `order_chains.state` | compare-and-set transitions against two tables | no state is reached except by a listed transition |
| Entry gate (`storage.py` 846-1248, 2941-3086; `cli.py` 247-280, 356-480) | `entry_authorizations`, `runtime_controls` | arm, revoke, consume (`begin_authorized_entry_submission`), kill, clear | one broker-capable entry per date; the ledger agrees with the orders; clearing the switch approves nothing |
| Worker cycle (`runtime.py` 118-255, 404-488; `worker.py` 200-234) | the active run, the lease | lease, find, reconcile, manage or scan, release | no exposure without a managing run; the date ends |
| Screening (`runtime.py` 645-1295) | run, candidates, intents, chains | collect, rank, persist the intent, review, recheck on fresh data, submit, back out | a candidate that was not submitted leaves nothing broker-capable; only this cycle's ALLOW submits |
| Agent review (`agent.py`, `agent_tools.py`, `storage.py` agent runs) | `agent_runs`, `agent_tool_trace`, one conversation | bounded tool loop with a fallback model, tool runtime, audit rows, closing of interrupted reviews | a verdict rests on the mandatory reads; the audit is true and final |
| Advisory (`advisory.py`, `storage.py` advisory rows) | `advisory_runs`, its trace | read-only review of a rejected candidate, by the worker or the operator's command | one result per run, complete when it says so, whoever writes it |
| Order execution (`execution.py`, `runtime.py` 1297-1675) | chains, attempts, broker IDs | submit, look up, replace, cancel, resume, exit with retries | one working order; exits only reduce; every answer ends up in the books; exits happen |
| Reconciliation (`runtime.py` 257-402) | run and chains against snapshot | apply broker orders and positions to the books | `FLAT` and `NO_TRADE` are only written when true |
| Schedule (`schedule.py`), events (`events.py`) | none | `action_for_time`; dates and windows | every instant has the right action |
| Strategies (`strategy.py`, `intraday.py`) | none | gates, structure search, credits and ticks, ranking, structure-bound recheck | the loss of what they choose is within the budget |
| Orders and MLEG rules (`orders.py`, `domain.py`), permits and gateway (`policy.py`, `mcp/`) | one permit, one session | build, validate, permit, dispatch | what one layer accepts no later one refuses; a mutation needs its exact permit |
| Settings, evidence contracts, market-data joins | none | reads and start-up checks | |
| Dashboards, reports, replay, rehearsal | read-only | | |

How they interact: the worker process alone calls the broker. Worker and CLI
share only the database; each transaction is `BEGIN IMMEDIATE`, so a transaction
is atomic and everything between two transactions is not. Broker and model calls are
awaited between transactions. A broker call is answered, refused, answered into
the void, or delivered after its caller gave up; the positions API lags behind
fills. A process may die between any two of these steps; docker restarts it and
the new process continues from the database.

What is hard here: the number of commits on the way to an order and back, each
a possible crash point; the race of fills against replacements and
cancellations; reading "no such order" as truth; the kill switch arriving
between any two steps; the carry-over of a run into the next date; cycles
that outlast their lease; two processes that write one advisory row; a model that
may ask for anything, in any order, until a budget is spent; and five layers
(strategy, builder, validation, permit, gateway) that each judge the same price
with rules of their own. `PROJECT.json` lists these hazards at their lines with
the properties that would catch them.

## 2. Modules

| Module | Contents |
|---|---|
| `Lifecycle` | the two transition tables and the rule `StrategyStep` / `ChainStep` every write obeys |
| `EntryGate` | from nothing to a dispatched entry: cycle, screening, review, entry transaction, operator, lease, crash, dates |
| `MCEntryGate` | `EntryGate` with symmetric workers |
| `EntryGateProofs` | theorems about `EntryGate` that hold with or without overlapping cycles |
| `TrackingProofs` | theorems about `EntryGate` that need the cycles not to overlap, and that it implements `AttemptedRun` |
| `AttemptedRun` | abstract: what becomes of a run once its entry is attempted; implemented by `EntryGate` and by `OrderLifecycle` |
| `Exposure` | abstract: what a run promises the account |
| `OrderLifecycle` | from the committed submission to `FLAT` / `NO_TRADE`: entry, repricing, cancellation, exit, recovery; implements `Exposure` and `AttemptedRun` |
| `OrderLifecycleProofs` | theorems about `OrderLifecycle`, and that it implements both |
| `AgentReview` | one review by the agent: tool loop, models, evidence, audit rows |
| `Advisory` | the advisory on a rejected candidate, by any number of processes |
| `Screening` | the worker's cycles over a pre-dispatch run and the operator's command, composing `AgentReview` and `Advisory` |
| `ScreeningProofs` | theorems about `Screening` and the two reviews |
| `EventConfig`, `Schedule` | the event's dates and windows; `action_for_time` |
| `Strategy`, `IntradayStrategy` | the earnings and the canary strategy: gates, condors, credits, ticks, recheck |
| `OrderIntents` | payloads, their validation, permits, the gateway |
| `TradePricing` | one trade from scan to exit with its prices, composing the previous five |
| `MCTradePricing` | twelve small markets for `TradePricing` |
| `PricingProofs` | theorems about `TradePricing` |

`EntryGate` and `OrderLifecycle` meet at the entry transaction: the effect of
`BeginSubmission` on run, chain and attempts is `OrderLifecycle!Init`, and what
`OrderLifecycle` does in detail is in `EntryGate` the coarse `Dispatch`, `Resume`,
`Resend`, `Arrive` and `OrderStep`. What the one assumes of the other is written
down once, in `AttemptedRun`, and both implement it: `OrderLifecycle` for its one run,
`EntryGate` for the run of every date beside the rest of the worker. `Screening` refines what `EntryGate` does between the scan and the
entry transaction and stops at `SUBMITTING`; `TradePricing` runs along the same
path with the market data and the prices, where the others have free choices, and
without failures, where the others have them.

### EntryGate

*State.* `run`, `auth`, `intents`, `chain`, `attempts`, `kill`, `version` are the
tables, per date and per candidate; `consumedBy` is the intent link of a consumed
authorization. `lease` is the row of `runtime_leases`. `sent` counts calls of
`place_option_order` made by `submit_entry`, `live` says for which dates the
broker may hold an order or position, and `underway` for which a request that outlived
its caller may still arrive. `pc[p]` and `view[p]` are a worker's place in
its cycle and the Python locals that outlive an await: the market date and action
it computed, the active run it read (`seen`), the candidates left, and the
snapshot's verdicts (`clean`: no exposure, `fresh`: authorization not expired).

*Actions.* One per transaction, awaited read or call. `Transition` is the
transaction of `transition_strategy_run`, which re-reads the row: the caller asks
(`Ask`) in one step and the database decides in a later one. `BeginSubmission` is
the whole of `begin_authorized_entry_submission`. `Resume` and `Resend` are
`resume_entry_submission`, which sends the request of a run still `SUBMITTING` again;
`Arrive` is a request that reaches the broker after its caller gave up. `OperatorReads` /
`OperatorActivates` / `OperatorClears` are the CLI's read and its later transaction.

*Abstractions.* A candidate is one intent, chain and attempt identity.
Market collection leaves any subset eligible, in any order; agent, revalidation
and the other admission reasons may refuse at will. Execution is armed (the
disarmed mode never submits). The reads at the start of `_manage_active` are one
step: only the CLI and an overlapping cycle can move between them, and
`Transition` re-reads. A date has three phases: entry window, gap, after the
cut-off. Errors inside a cycle are `Raise`: through `finally`, releasing the
lease. There is no clock: a dead owner's lease expires eventually, a live
owner's may expire only with `Overlap`.

### AttemptedRun

*State.* The run, and whether the broker has taken its order and the run is not finished.
*Mapping.* In `OrderLifecycle` the run itself and whether the first attempt is known at the
broker; in `EntryGate`, per date, the run once an attempt is recorded (before that it counts
as `SUBMITTING`, where the attempt starts) and membership in `live`. *Steps.* `Reach`: the
order arrives, at any time before the end. `Move`: the run moves by the table, within the
states of the handling of an order, never back to screening. `Finish`: `FLAT` or
`NO_TRADE`, only after the broker had the order. `RiskOff`: the kill switch.

### OrderLifecycle

*State.* `run`, `kill`, `chain` (0 the entry, 1.. the exits), `exits` (exit
intents), `attempts` per chain and `bound` (broker ID known) are the tables.
`order` is the broker's view of each attempt, `net` the requests still under
way, `fills` the fills so far (one opens the position, two closes it) and
`shown` how many of them the positions API reflects. `w` is the worker: place,
computed action, snapshot (`ords`, `pos`), and the locals of the handler it is in.

*Actions.* Each commit and each call of `execution.py` is a step, so a crash
or a kill can fall between any two. `Bind`, `ApplyChain` and `ApplyRun` are the
common tail of `_apply_entry_order`, `_apply_exit_order`, `_apply_chain_order`,
`cancel_entry` and `_handle_reprice_result`; `RunSteps` lists the run
transitions each of them asks for. `Place` and `Replace` have four outcomes:
answered, refused, answer lost, request lost or late (`Deliver`). `LookedUp`
may report an existing order as absent, as `_lookup_by_client_id` does for
every exception.

*Abstractions.* The quantity is always 1 and legs fill atomically
(`orders.py` builds `qty="1"`), so there are no partial fills; legs that do not
match are the kill of `CheckActivities`. All zero-fill terminal statuses are
`"zero"` and the chain states they lead to are `CANCELED`. Price and the 30 s
interval are a free choice between repricing and waiting. The worker is alone (see
`gate_overlap_tracking` for what happens otherwise). The kill switch is not
cleared. At the market close the day's orders end and nothing stays in flight.

### Exposure

*State.* The order the broker works (none, entry, exit), the position (never, held,
closed) and the recorded end of the run. *Mapping.* `working` is the purpose of the open
orders of `OrderLifecycle`, whichever chain or attempt they belong to, `position`
the number of its fills, `booked` its run once terminal. All retries, replacements,
recoveries, crashes and database steps are stutters of it; a fill, an end or a
start of an order and the booking are its four kinds of step.

### AgentReview, Advisory, Screening

*State.* `agentRun` and `trace` are the rows of `agent_runs` and `agent_tool_trace`
per candidate; `rev` is the memory of the review under way: model, turns and
calls used, what was read by the model asked (`evidence`), the calls to be made and
those made. `advisoryRun` and `advisoryTrace` are the rows of the advisory, `adv[a]`
the memory of each process that may run one. `Screening` adds the run, the cycle
(it stands for `started_at`), the ranked queue, and the places of the worker (`wk`)
and of the operator's command (`op`).

*Actions.* A turn of the model, one tool call with its audit row, the end of the turn,
the switch to the fallback model, the closing of the review with each of its outcomes;
for the advisory the lookup, the creation of the row (which may meet another's),
the turns, reads, rows and the final write (which may conflict). `BeginCycle`
closes a review a dead process left open, as `_manage_active` does.

*Abstractions.* The model may answer, ask or fail as it likes; a result is only
whether the read counts as evidence. Prompts, tokens, hashes and texts are left out.
Both time budgets are the free choice to stop at any turn. While a process talks
to its model, the other one's steps are not put in between: the conversation reads
and writes only its own memory and the rows of its own review, so its steps commute with
theirs (`WorkerMoves`, `OperatorMoves`). The advisory's writes are not part of it and interleave.

### TradePricing and what it composes

*State.* The time of the current cycle (`day`, `clock`), the phase of the trade, the
candidate and the market it was chosen from, the payloads of the entry and of the
last exit, the number of exits and replacements, the budget, the kill switch. Money is in
half cents, so that midpoints of cent quotes are exact, as they are with `Decimal`.

*Actions.* `Scan` (either strategy on any market), `RejectCandidate`, `SubmitEntry`
(fresh recheck, build, validation, permit, dispatch), `RepriceEntry`, `CancelEntry`,
`FillEntry`, `StartExit`, `RepriceExit`, `ExhaustExits`, `ExitDies`, `FillExit`,
`Advance` and `Kill`. A payload refused after the decision to send it is the phase
`refused`. A cycle takes its time at the start and reads the market `lag` seconds later, as
the program does.

*Abstractions.* A market is a set of option snapshots with the fields the gates read;
each cycle may read any of them. Quotes of other symbols, failure texts, identifiers and
hashes are left out; a permit holds the payload itself. The broker
answers before the next cycle.

## 3. Properties and runs

`CHECK_DEADLOCK FALSE` is set where the system really stops: in the `order_*`
configurations a finished run is never touched again, in `screening` a run that left
screening, in `pricing` and `pricing_ticks` a finished trade on the last day.

| Run | Instance | Checks |
|---|---|---|
| `gate_day` | 1 worker, 2 candidates, 1 date, both profiles, 1 crash, 1 clear | `TypeOK`, `OneEntryPerDay`, `LedgerMatchesAttempts`, `KillLeavesNothingArmed` |
| `gate_two_days` | 1 worker, 1 candidate, 2 dates, 1 crash, fairness | `LiveEntryIsTracked`, `OneExposure`, `EntryNeedsArmedAuthorization`, `ImplementsAttemptedRun`, `ScreeningEnds` |
| `gate_overlap` | 2 symmetric workers, leases may be outlasted | `OneEntryPerDay`, `LedgerMatchesAttempts`, `EntryNeedsArmedAuthorization` |
| `gate_overlap_tracking` | the same | `LiveEntryIsTracked` is **violated** |
| `order_safety` | 2 exit chains, 1 replacement each, 1 kill, 1 crash, 1 fault | `TypeOK`, `OneWorkingOrder`, `ExitOrdersReduce`, `FinishedRunsAreFlat`, `ClosedChainsTellTheTruth`, `ImplementsExposure`, `ImplementsAttemptedRun` |
| `order_progress` | 2 exit chains, 1 kill, no crash or fault, fairness | `ExitIsPlaced`, `UnfilledIsCanceled` |
| `order_recovery` | 1 exit chain, 1 crash, 1 fault, no kill, fairness | `UnfilledIsNotForgotten`, `FillIsBooked`, `ExitResumes` |
| `order_restart` | 1 crash | `ExitIsPlaced` is **violated** |
| `order_flat` | nothing goes wrong | `FlatIsBooked` is **violated** |
| `screening` | 1 candidate, 1 mandatory and 1 optional read, 2 turns and calls, 2 advisory reads and 3 turns, 2 cycles, 1 crash, worker beside operator | `ScreeningTypeOK`, `EvidenceBeforeVerdict`, `AuditFollowsCalls`, `CompletedReadEverything`, `OpenReviewsWereInterrupted`, `OpenAdvisoryIsUnderWay`, `ClosedReviewIsFinal`, `AdvisoryIsFinal`, `SubmitsWhatWasAllowed` |
| `pricing` | 12 markets, 3 days, 12 minutes of each, lags of 0 and 3 s, 2 replacements, 3 exits, both profiles | `PricingTypeOK`, `NothingIsRefusedLate`, `LossWithinBudget`, `UnchangedMarketPasses`, `OrdersStartOnTick`, `OverdueIsDue`, `PricesMoveTowardsFill` |
| `pricing_ticks` | the same with 2 markets, both of earnings | `ReplacementsOnTick` is **violated** |

*Why the bounds are enough.* Two candidates are the least with which a second
entry of the same date could differ from the first; two dates the least with a
carry-over; two workers the least that overlap. Two exit chains (the code allows
three) are the least with a retry and a retry limit; one replacement per chain
the least with a prior and a latest attempt, between which the lookups choose.
One crash, one fault and one kill are combined in every order in `order_safety`;
two independent ones of the same kind are not explored. `gate_overlap` leaves
the candidates at one because the proofs cover any number.

What becomes of an unfilled entry is split over two runs. `order_progress` has neither
crash nor fault, and the entry is cancelled. `order_recovery` has both, the lost cancel call
whose exception `cancel_entry` swallows among them: there `UnfilledIsNotForgotten`
allows what section 4 lists as limits, a failed replacement that ends with the
kill switch on and a death in a replacement.

In `screening` two turns and calls with one mandatory read and one that is not required
are the least with which a model can ask twice, ask for the wrong thing, run out of either
budget before or after its evidence, and be replaced by the fallback; the program has `MAX_TURNS` 10, `MAX_TOOL_CALLS` 12 and several
mandatory reads. The advisory has two reads, so that one can be missing, and one
turn more than reads; the program has 8 turns and 6 calls. Two cycles are the least
in which a review is found interrupted. A second candidate does not fit in the
time; the proofs cover any number, as they do any reads and budgets. There is one
worker: what `screening` checks and `ScreeningProofs` proves of reviews does not cover two
overlapping workers (finding 3), of which the later one's recovery could close a
review the earlier one still conducts.

In `pricing` the markets are, for each strategy, a plain one, quotes that make the
rounding matter on either tick, an equity on either side of a limit, stale quotes, and
two to which the plain one may move before the exit. Day 2 is an event day of the earnings
profile, day 3 the canary's, day 4 the expiration; the minutes are the bounds of every
window, one on either side and one within. A lag of 3 s makes a quote younger
than its cycle by more than the two seconds `quote_atomic_exit` tolerates, and is less
than the 60 s a permit lives. `pricing_ticks` has two of the earnings markets only,
the plain one and the one that moves an exit to three dollars; on all twelve TLC first meets
the other side of finding 4, the cap at an unrounded natural debit. Three exits are the
program's `MAX_EXIT_ORDER_CHAINS`.

*What each property says* is stated above it in its module. In short:

- `OneEntryPerDay`, `LedgerMatchesAttempts`, `EntryNeedsArmedAuthorization`,
  `KillLeavesNothingArmed`: the authorization ledger is what limits exposure, it
  works by the transaction alone, and the kill switch consumes every approval.
- `LiveEntryIsTracked`, `OneExposure`: exposure never exists without an active
  run and never twice.
- `OneWorkingOrder`, `ExitOrdersReduce`: neither a retry, a resend, a late request
  nor a replacement makes two working orders or turns the position over. A single order
  that works on while the books name another is not theirs to find: for that
  `UnfilledIsNotForgotten` asks that the kill switch is on.
- `FinishedRunsAreFlat`, `ClosedChainsTellTheTruth`: the books are closed only
  on what happened.
- `ImplementsExposure`: seen from the account, all of it is entry, exit, end; nothing
  moves after the run was booked.
- `ImplementsAttemptedRun` (of both modules): an attempted run is never screened again, never
  stopped in `ERROR`, and is finished only once the broker had its order, although the other
  parts of the cycle, later dates and restarted workers write the same table.
- `EvidenceBeforeVerdict`, `AuditFollowsCalls`, `ClosedReviewIsFinal`,
  `OpenReviewsWereInterrupted`: a decision rests on the reads of the model that
  made it; the audit rows are the calls in their order, never more; a closed review
  stays as it is; one is left open only by a death.
- `CompletedReadEverything`, `OpenAdvisoryIsUnderWay`, `AdvisoryIsFinal`: two
  processes on one advisory row neither mix nor repeat their reads, nor leave it
  open when they conflict, nor overwrite the first result.
- `SubmitsWhatWasAllowed`: an entry needs an ALLOW of this cycle, whatever was
  interrupted before.
- `NothingIsRefusedLate`, `OrdersStartOnTick`: the layers agree on prices.
- `UnchangedMarketPasses`: on an unchanged market the fresh check turns away exactly the
  earnings candidates whose rounded credit is below the natural one (`runtime.py` 1251).
- `LossWithinBudget`, `PricesMoveTowardsFill`: the loss checked at the candidate
  still bounds the trade after all replacements and the exit.
- `OverdueIsDue`: no window, date or profile leaves an order or a position without its action.
- `ScreeningEnds`, `ExitIsPlaced`, `UnfilledIsCanceled`,
  `UnfilledIsNotForgotten`, `FillIsBooked`, `ExitResumes`: what must happen.

*Fairness.* `WF(Worker)`: `run_worker` cycles forever and restarts its session
after any exception (`worker.py` 208-234); the crash bound says the process dies
finitely often. `WF(LeaseExpires)`: the lease has a TTL. `WF(Deliver)` and
`WF(Show)`: a request under way arrives or is void by the close, and the
positions API catches up. No fairness is assumed of fills, cancellations by the
broker, market hours, the agent or the operator.

## 4. Findings

1. **`order_restart`.** `_persist_intent` writes the exit intent and its chain in
   two transactions. After a crash between them `_start_exit` sees an intent and
   no chain, treats the exit as under way, and `_reprice_active_order` returns
   because there is no chain: no cycle ever starts the exit and nothing is
   reported, against `docs/PRD.md:115` and `:432`.
2. **`order_flat`.** A replacement refused because the prior attempt filled is
   booked `UNKNOWN`; reconciliation looks up only the latest attempt's ID. The
   position is gone, the run stays `RISK_OFF`. `docs/PRD.md:312`: "Broker truth
   controls all post-dispatch state."
3. **`gate_overlap_tracking`.** The cycle lease lasts 180 s and is never renewed
   (`renew_lease` has no caller), so it does not prevent overlap as
   `docs/PRD.md:361` says; two overlapping cycles can book a run with a live order as
   `NO_TRADE`. The single-entry guarantee holds nevertheless (`gate_overlap`,
   and the theorems below).
4. **`pricing_ticks`.** A replacement is five cents off the last price, and neither
   `_reprice_active_order` nor `replace_order` rounds it. From three dollars on the tick
   outside the penny programme is ten cents, so an exit at 3.50 is replaced by one at
   3.55; `docs/PRD.md:318` asks that every exit replacement be normalised to the
   broker's tick, `:303` the same of the entry's. The same missing rounding shows below
   three dollars where the cap is reached: the natural debit is a sum of quotes in cents,
   so a canary's exit at 0.40 can be replaced by one at 0.44 on a five-cent tick.

Three more limits were met while choosing the instances of the liveness runs and are listed
as hazards. The first two contradict `docs/PRD.md:306`, "Cancel all unfilled earnings
entry orders by 15:45 ET and Sep 3 canary entry orders by 10:50 ET", and show when
`UnfilledIsCanceled` is checked with 1 exit chain, no kill and 1 fault, or 1 crash instead:

- A replacement call fails and the lookup by the new client ID finds nothing: the chain is
  `UNKNOWN`, the run `RISK_OFF`. The replaced order still works under the prior attempt's
  IDs, but `_attempt_is_open` compares only the latest attempt's; every later cycle
  reports `UNRECONCILED_OPEN_ORDER` and cancels nothing.
- A process dies between the attempt row of an entry replacement and its call, and the next
  cycle comes past the cutoff: `REPLACEMENT_PENDING` has no way to `CANCEL_PENDING`, so
  `cancel_entry` raises before the cancel call, in every cycle.
- A kill after a crash between an exit's `SUBMITTING` and its attempt makes `submit_exit`
  refuse the chain for good, which is why `order_recovery` has no kill.

## 5. Proofs

`EntryGateProofs` proves, for all workers, candidates, dates and profiles, with or
without overlap, from `GateConstants` alone:

| Theorem | Statement |
|---|---|
| `TypeCorrect` | `Spec => []TypeOK` |
| `OneEntryPerDayHolds` | `Spec => []OneEntryPerDay` |
| `LedgerHolds` | `Spec => []LedgerMatchesAttempts` |
| `KillLeavesNothingArmedHolds` | `Spec => []KillLeavesNothingArmed` |
| `EntryNeedsArmed` | `Spec => EntryNeedsArmedAuthorization` |

`OneEntryPerDay` is not inductive: that a dispatch increments `sent` from zero
needs to know that its attempt row exists, that no other worker is about to
dispatch the same order, and that it has not been dispatched before. The
inductive invariant is

    IInv == TypeOK /\ LedgerMatchesAttempts /\ DispatchInv

with `DispatchIsCommitted` (a worker at the call has its row and `sent = 0`),
`DispatchersApart` (two workers at the call hold different orders), `SentOnce`
(at most once, and only with a row) and `NoneQueued` (no pending transition
returns to the call). The ledger part gives at most one attempt per date: two
attempts would make `consumedBy` equal two candidates. Most steps are shown
`Quiet` (they touch neither attempts nor `sent` nor a place at the call) and
are dealt with by one lemma; `BeginSubmission` and `Dispatch` are the two real
cases. `KillLeavesNothingArmed` and the action property follow from `AuthStep`,
which says of every disjunct of `Next` how it may change an authorization and
the switch. `IInv` was checked by TLC on the `gate_overlap` instance first.

`TrackingProofs` proves, for the same constants, what holds as long as no cycle outlasts
its lease:

| Theorem | Statement |
|---|---|
| `LiveEntriesAreTracked` | `~Overlap /\ Spec => []LiveEntryIsTracked` |
| `ExposureIsSingle` | `~Overlap /\ Spec => []OneExposure` |
| `AttemptedRunsAreLeftAlone` | `~Overlap /\ Spec => ImplementsAttemptedRun` |

The hypothesis is needed: `gate_overlap_tracking` is the counterexample without it. It says
of the lease only that it does not run out under a live owner; any number of workers may
exist, die and be replaced. Neither invariant is inductive. `TrackInv` adds

- `Alone`: who is in its cycle holds the lease, so one worker moves at a time;
- `KnownRuns`: a run a worker or the operator remembers across an await still has its row;
- `AttemptsTracked`: an attempted date is handled or finished, and what is live or under way
  is attempted and unfinished;
- `OneActive`: at most one unfinished run, over all dates;
- `PlaceInv`: what the worker relies on at each place. It screens only a date without an
  attempt, or a finished one whose run the table no longer moves (`ScreensUnattempted`); a
  queued transition leads to a new run only by closing the last unfinished one
  (`QueuedNext`, `CreatesFirst`); orders are handled only where one was attempted
  (`HandlesAttempted`).

The operator and the kill switch write between any two of the worker's steps, so the places must
survive them: such a step is `Calm`, it attempts nothing and moves runs only to `RISK_OFF`,
and one lemma shows that a calm step keeps every place. The steps that are not calm are the
transitions of the scan (`ScanMove`), the entry transaction, the creation of a run and the
handling of orders (`OrderMoves`). `TrackInv` was first checked by TLC with two workers, two
dates, both profiles, one crash and one clear. The refinement uses it
to show that a step moves at most one date's run and that an attempted one is moved only by
`OrderStep` or by the switch.

`PricingProofs` proves, for every set of markets, moments, lags up to the permit's life,
dates and bounds:

| Theorem | Statement |
|---|---|
| `PricingTypes` | `Spec => []PricingTypeOK` |
| `NothingRefused` | `Spec => []NothingIsRefusedLate` |
| `LossBounded` | `Spec => []LossWithinBudget` |
| `FreshCheckPasses` | `Spec => []UnchangedMarketPasses` |
| `NothingUnattended` | `Spec => []OverdueIsDue` |
| `PricesMove` | `Spec => PricesMoveTowardsFill` |
| `OrdersStartWell` | `StrikesOnDimes /\ Spec => []OrdersStartOnTick` |

The assumptions are the named ones of the modules: `PricingConstants` and `MarketTypes`
(what the parsers let through), `SessionTypes`, `SessionOrdered`, `EventConfigTypes`,
`EntryWindowOrdered` (the order of the windows, which `IntradaySession` checks and the
event file has). `PricingInv` says that the entry's payload stays an equal-winged condor of
the candidate's legs, priced within the limits of its validation, and that those
limits bound the loss; the facts about the candidate come from lemmas about each
strategy (`NearestStrike`: the strike search returns a listed strike and the nearest
one; rounding moves a price by less than a tick, in the right direction).

`OrdersStartWell` has a hypothesis of its own, that strikes are whole dimes: the width caps the
price of an exit, so it must be a price on the tick itself, and no parser of the program
checks strikes. TLC evaluates the hypothesis on the checked markets (`MarketsOnDimes`).
`TickInv` carries the width and the starting price from the candidate to the exit; the
lemmas `CreditOnTick` and `DebitOnTick` show that rounding stays on the tick also where it
reaches three dollars, the price at which the tick changes.

`ScreeningProofs` proves, for every set of candidates, reads and processes, every budget
and any number of cycles and crashes, from `ReviewConstants`, `AdvisoryConstants` and
`ScreeningConstants`:

| Theorem | Statement |
|---|---|
| `ScreeningTypes` | `Spec => []ScreeningTypeOK` |
| `GroundedVerdicts` | `Spec => []EvidenceBeforeVerdict` |
| `TraceFollows` | `Spec => []AuditFollowsCalls` |
| `ReviewsAreClosed` | `Spec => []OpenReviewsWereInterrupted` |
| `ReviewsAreFinal` | `Spec => ClosedReviewIsFinal` |
| `CompletedAdvisories` | `Spec => []CompletedReadEverything` |
| `AdvisoriesAreWorkedOn` | `Spec => []OpenAdvisoryIsUnderWay` |
| `AdvisoriesAreFinal` | `Spec => AdvisoryIsFinal` |
| `OnlyAllowedIsSubmitted` | `Spec => SubmitsWhatWasAllowed` |

`ReviewInv` says that the rows on record are a prefix of the calls made, that the evidence
was read by the model asked, and that a decision under way is grounded. `AdvisoryInv` says
that the rows a process has made name each read once, that those it has written are in
the trace, and that the trace is never longer than the reads: with it a process that
completes the row finds every read there, whichever process wrote it. `SomeAuthor`
(without a death, some process at work has written the last row) is what makes
`OpenAdvisoryIsUnderWay` inductive: a process leaves with a conflict only when
another one is ahead of it.

`OrderLifecycleProofs` proves, for any number of exit chains, replacements, kills, crashes
and failed or lost calls, from `LifecycleConstants` alone:

| Theorem | Statement |
|---|---|
| `Invariant` | `Spec => []IInv` |
| `TypesAreKept` | `Spec => []TypeOK` |
| `OneOrderIsWorked` | `Spec => []OneWorkingOrder` |
| `ExitsOnlyReduce` | `Spec => []ExitOrdersReduce` |
| `FinishedIsFlat` | `Spec => []FinishedRunsAreFlat` |
| `ClosedChainsAreTrue` | `Spec => []ClosedChainsTellTheTruth` |
| `Implements` | `Spec => ImplementsExposure` |
| `AttemptIsSeenThrough` | `Spec => ImplementsAttemptedRun` |

None of these is inductive: they relate the broker's orders to rows the worker writes
several steps later, from answers that may be stale by then. The inductive invariant is

    IInv == Typed /\ OrdersInv /\ RecordInv /\ WorkerInv

- `OrdersInv`: the broker has only orders whose attempt is recorded, an order with a
  successor was replaced (`Successive`), and requests in flight are for recorded
  attempts. One working order per chain follows.
- `RecordInv`: a chain is booked `CANCELED` or `FILLED` only where nothing of it can work
  any more (`BooksInv`); exit chains exist only against a filled entry, and all but the
  last are closed without a fill (`ExitsInv`); a run's state is true of its chains
  (`Says`).
- `WorkerInv`: the answer about to be booked is still true (`AnswerInv`), the pending
  run transitions are true (`PlanInv`), and so is what the worker relies on at each
  place (`PlaceInv`).

The worker reads the broker, and the broker moves before the worker writes. What makes
that harmless is that the broker's moves are monotone (`Later`): a filled order stays
filled, a dead chain stays dead, a recorded attempt stays recorded. Each fact of
`WorkerInv` is shown to survive any `Later` step once, and then each action is shown to
establish it. For the refinement, `Account` states what the account sees of the orders, and
`Separate` that a step moves either the broker or the run, and never a finished run, by the
table or to `RISK_OFF`; each of the two then maps to one action of `Exposure` or to a
stutter. `AttemptedRun` follows from the same `Separate`, from `Remembers` (the broker never
forgets an order) and from `FinishedWasPlaced` (a finished run had its order, because a chain
is closed only on an answer about it). The parts of `IInv` were checked by TLC on the
constants of `order_safety` before they were proved.

Together `AttemptIsSeenThrough` and `AttemptedRunsAreLeftAlone` say that the two models
agree at the entry transaction: whatever `OrderLifecycle` can do to a run is a behaviour
of `AttemptedRun`, and in `EntryGate` nothing but the handling of orders touches an
attempted run. `HandlingIsComplete` is the converse for the coarse handling: every move and
end `AttemptedRun` has is a target of `OrderStep`, so the theorems about `EntryGate`
leave out nothing the detailed model can do to a run.

Only model-checked: what needs fairness, since liveness is beyond the prover
(`ScreeningEnds`, `ExitIsPlaced`, `UnfilledIsCanceled`, `UnfilledIsNotForgotten`,
`FillIsBooked`, `ExitResumes`), and the four statements the code does not satisfy (section
4), which TLC refutes.

## 6. Not modelled, and what could follow

Not modelled: the choice among the ranked candidates of several symbols
(`rank_candidates`; `Screening` takes any order) and of the rejected candidate for
the advisory; deterministic identifiers and hashes, which are one value each; the joins of
`market.py`, the retries of reads and the schema validation of the MCP client, whose
results are the snapshots and evidence the models choose freely; settings and
evidence contracts, checked once at start-up; the disarmed (shadow) mode and heartbeats, which
write nothing orders depend on; dashboards, reports, replay, rehearsal, preflight and the
smoke test, which read or rehearse the same runtime.

What could follow:

1. The lease with a clock and a TTL: what `renew_lease` would give if it were called.
2. Runs of their own for the three limits of section 4, and a second worker in `Screening`.
3. The read retries of the MCP client and the identity of its session.
