--------------------------- MODULE TradePricing ---------------------------
(***************************************************************************)
(* The prices of one trade, from the scan that finds its candidate to the  *)
(* exit that closes it: the cycles of the worker (runtime.py) compose the  *)
(* strategies, the payloads, permits and gateway of OrderIntents and the   *)
(* schedule.  OrderLifecycle has the states of the orders, their crashes   *)
(* and their recovery; here every call that leaves reaches the broker and  *)
(* the broker answers before the next cycle.                               *)
(*                                                                         *)
(* A cycle takes its time at its start and reads the market seconds later: *)
(* lag.  What a quote's age is compared with is the start of the cycle.    *)
(***************************************************************************)
EXTENDS OrderIntents, Schedule

CONSTANTS
  Markets,       \* the snapshots a cycle may read
  Moments,       \* bound: the minutes of a day at which cycles run
  FirstDay,      \* bounds: the days on which cycles run
  LastDay,
  Lags,          \* seconds from the start of a cycle to what it reads and sends
  MaxReprices,   \* bound on the replacements of one order
  MAX_EXIT_ORDER_CHAINS

ASSUME PricingConstants ==
  /\ Moments \subseteq Nat /\ Moments # {}
  /\ Lags \subseteq 0 .. PERMIT_TTL    \* a later permit expires, and so may the next
  /\ FirstDay \in Nat \ {NoDate} /\ LastDay \in Nat /\ FirstDay <= LastDay
  /\ MaxReprices \in Nat /\ MAX_EXIT_ORDER_CHAINS \in Nat

\* A snapshot is what the program's parsers let through, one per contract.
ASSUME MarketTypes ==
  \A m \in Markets :
    /\ {m.under.bid, m.under.ask, m.under.age, m.equity, m.buyingPower} \subseteq Int
    /\ \A s \in m.front \cup m.back :
         /\ s.right \in {"call", "put"} /\ s.eligible \in BOOLEAN /\ s.penny \in BOOLEAN
         /\ {s.strike, s.bid, s.ask, s.age} \subseteq Int
    /\ \A s, t \in m.front : Symbol(s) = Symbol(t) => s = t

\* Strikes in whole dimes, as options are listed.  No parser checks it, so nothing here
\* assumes it; what depends on it says so.
StrikesOnDimes == \A m \in Markets : \A s \in m.front : s.strike % (10 * CENT) = 0

VARIABLES
  profile,   \* strategy profile of the worker and its run
  day, clock,
  kill,      \* kill switch, or a run in RISK_OFF
  phase,     \* where the run is
  date,      \* strategy_date of the run
  seen,      \* the market the candidate was found in
  cand,      \* the candidate
  entry,     \* the payload of the entry intent, with the price of the last attempt
  exit,      \* the payload of the exit, likewise
  budget,    \* what the trade may lose, fixed with the candidate
  reprices,  \* replacements of the working order
  exits      \* exit chains begun

vars == <<profile, day, clock, kill, phase, date, seen, cand, entry, exit, budget,
          reprices, exits>>
time  == <<profile, day, clock>>
trade == <<date, budget>>

None == [none |-> TRUE]
Phases == {"screening", "candidate", "entry", "open", "exit", "flat", "no_trade",
           "refused", "manual"}

PricingTypeOK ==
  /\ profile \in {"earnings", "canary"}
  /\ day \in FirstDay .. LastDay /\ clock \in Moments /\ kill \in BOOLEAN
  /\ phase \in Phases /\ date \in 0 .. LastDay
  /\ seen \in Markets \cup {None}
  /\ budget \in 0 .. 5 * DOLLAR
  /\ reprices \in 0 .. MaxReprices /\ exits \in 0 .. MAX_EXIT_ORDER_CHAINS
  /\ phase = "candidate" => cand # None /\ seen \in Markets /\ date # NoDate
  /\ phase \in {"entry", "open", "exit", "flat", "manual"} => entry # None /\ date # NoDate
  /\ phase \in {"exit", "flat"} => exit # None /\ exits > 0

FirstMoment(S) == CHOOSE x \in S : \A y \in S : x <= y

Init ==
  /\ profile \in {"earnings", "canary"}
  /\ day = FirstDay /\ clock = FirstMoment(Moments) /\ kill = FALSE
  /\ phase = "screening" /\ date = NoDate /\ seen = None /\ cand = None
  /\ entry = None /\ exit = None /\ budget = 0 /\ reprices = 0 /\ exits = 0

----------------------------------------------------------------------------
(* Time and what is due.                                                   *)

\* Cycles may be missed: the next one runs at any later moment or day.  What follows the
\* end of the trade is another trade.
Advance ==
  /\ phase \in {"screening", "candidate", "entry", "open", "exit"}
  /\ \/ day' = day /\ clock' \in {t \in Moments : t > clock}
     \/ day < LastDay /\ day' = day + 1 /\ clock' = FirstMoment(Moments)
  /\ UNCHANGED <<profile, kill, phase, date, seen, cand, entry, exit, budget, reprices,
                 exits>>

MarketIsOpen == NINE_THIRTY <= clock /\ clock < 16 * 60
Positions    == phase \in {"open", "exit"}
WorkingEntry == phase = "entry" /\ ~kill
OpenDate     == IF phase \in {"entry", "open", "exit"} THEN date ELSE NoDate

Scheduled == action_for_time(day, clock, OpenDate, WorkingEntry, profile)

\* A kill switch with a position overrides the schedule while the market is open.
Due(action) ==
  IF kill /\ Positions /\ MarketIsOpen THEN action = "exit" ELSE action = Scheduled

StopTime   == IF profile = "canary" THEN CANARY_STOP ELSE STOP_NEW_ORDERS
CancelTime == IF profile = "canary" THEN CANARY_CANCEL ELSE CANCEL_ALL_UNFILLED
Aggressive == clock >= (IF profile = "canary" THEN 15 * 60 + 25 ELSE 9 * 60 + 53)

\* The kill switch: by the operator, or because the equity fell.
Kill ==
  /\ ~kill /\ phase \in {"candidate", "entry", "open", "exit"} /\ kill' = TRUE
  /\ phase' = IF phase = "candidate" THEN "no_trade" ELSE phase
  /\ UNCHANGED <<time, date, seen, cand, entry, exit, budget, reprices, exits>>

----------------------------------------------------------------------------
(* The entry.                                                              *)

KILL_EQUITY == 990    \* hundreds of dollars

Evaluate(m) == IF profile = "canary" THEN evaluate_intraday_symbol(m) ELSE evaluate_symbol(m)

\* A scan that finds a candidate persists its payload; building it may raise.
Scan(m) ==
  /\ phase = "screening" /\ ~kill /\ Due("entry_scan") /\ MarketIsOpen
  /\ m.equity > KILL_EQUITY
  /\ \E c \in Evaluate(m) :
       /\ cand' = c /\ seen' = m /\ budget' = c.risk_budget
       /\ entry' = EntryArguments(c)
       /\ phase' = IF CandidateIsSound(c) /\ ValidMleg(EntryArguments(c), "entry")
                     THEN "candidate" ELSE "refused"
  /\ date' = day
  /\ UNCHANGED <<time, kill, exit, reprices, exits>>

Credit(args) == 0 - args.price

\* Mutant: a price at the midpoint counts as beyond it.
FreshEarnings_Strict(m) ==
  \E fresh \in evaluate_symbol(m) :
    /\ \A r \in DOMAIN fresh.legs : Symbol(fresh.legs[r]) = Symbol(cand.legs[r])
    /\ fresh.natural_credit < Credit(entry) /\ Credit(entry) < fresh.midpoint_credit
    /\ fresh.width - Credit(entry) <= RiskBudget(m.equity)

\* _fresh_revalidate: a second scan must end with the same contracts, and the price must
\* lie between its natural and midpoint credits.
FreshEarnings(m) ==
  \E fresh \in evaluate_symbol(m) :
    /\ \A r \in DOMAIN fresh.legs : Symbol(fresh.legs[r]) = Symbol(cand.legs[r])
    /\ fresh.natural_credit <= Credit(entry) /\ Credit(entry) <= fresh.midpoint_credit
    /\ fresh.width - Credit(entry) <= RiskBudget(m.equity)

FreshIntraday(m) ==
  \E fresh \in evaluate_intraday_candidate_structure(cand, m) :
    /\ MINIMUM_PROPOSED_CREDIT <= Credit(entry) /\ Credit(entry) <= fresh.midpoint_credit
    /\ WING_WIDTH - Credit(entry) <= Lesser(MAXIMUM_LOSS, m.buyingPower)

FreshRevalidate(m) == IF profile = "canary" THEN FreshIntraday(m) ELSE FreshEarnings(m)

\* Allowed by the review and by the fresh check on the market as it now is, with the
\* equity of the scan's snapshot.  The admission reads the equity again; the
\* authorization expires at stop_new_orders.
SubmitEntry(m, equity, lag) ==
  /\ phase = "candidate" /\ FreshRevalidate([m EXCEPT !.equity = seen.equity])
  /\ equity > KILL_EQUITY /\ day = date /\ clock < StopTime /\ MarketIsOpen
  /\ phase' = IF /\ EntryPermitIssued(entry)
                 /\ Dispatched(EntryPermit(entry), "place_option_order", "agent", entry, lag)
                THEN "entry" ELSE "refused"
  /\ reprices' = 0 /\ seen' = None
  /\ UNCHANGED <<time, kill, trade, cand, entry, exit, exits>>

\* Vetoed, changed meanwhile or not admitted.
RejectCandidate ==
  /\ phase = "candidate" /\ phase' = "screening"
  /\ cand' = None /\ seen' = None /\ entry' = None /\ date' = NoDate /\ budget' = 0
  /\ UNCHANGED <<time, kill, exit, reprices, exits>>

\* The replacement of a working order goes out with the system's permit.
ReplacementGoesOut(args) ==
  Dispatched(SystemPermit("replace_order_by_id", "reprice", args),
             "replace_order_by_id", "system", args, 0)

\* Mutant: no floor.
EntryFloor_None == 0

EntryFloor == IF profile = "canary" THEN MINIMUM_PROPOSED_CREDIT ELSE cand.natural_credit

\* Mutant: the price goes below the floor.
RepriceEntry_BelowFloor ==
  LET args == [entry EXCEPT !.price = @ + 5 * CENT] IN
  /\ phase = "entry" /\ ~kill /\ Due("entry_scan") /\ MarketIsOpen
  /\ reprices < MaxReprices
  /\ IF ValidMleg(args, "entry") /\ ReplacementGoesOut(args)
       THEN entry' = args /\ UNCHANGED phase
       ELSE phase' = "refused" /\ UNCHANGED entry
  /\ reprices' = reprices + 1
  /\ UNCHANGED <<time, kill, trade, seen, cand, exit, exits>>

\* _reprice_active_order: five cents down to the floor, checked as an entry.
RepriceEntry ==
  LET credit == Greater(EntryFloor, Credit(entry) - 5 * CENT)
      args   == [entry EXCEPT !.price = 0 - credit]
  IN
  /\ phase = "entry" /\ ~kill /\ Due("entry_scan") /\ MarketIsOpen
  /\ credit < Credit(entry) /\ reprices < MaxReprices
  /\ IF ValidMleg(args, "entry") /\ ReplacementGoesOut(args)
       THEN entry' = args /\ UNCHANGED phase
       ELSE phase' = "refused" /\ UNCHANGED entry
  /\ reprices' = reprices + 1
  /\ UNCHANGED <<time, kill, trade, seen, cand, exit, exits>>

\* At the cutoff, or when killed, the working entry is cancelled.
CancelEntry ==
  /\ phase = "entry" /\ (kill \/ Due("cancel_unfilled"))
  /\ phase' = "no_trade"
  /\ UNCHANGED <<time, kill, trade, seen, cand, entry, exit, reprices, exits>>

\* The broker fills it, also while it is being cancelled.
FillEntry ==
  /\ phase = "entry" /\ phase' = "open" /\ reprices' = 0 /\ cand' = None
  /\ UNCHANGED <<time, kill, trade, seen, entry, exit, exits>>

----------------------------------------------------------------------------
(* The exit.                                                               *)

LegQuotes(m, i) == {s \in m.front : Symbol(s) = Symbol(entry.legs[i])}
LegQuote(m, i) == CHOOSE s \in LegQuotes(m, i) : TRUE

\* A leg's quote, aged by the time of the cycle's start.
QuoteUsable(q, lag) ==
  0 <= q.bid /\ q.bid <= q.ask /\ -2 <= q.age - lag /\ q.age - lag <= 60

\* quote_atomic_exit raises unless every leg has a usable quote.
ExitQuoted(m, lag) ==
  \A i \in 1 .. 4 : LegQuotes(m, i) # {} /\ QuoteUsable(LegQuote(m, i), lag)

\* Sold legs are bought back, bought ones sold.
Signed(i, sold, bought) == IF entry.legs[i].side = "sell" THEN sold ELSE 0 - bought
Sum4(v) == v[1] + v[2] + v[3] + v[4]
MidpointDebit(m) ==
  Sum4([i \in 1 .. 4 |-> Signed(i, Mid(LegQuote(m, i)), Mid(LegQuote(m, i)))])
NaturalDebit(m)  ==
  Greater(0, Sum4([i \in 1 .. 4 |-> Signed(i, LegQuote(m, i).ask, LegQuote(m, i).bid)]))
ProposedDebit(m) == round_debit_up(Greater(MidpointDebit(m), 5 * CENT), FALSE)

ExitCycle == Due("exit") /\ MarketIsOpen

\* From the scheduled moment on the canary's first exit needs no quote; the
\* earnings exit always does.
StartExit(m, lag) ==
  LET aggressive == profile = "canary" /\ Aggressive
      debit == IF aggressive THEN WingWidth(entry) ELSE ProposedDebit(m)
      args  == ExitArguments(entry, debit)
  IN
  /\ phase = "open" /\ ExitCycle /\ exits < MAX_EXIT_ORDER_CHAINS
  /\ aggressive \/ ExitQuoted(m, lag)
  /\ phase' = IF /\ ExitIsBuildable(entry, debit)
                 /\ ValidMleg(args, "exit")
                 /\ SystemPermitIssued("place_option_order", "exit", args)
                 /\ Dispatched(SystemPermit("place_option_order", "exit", args),
                               "place_option_order", "system", args, lag)
                THEN "exit" ELSE "refused"
  /\ exit' = args /\ exits' = exits + 1 /\ reprices' = 0
  /\ UNCHANGED <<time, kill, trade, seen, cand, entry>>

\* Mutant: the natural debit is not capped by the width.
RepriceExit_Uncapped(m, lag) ==
  LET debit == IF Aggressive THEN WingWidth(entry)
                             ELSE Lesser(NaturalDebit(m), exit.price + 5 * CENT)
      args  == [exit EXCEPT !.price = debit]
  IN
  /\ phase = "exit" /\ ExitCycle /\ reprices < MaxReprices
  /\ Aggressive \/ ExitQuoted(m, lag)
  /\ debit > exit.price
  /\ ReplacementGoesOut(args)
  /\ exit' = args /\ reprices' = reprices + 1
  /\ UNCHANGED <<time, kill, phase, trade, seen, cand, entry, exits>>

\* _reprice_active_order: five cents up to the natural debit; late, the full width.
RepriceExit(m, lag) ==
  LET target == Lesser(WingWidth(entry), NaturalDebit(m))
      debit  == IF Aggressive THEN WingWidth(entry) ELSE Lesser(target, exit.price + 5 * CENT)
      args   == [exit EXCEPT !.price = debit]
  IN
  /\ phase = "exit" /\ ExitCycle /\ reprices < MaxReprices
  /\ Aggressive \/ ExitQuoted(m, lag)
  /\ debit > exit.price
  /\ ReplacementGoesOut(args)
  /\ exit' = args /\ reprices' = reprices + 1
  /\ UNCHANGED <<time, kill, phase, trade, seen, cand, entry, exits>>

\* No further exit chain: the kill switch, and a human.
ExhaustExits ==
  /\ phase = "open" /\ ExitCycle /\ exits = MAX_EXIT_ORDER_CHAINS
  /\ phase' = "manual" /\ kill' = TRUE
  /\ UNCHANGED <<time, trade, seen, cand, entry, exit, reprices, exits>>

\* The broker cancels, rejects or expires the exit, which leaves the run in RISK_OFF,
\* or fills it.
ExitDies ==
  /\ phase = "exit" /\ phase' = "open" /\ kill' = TRUE
  /\ UNCHANGED <<time, trade, seen, cand, entry, exit, reprices, exits>>

FillExit ==
  /\ phase = "exit" /\ phase' = "flat"
  /\ UNCHANGED <<time, kill, trade, seen, cand, entry, exit, reprices, exits>>

----------------------------------------------------------------------------

Cycle(m, lag) ==
  \/ \E e \in {s.equity : s \in Markets} : SubmitEntry(m, e, lag)
  \/ StartExit(m, lag) \/ RepriceExit(m, lag)

Next ==
  \/ Advance \/ Kill
  \/ \E m \in Markets : Scan(m) \/ \E lag \in Lags : Cycle(m, lag)
  \/ RejectCandidate \/ RepriceEntry \/ CancelEntry \/ FillEntry
  \/ ExhaustExits \/ ExitDies \/ FillExit

Spec == Init /\ [][Next]_vars

----------------------------------------------------------------------------
(* Properties.                                                             *)

\* What one layer accepts no later one refuses: a candidate of either strategy, every
\* replacement of its price and every exit pass the builder, the payload validation, the
\* permit and the gateway.  A refusal after the begin would be taken for an unknown
\* outcome at the broker (execution.py 357-378, 896-915).
NothingIsRefusedLate == phase # "refused"

\* The round trip cannot lose more than the candidate's budget and the profile's cap:
\* not at the price of the entry, however often it was lowered after the risk was
\* checked, and not at the highest exit price sent (docs/PRD.md:304).
LossWithinBudget ==
  /\ phase \in {"entry", "open", "exit", "flat"} =>
       /\ WingWidth(entry) - Credit(entry) <= budget
       /\ profile = "canary" => WingWidth(entry) - Credit(entry) <= MAXIMUM_LOSS
  /\ phase \in {"exit", "flat"} => exit.price - Credit(entry) <= budget

\* A replacement only moves the price towards a fill: an entry asks for less credit and
\* an exit offers more, never beyond the floor and the width (runtime.py 1564-1600).
PricesMoveTowardsFill ==
  [][/\ phase = "entry" /\ phase' = "entry" /\ entry' # entry =>
          Credit(entry') < Credit(entry) /\ Credit(entry') >= EntryFloor
     /\ phase = "exit" /\ phase' = "exit" /\ exit' # exit =>
          exit.price < exit'.price /\ exit'.price <= WingWidth(entry)]_vars

\* On an unchanged market the fresh check turns away exactly the earnings candidates whose
\* midpoint was rounded below their natural credit: runtime.py 1251 can never pass such
\* a one, and every other candidate that is turned away was turned away by a changed market.
UnchangedMarketPasses ==
  phase = "candidate" =>
    (FreshRevalidate(seen) <=> ~(profile = "earnings" /\ Credit(entry) < cand.natural_credit))

\* An order starts on the broker's tick, entry and exit (docs/PRD.md:302, 318).
OrdersStartOnTick ==
  /\ phase \in {"candidate", "entry"} /\ reprices = 0 =>
       Credit(entry) % option_tick_size(Credit(entry), PennyCombination(cand.legs)) = 0
  /\ phase = "exit" /\ reprices = 0 =>
       exit.price % option_tick_size(exit.price, FALSE) = 0

\* No window leaves the trade unattended: past its cutoff or its day a working entry is due
\* for cancellation and nothing else, an open position that is overdue is due for its
\* exit, and nothing is scanned for after the stop (schedule.py 69-128).
OverdueIsDue ==
  /\ phase = "entry" /\ ~kill /\ (day > date \/ clock >= CancelTime) => Due("cancel_unfilled")
  /\ phase \in {"open", "exit"} /\ MarketIsOpen =>
       /\ day > date /\ clock >= NINE_FORTY_FIVE => Due("exit")
       /\ profile = "canary" /\ day = date /\ clock >= CANARY_EXIT => Due("exit")
       /\ Due("exit") => kill \/ day > date \/ profile = "canary"
  /\ Due("entry_scan") => clock <= StopTime

\* So is every replacement (docs/PRD.md:303, 318).
ReplacementsOnTick ==
  /\ phase = "entry" =>
       Credit(entry) % option_tick_size(Credit(entry), PennyCombination(cand.legs)) = 0
  /\ phase = "exit" => exit.price % option_tick_size(exit.price, FALSE) = 0
=============================================================================
