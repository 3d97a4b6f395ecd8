----------------------------- MODULE EntryGate -----------------------------
(* How one worker cycle takes a strategy date from nothing to a submitted    *)
(* entry order: screening, review, admission, the transaction of              *)
(* begin_authorized_entry_submission and the first broker dispatch, against   *)
(* an operator who arms and revokes authorizations and throws the kill        *)
(* switch, crashes, and (when Overlap) cycles that outlast their lease.       *)
(* What happens to an order after its dispatch is OrderLifecycle's subject;   *)
(* here it is the single coarse action OrderStep.                             *)
EXTENDS Integers, FiniteSets, Lifecycle

CONSTANTS
    Workers,      \* worker processes sharing the database
    Candidates,   \* entry intents a run can be offered (one id per symbol)
    MaxDay,       \* strategy dates are 1..MaxDay
    Profiles,     \* strategy profiles considered: "earnings", "intraday"
    Overlap,      \* TRUE: a cycle may outlast LEASE_TTL_SECONDS
    MaxCrashes,   \* bound on worker crashes
    MaxClears,    \* bound on operator clears of the kill switch
    Free, Dead    \* lease holders: nobody, a process that is gone

ASSUME GateConstants ==
    /\ MaxDay \in Nat \ {0} /\ MaxCrashes \in Nat /\ MaxClears \in Nat
    /\ Profiles \subseteq {"earnings", "intraday"} /\ Overlap \in BOOLEAN
    /\ Candidates # {} /\ Free # Dead /\ {Free, Dead} \cap Workers = {}

Days == 1..MaxDay
Keys == Days \X Candidates

VARIABLES
    profile,         \* settings.strategy_profile, fixed for a behaviour
    day, phase,      \* market date; "scan" | "gap" | "late" within it
    run,             \* strategy_runs.state per date ("NONE": no row)
    auth,            \* entry_authorizations.state per date ("NONE": no row)
    consumedBy,      \* the intent a CONSUMED authorization is linked to
    intents, chain,  \* entry order_intents rows; order_chains.state ("NONE": no row)
    attempts,        \* sequence-0 order_attempts rows
    kill, version,   \* runtime_controls
    lease,           \* runtime_leases holder
    sent,            \* place_option_order calls made by submit_entry, per intent
    live,            \* dates with an order or position at the broker
    underway,        \* dates whose order may still reach the broker
    pc, view,        \* each worker's place in its cycle and its local values
    op,              \* the operator's CLI command in progress
    crashes, clears

durable == <<run, auth, consumedBy, intents, chain, attempts, kill, version>>
env     == <<profile, day, phase, op, crashes, clears>>
broker  == <<sent, live, underway>>
vars    == <<durable, env, lease, broker, pc, view>>

PCs == {"idle", "find1", "equity", "find", "manage", "create", "collect",
        "review", "intent", "plan", "agent", "revalidate", "backoutFresh",
        "snapshot", "admission", "begin", "backoutSubmit", "dispatch",
        "answer", "order", "resend", "rejected", "txn", "kill", "done"}

Some == CHOOSE k \in Candidates : TRUE
View0 == [today |-> 1, act |-> "scan", date |-> 1, seen |-> 0, queue |-> {},
          cand |-> Some, clean |-> FALSE, fresh |-> FALSE,
          to |-> "SCREENING", next |-> "done"]

ActiveDays == {d \in Days : run[d] \notin {"NONE"} \cup TERMINAL_STRATEGY_STATES}
Latest(S) == CHOOSE d \in S : \A e \in S : e <= d
\* Mutant: a run in RISK_OFF counts as finished.
ActiveDay_SkipsRiskOff ==
    LET S == {d \in ActiveDays : run[d] # "RISK_OFF"} IN IF S = {} THEN 0 ELSE Latest(S)

\* find_active_strategy_run: the newest strategy date that is not finished.
ActiveDay == IF ActiveDays = {} THEN 0 ELSE Latest(ActiveDays)

AttemptsOf(d) == {k \in Candidates : <<d, k>> \in attempts}
Expired(d) == day > d \/ (day = d /\ phase # "scan")

Init ==
    /\ profile \in Profiles
    /\ day = 1 /\ phase = "scan"
    /\ run = [d \in Days |-> "NONE"]
    /\ auth = [d \in Days |-> "NONE"]
    /\ consumedBy = [d \in Days |-> Some]
    /\ intents = {} /\ attempts = {}
    /\ chain = [x \in Keys |-> "NONE"]
    /\ kill = FALSE /\ version = 0
    /\ lease = Free
    /\ sent = [x \in Keys |-> 0]
    /\ live = {} /\ underway = {}
    /\ pc = [p \in Workers |-> "idle"]
    /\ view = [p \in Workers |-> View0]
    /\ op = [pc |-> "idle", seen |-> 0]
    /\ crashes = 0 /\ clears = 0

-----------------------------------------------------------------------------
(* Building blocks.                                                          *)

Key(p) == <<view[p].date, view[p].cand>>
At(p, l) == pc[p] = l
Goto(p, l) == pc' = [pc EXCEPT ![p] = l]
\* An exception leaves the cycle through its finally clause.
Raise(p) == Goto(p, "done")

\* Continue with transition_strategy_run(date, to), then at label l.
Ask(p, to, l) ==
    /\ Goto(p, "txn")
    /\ view' = [view EXCEPT ![p].to = to, ![p].next = l]

\* Mutant: the state and the reason code of the transition are swapped.
ActivateKill_SwapsArguments(r) ==
    /\ auth' = [d \in Days |-> IF auth[d] = "ARMED" THEN "REVOKED" ELSE auth[d]]
    /\ kill' = TRUE
    /\ version' = IF kill THEN version ELSE version + 1
    /\ run' = IF r \in Days THEN [run EXCEPT ![r] = "KILL_SWITCH"] ELSE run
    /\ UNCHANGED <<consumedBy, intents, chain, attempts>>

\* Mutant: the revocation is not limited to ARMED rows.
ActivateKill_RevokesAll(r) ==
    /\ auth' = [d \in Days |-> IF auth[d] # "NONE" THEN "REVOKED" ELSE auth[d]]
    /\ kill' = TRUE
    /\ version' = IF kill THEN version ELSE version + 1
    /\ run' = IF r \in Days /\ run[r] \notin TERMINAL_STRATEGY_STATES
                THEN [run EXCEPT ![r] = "RISK_OFF"] ELSE run
    /\ UNCHANGED <<consumedBy, intents, chain, attempts>>

\* activate_kill_switch, one transaction; r = 0 is run_id=None.
ActivateKill(r) ==
    /\ auth' = [d \in Days |-> IF auth[d] = "ARMED" THEN "REVOKED" ELSE auth[d]]
    /\ kill' = TRUE
    /\ version' = IF kill THEN version ELSE version + 1
    /\ run' = IF r \in Days /\ run[r] \notin TERMINAL_STRATEGY_STATES
                THEN [run EXCEPT ![r] = "RISK_OFF"] ELSE run
    /\ UNCHANGED <<consumedBy, intents, chain, attempts>>

-----------------------------------------------------------------------------
(* One worker cycle (runtime.cycle, _cycle_locked, _manage_active).          *)

Acquire(p) ==
    /\ At(p, "idle") /\ lease = Free
    /\ lease' = p
    /\ Goto(p, "find1")
    /\ view' = [view EXCEPT ![p] = [View0 EXCEPT !.today = day, !.act = phase]]
    /\ UNCHANGED <<durable, env, broker>>

FirstFind(p) ==
    /\ At(p, "find1")
    /\ view' = [view EXCEPT ![p].seen = ActiveDay]
    /\ Goto(p, "equity")
    /\ UNCHANGED <<durable, env, lease, broker>>

\* The snapshot has been awaited; equity at or below 99000 throws the switch
\* for the run that was active before the await.
EquityFloor(p) ==
    /\ At(p, "equity")
    /\ \/ UNCHANGED durable
       \/ ActivateKill(view[p].seen)
    /\ Goto(p, "find")
    /\ UNCHANGED <<env, lease, broker, view>>

\* Mutant: every unfinished run of an earlier date is closed.
StaleSession_AnyState(a, today) == a < today

\* A session of an earlier date that never reached a submission.
StaleSession(a, today) ==
    run[a] \in PreDispatchStates \cup {"ERROR"} /\ a < today

\* The second read of the active run, which closes a stale session.
Find(p) ==
    /\ At(p, "find")
    /\ LET a == ActiveDay
           fresh == IF view[p].act = "scan" THEN "create" ELSE "done"
       IN \/ /\ a = 0
             /\ Goto(p, fresh)
             /\ UNCHANGED view
          \/ /\ a # 0
             /\ IF StaleSession(a, view[p].today)
                  THEN /\ Goto(p, "txn")
                       /\ view' = [view EXCEPT ![p].date = a, ![p].to = "NO_TRADE",
                                               ![p].next = fresh]
                  ELSE /\ Goto(p, "manage")
                       /\ view' = [view EXCEPT ![p].date = a]
    /\ UNCHANGED <<durable, env, lease, broker>>

Manage(p) ==
    /\ At(p, "manage")
    /\ LET d == view[p].date
           s == run[d]
       IN CASE s \in PreDispatchStates /\ (auth[d] = "CONSUMED" \/ AttemptsOf(d) # {}) ->
                 /\ Goto(p, "kill")
                 /\ view' = [view EXCEPT ![p].seen = d]
            [] s \in PreDispatchStates /\ auth[d] # "CONSUMED" /\ AttemptsOf(d) = {} ->
                 CASE view[p].act = "late" -> Ask(p, "NO_TRADE", "done")
                   [] view[p].act = "scan" /\ s # "SCREENING" -> Ask(p, "SCREENING", "collect")
                   [] view[p].act = "scan" /\ s = "SCREENING" -> Goto(p, "collect") /\ UNCHANGED view
                   [] OTHER -> Goto(p, "done") /\ UNCHANGED view
            [] s \notin PreDispatchStates ->
                 /\ Goto(p, IF AttemptsOf(d) = {} THEN "done" ELSE "order")
                 /\ UNCHANGED view
    /\ UNCHANGED <<durable, env, lease, broker>>

\* transition_strategy_run, re-reading the row inside its transaction.
Transition(p) ==
    /\ At(p, "txn")
    /\ LET d == view[p].date
           to == view[p].to
       IN \/ /\ StrategyStep(run[d], to)
             /\ run' = [run EXCEPT ![d] = to]
             /\ Goto(p, view[p].next)
          \/ /\ ~StrategyStep(run[d], to)
             /\ Raise(p)
             /\ UNCHANGED run
    /\ view' = [view EXCEPT ![p].to = View0.to, ![p].next = View0.next]
    /\ UNCHANGED <<auth, consumedBy, intents, chain, attempts, kill, version,
                   env, lease, broker>>

KillStep(p) ==
    /\ At(p, "kill")
    /\ ActivateKill(view[p].seen)
    /\ Goto(p, "done")
    /\ UNCHANGED <<env, lease, broker, view>>

\* The finally clause of cycle: release_lease deletes only the owner's row.
Release(p) ==
    /\ At(p, "done")
    /\ Goto(p, "idle")
    /\ lease' = IF lease = p THEN Free ELSE lease
    /\ view' = [view EXCEPT ![p] = View0]
    /\ UNCHANGED <<durable, env, broker>>

-----------------------------------------------------------------------------
(* Screening and review (_scan_entry, _scan_intraday_entry,                  *)
(* _review_candidate).                                                       *)

\* create_strategy_run returns the date's existing row, finished or not.
CreateRun(p) ==
    /\ At(p, "create")
    /\ LET d == view[p].today
           s == IF run[d] = "NONE" THEN "DISCOVERING" ELSE run[d]
       IN /\ run' = [run EXCEPT ![d] = s]
          /\ IF s = "DISCOVERING"
               THEN /\ Goto(p, "txn")
                    /\ view' = [view EXCEPT ![p].date = d, ![p].to = "SCREENING",
                                            ![p].next = "collect"]
               ELSE /\ Goto(p, "collect")
                    /\ view' = [view EXCEPT ![p].date = d]
    /\ UNCHANGED <<auth, consumedBy, intents, chain, attempts, kill, version,
                   env, lease, broker>>

\* Market collection leaves some candidates eligible; with none the scan ends.
Collect(p) ==
    /\ At(p, "collect")
    /\ \E eligible \in SUBSET Candidates :
          /\ view' = [view EXCEPT ![p].queue = eligible]
          /\ Goto(p, IF eligible = {} THEN "done" ELSE "review")
    /\ UNCHANGED <<durable, env, lease, broker>>

NextCandidate(p) ==
    /\ At(p, "review")
    /\ \E k \in view[p].queue :
          LET v == [view[p] EXCEPT !.cand = k, !.queue = @ \ {k},
                                   !.clean = FALSE, !.fresh = FALSE]
              ask == [v EXCEPT !.to = "AI_REVIEW", !.next = "intent"]
              screening == run[v.date] = "SCREENING"
          IN /\ view' = [view EXCEPT ![p] = IF screening THEN ask ELSE v]
             /\ Goto(p, IF screening THEN "txn" ELSE "intent")
    /\ UNCHANGED <<durable, env, lease, broker>>

\* record_order_intent: refused under the kill switch, and refused when the
\* date's intent for this symbol is already stored with other economics.
RecordIntent(p) ==
    /\ At(p, "intent")
    /\ \/ /\ ~kill
          /\ intents' = intents \cup {Key(p)}
          /\ Goto(p, "plan")
       \/ /\ kill \/ Key(p) \in intents
          /\ Raise(p)
          /\ UNCHANGED intents
    /\ UNCHANGED <<run, auth, consumedBy, chain, attempts, kill, version,
                   env, lease, broker, view>>

CreateChain(p) ==
    /\ At(p, "plan")
    /\ chain' = [chain EXCEPT ![Key(p)] = IF @ = "NONE" THEN "PLANNED" ELSE @]
    /\ Goto(p, "agent")
    /\ UNCHANGED <<run, auth, consumedBy, intents, attempts, kill, version,
                   env, lease, broker, view>>

AgentReview(p) ==
    /\ At(p, "agent")
    /\ \/ Ask(p, "POLICY_CHECK", "revalidate")            \* ALLOW
       \/ Goto(p, "rejected") /\ UNCHANGED view           \* veto, failure, timeout
    /\ UNCHANGED <<durable, env, lease, broker>>

FreshRevalidate(p) ==
    /\ At(p, "revalidate")
    /\ \/ Goto(p, "snapshot") /\ UNCHANGED view
       \/ Ask(p, "SCREENING", "rejected")
       \/ Goto(p, "backoutFresh") /\ UNCHANGED view       \* it raised
    /\ UNCHANGED <<durable, env, lease, broker>>

BackOut(p) ==
    /\ pc[p] \in {"backoutFresh", "backoutSubmit"}
    /\ \/ /\ run[view[p].date] = "POLICY_CHECK"
          /\ Ask(p, "SCREENING", "rejected")
       \/ /\ run[view[p].date] # "POLICY_CHECK"
          /\ Goto(p, IF At(p, "backoutFresh") THEN "rejected" ELSE "kill")
          /\ view' = [view EXCEPT ![p].seen = view[p].date]
    /\ UNCHANGED <<durable, env, lease, broker>>

\* What the scan does with a candidate that was not submitted.  The earnings
\* scan moves the run without looking at it; the canary's looks first
\* (_return_run_to_screening) and keeps the date open.
Rejected(p) ==
    /\ At(p, "rejected")
    /\ LET d == view[p].date
           more == view[p].queue # {}
       IN \/ profile = "earnings" /\ more  /\ Ask(p, "SCREENING", "review")
          \/ profile = "earnings" /\ ~more /\ Ask(p, "NO_TRADE", "done")
          \/ /\ profile = "intraday"
             /\ run[d] \in {"AI_REVIEW", "POLICY_CHECK", "SCREENING"}
             /\ Ask(p, "SCREENING", IF more THEN "review" ELSE "done")
          \/ /\ profile = "intraday"
             /\ run[d] \notin {"AI_REVIEW", "POLICY_CHECK", "SCREENING"}
             /\ Raise(p) /\ UNCHANGED view
    /\ UNCHANGED <<durable, env, lease, broker>>

-----------------------------------------------------------------------------
(* Admission and submission (execution.submit_entry).                        *)

\* read_broker_snapshot: exposure and time as of now, used several steps later.
Snapshot(p) ==
    /\ At(p, "snapshot")
    /\ view' = [view EXCEPT ![p].clean = (live = {}),
                            ![p].fresh = ~Expired(view[p].date)]
    /\ Goto(p, "admission")
    /\ UNCHANGED <<durable, env, lease, broker>>

\* entry_admission; any of its other reasons may also refuse.
Admission(p) ==
    /\ At(p, "admission")
    /\ \/ /\ view[p].clean /\ view[p].fresh
          /\ ~kill /\ auth[view[p].date] = "ARMED"
          /\ Goto(p, "begin")
       \/ Goto(p, "backoutSubmit")
    /\ UNCHANGED <<durable, env, lease, broker, view>>

\* The checks of begin_authorized_entry_submission, all in its transaction.
\* Expiry is judged by the snapshot's time, not the commit's.
MayBegin(d, k, fresh) ==
    /\ auth[d] = "ARMED" /\ fresh
    /\ ~kill
    /\ run[d] = "POLICY_CHECK"
    /\ <<d, k>> \in intents /\ chain[<<d, k>>] = "PLANNED"
    /\ <<d, k>> \notin attempts

BeginSubmission(p) ==
    /\ At(p, "begin")
    /\ LET d == view[p].date
           k == view[p].cand
       IN \/ /\ MayBegin(d, k, view[p].fresh)
             /\ attempts' = attempts \cup {<<d, k>>}
             /\ run' = [run EXCEPT ![d] = "SUBMITTING"]
             /\ chain' = [chain EXCEPT ![<<d, k>>] = "SUBMITTING"]
             /\ auth' = [auth EXCEPT ![d] = "CONSUMED"]
             /\ consumedBy' = [consumedBy EXCEPT ![d] = k]
             /\ Goto(p, "dispatch")
          \/ /\ ~MayBegin(d, k, view[p].fresh)
             /\ Goto(p, "backoutSubmit")
             /\ UNCHANGED <<attempts, run, chain, auth, consumedBy>>
    /\ UNCHANGED <<intents, kill, version, env, lease, broker, view>>

\* A request to place the order of date d: taken by the broker, which knows the
\* client order ID from then on, still under way, or lost.
PlaceOrder(d) ==
    \/ live' = live \cup {d} /\ underway' = underway \ {d}
    \/ live' = live /\ underway' \in {underway, underway \cup ({d} \ live)}

\* Mutant: a lost call is repeated instead of reconciled.
Dispatch_Retries(p) ==
    /\ At(p, "dispatch")
    /\ sent' = [sent EXCEPT ![Key(p)] = @ + 1]
    /\ PlaceOrder(view[p].date)
    /\ pc' \in {pc, [pc EXCEPT ![p] = "answer"]} /\ sent[Key(p)] < 2
    /\ UNCHANGED <<durable, env, lease, view>>

\* place_option_order; the caller does not know which of the three happened.
Dispatch(p) ==
    /\ At(p, "dispatch")
    /\ sent' = [sent EXCEPT ![Key(p)] = @ + 1]
    /\ PlaceOrder(view[p].date)
    /\ Goto(p, "answer")
    /\ UNCHANGED <<durable, env, lease, view>>

\* resume_entry_submission: the run is still SUBMITTING and the lookup of the order
\* and the admission allow the same request to be sent again.
Resume(p) ==
    /\ At(p, "order") /\ run[view[p].date] = "SUBMITTING" /\ ~kill
    /\ Goto(p, "resend")
    /\ UNCHANGED <<durable, env, lease, broker, view>>

Resend(p) ==
    /\ At(p, "resend")
    /\ PlaceOrder(view[p].date)
    /\ Goto(p, "answer")
    /\ UNCHANGED <<durable, env, lease, sent, view>>

\* Mutant: a date whose entry was cancelled is screened again, as the transition
\* table would allow.
OrderTargets_ScreensAgain(l) ==
    {"ORDER_PENDING", "POSITION_OPEN", "RISK_OFF", "NO_TRADE"}
        \cup IF l = "answer" THEN {}
             ELSE {"CANCEL_PENDING", "SCREENING", "EXIT_SUBMITTING", "EXIT_PENDING", "FLAT"}

\* Where the broker's answer to the submission, or any later handling of an
\* attempted order, may take the run.
OrderTargets(l) ==
    {"ORDER_PENDING", "POSITION_OPEN", "RISK_OFF", "NO_TRADE"}
        \cup IF l = "answer" THEN {}
             ELSE {"CANCEL_PENDING", "EXIT_SUBMITTING", "EXIT_PENDING", "FLAT"}

\* Everything OrderLifecycle does with an attempted order, coarsely: the run
\* moves on, and it is finished only on a broker answer about a placed order, when
\* nothing is left of it.
OrderStep(p) ==
    /\ pc[p] \in {"answer", "order"}
    /\ LET d == view[p].date
       IN \E s \in OrderTargets(pc[p]) :
             /\ StrategyStep(run[d], s)
             /\ s \in TERMINAL_STRATEGY_STATES => d \in live
             /\ run' = [run EXCEPT ![d] = s]
             /\ live' = IF s \in TERMINAL_STRATEGY_STATES THEN live \ {d} ELSE live
    /\ Goto(p, "done")
    /\ UNCHANGED <<auth, consumedBy, intents, chain, attempts, kill, version,
                   env, lease, sent, underway, view>>

\* An unresolvable outcome throws the kill switch, or the step changes nothing.
OrderUncertain(p) ==
    /\ pc[p] \in {"answer", "order"}
    /\ \/ Goto(p, "kill") /\ view' = [view EXCEPT ![p].seen = view[p].date]
       \/ Goto(p, "done") /\ UNCHANGED view
    /\ UNCHANGED <<durable, env, lease, broker>>

-----------------------------------------------------------------------------
(* The operator's CLI, the clock, the lease and the crash.                   *)

\* Mutants: arming ignores the kill switch; a revoked date can be armed again.
Arm_UnderKill(d) ==
    /\ auth[d] = "NONE" /\ ~Expired(d)
    /\ auth' = [auth EXCEPT ![d] = "ARMED"]
    /\ UNCHANGED <<run, consumedBy, intents, chain, attempts, kill, version,
                   env, lease, broker, pc, view>>

Arm_Rearms(d) ==
    /\ ~kill /\ auth[d] \in {"NONE", "REVOKED"} /\ ~Expired(d)
    /\ auth' = [auth EXCEPT ![d] = "ARMED"]
    /\ UNCHANGED <<run, consumedBy, intents, chain, attempts, kill, version,
                   env, lease, broker, pc, view>>

\* entry-authorization arm: once per date ever, not expired, not under kill.
Arm(d) ==
    /\ ~kill /\ auth[d] = "NONE" /\ ~Expired(d)
    /\ auth' = [auth EXCEPT ![d] = "ARMED"]
    /\ UNCHANGED <<run, consumedBy, intents, chain, attempts, kill, version,
                   env, lease, broker, pc, view>>

Revoke(d) ==
    /\ auth[d] = "ARMED"
    /\ auth' = [auth EXCEPT ![d] = "REVOKED"]
    /\ UNCHANGED <<run, consumedBy, intents, chain, attempts, kill, version,
                   env, lease, broker, pc, view>>

\* kill-switch on reads the active run, kill-switch off reads the version.
OperatorReads ==
    /\ op.pc = "idle"
    /\ \/ op' = [pc |-> "on", seen |-> ActiveDay]
       \/ clears < MaxClears /\ kill /\ op' = [pc |-> "off", seen |-> version]
    /\ UNCHANGED <<durable, profile, day, phase, crashes, clears, lease, broker, pc, view>>

OperatorActivates ==
    /\ op.pc = "on"
    /\ ActivateKill(op.seen)
    /\ op' = [pc |-> "idle", seen |-> 0]
    /\ UNCHANGED <<profile, day, phase, crashes, clears, lease, broker, pc, view>>

\* clear_kill_switch, a compare-and-swap on the version.
OperatorClears ==
    /\ op.pc = "off"
    /\ \/ /\ version = op.seen /\ kill
          /\ kill' = FALSE /\ version' = version + 1
       \/ /\ version # op.seen \/ ~kill
          /\ UNCHANGED <<kill, version>>
    /\ clears' = clears + 1
    /\ op' = [pc |-> "idle", seen |-> 0]
    /\ UNCHANGED <<run, auth, consumedBy, intents, chain, attempts,
                   profile, day, phase, crashes, lease, broker, pc, view>>

Tick ==
    /\ \/ phase = "scan" /\ phase' = "gap"  /\ UNCHANGED day
       \/ phase = "gap"  /\ phase' = "late" /\ UNCHANGED day
       \/ phase = "late" /\ day < MaxDay /\ phase' = "scan" /\ day' = day + 1
    /\ UNCHANGED <<durable, profile, op, crashes, clears, lease, broker, pc, view>>

\* A request that outlived its caller reaches the broker.
Arrive(d) ==
    /\ d \in underway
    /\ underway' = underway \ {d} /\ live' = live \cup {d}
    /\ UNCHANGED <<durable, env, lease, sent, pc, view>>

\* A process dies (or is cancelled) between two steps; its successor has a new
\* owner id, so the lease stays with the dead one until it expires.
Crash(p) ==
    /\ crashes < MaxCrashes /\ pc[p] # "idle"
    /\ crashes' = crashes + 1
    /\ Goto(p, "idle")
    /\ view' = [view EXCEPT ![p] = View0]
    /\ lease' = IF lease = p THEN Dead ELSE lease
    /\ UNCHANGED <<durable, profile, day, phase, op, clears, broker>>

LeaseExpires ==
    /\ lease # Free
    /\ lease = Dead \/ Overlap
    /\ lease' = Free
    /\ UNCHANGED <<durable, env, broker, pc, view>>

-----------------------------------------------------------------------------
Cycle(p) ==
    \/ Acquire(p) \/ FirstFind(p) \/ EquityFloor(p) \/ Find(p) \/ Manage(p)
    \/ Transition(p) \/ KillStep(p) \/ Release(p)

Scan(p) ==
    \/ CreateRun(p) \/ Collect(p) \/ NextCandidate(p) \/ RecordIntent(p)
    \/ CreateChain(p) \/ AgentReview(p) \/ FreshRevalidate(p) \/ BackOut(p)
    \/ Rejected(p)

Submit(p) ==
    \/ Snapshot(p) \/ Admission(p) \/ BeginSubmission(p) \/ Dispatch(p)
    \/ Resume(p) \/ Resend(p) \/ OrderStep(p) \/ OrderUncertain(p)

Worker(p) == Cycle(p) \/ Scan(p) \/ Submit(p)

Operator ==
    \/ \E d \in Days : Arm(d) \/ Revoke(d)
    \/ OperatorReads \/ OperatorActivates \/ OperatorClears

Next ==
    \/ \E p \in Workers : Worker(p) \/ Crash(p)
    \/ Operator \/ Tick \/ LeaseExpires
    \/ \E d \in Days : Arrive(d)

Spec == Init /\ [][Next]_vars

\* The worker loop never stops cycling, and a dead owner's lease runs out.
FairSpec ==
    /\ Spec
    /\ \A p \in Workers : WF_vars(Worker(p))
    /\ WF_vars(LeaseExpires)

-----------------------------------------------------------------------------
(* Properties.                                                               *)

DurableOK ==
    /\ run \in [Days -> STRATEGY_STATES \cup {"NONE"}]
    /\ auth \in [Days -> {"NONE", "ARMED", "CONSUMED", "REVOKED"}]
    /\ consumedBy \in [Days -> Candidates]
    /\ intents \subseteq Keys /\ attempts \subseteq Keys
    /\ chain \in [Keys -> {"NONE", "PLANNED", "SUBMITTING"}]
    /\ kill \in BOOLEAN /\ version \in Nat

EnvOK ==
    /\ profile \in Profiles
    /\ day \in Days /\ phase \in {"scan", "gap", "late"}
    /\ op \in [pc: {"idle", "on", "off"}, seen: Nat]
    /\ crashes \in Nat /\ clears \in Nat

View ==
    [today: Days, act: {"scan", "gap", "late"}, date: Days, seen: 0..MaxDay,
     queue: SUBSET Candidates, cand: Candidates, clean: BOOLEAN,
     fresh: BOOLEAN, to: STRATEGY_STATES, next: PCs]

LocalOK ==
    /\ lease \in Workers \cup {Free, Dead}
    /\ sent \in [Keys -> Nat] /\ live \subseteq Days /\ underway \subseteq Days
    /\ pc \in [Workers -> PCs]
    /\ view \in [Workers -> View]

\* Every variable keeps its type.
TypeOK == DurableOK /\ EnvOK /\ LocalOK

\* A strategy date has at most one broker-capable entry, whatever overlaps,
\* crashes or is retried: one attempt row, dispatched by submit_entry at most once,
\* and never without that row (the write comes before the call).
OneEntryPerDay ==
    /\ \A d \in Days, j, k \in Candidates :
          <<d, j>> \in attempts /\ <<d, k>> \in attempts => j = k
    /\ \A x \in Keys : sent[x] <= 1 /\ (sent[x] = 1 => x \in attempts)

\* The authorization ledger and the order rows never disagree: a date has an
\* attempt exactly when its authorization is CONSUMED, and then it is the
\* linked intent's, whose chain has left PLANNED.
LedgerMatchesAttempts ==
    \A d \in Days, k \in Candidates :
        /\ <<d, k>> \in attempts <=> (auth[d] = "CONSUMED" /\ consumedBy[d] = k)
        /\ <<d, k>> \in attempts <=> chain[<<d, k>>] = "SUBMITTING"

\* Under the kill switch no authorization is left ARMED, however arming, revoking
\* and activating interleave: clearing it approves nothing.
KillLeavesNothingArmed == kill => \A d \in Days : auth[d] # "ARMED"

\* A date whose order may be at the broker has a run that the worker still
\* tracks: neither finished nor back in screening.
LiveEntryIsTracked ==
    \A d \in live : run[d] \notin PreDispatchStates \cup TERMINAL_STRATEGY_STATES \cup {"NONE"}

\* At most one unfinished run and at most one date with broker exposure.
OneExposure == Cardinality(live) <= 1 /\ Cardinality(ActiveDays) <= 1

\* An attempt appears only while the kill switch is off and from an ARMED
\* authorization; the authorization never returns to ARMED afterwards.
EntryNeedsArmedAuthorization ==
    [][ /\ attempts' # attempts =>
             ~kill /\ ~kill' /\ \E d \in Days : auth[d] = "ARMED" /\ auth'[d] = "CONSUMED"
        /\ \A d \in Days : /\ auth[d] \in {"CONSUMED", "REVOKED"} => auth'[d] = auth[d]
                           /\ auth'[d] = "ARMED" => auth[d] \in {"NONE", "ARMED"}
      ]_vars

\* A date's run does not stay in screening once its window is over.
ScreeningEnds ==
    \A d \in Days :
        (day = d /\ phase = "late" /\ run[d] \in PreDispatchStates)
            ~> run[d] \notin PreDispatchStates

-----------------------------------------------------------------------------
(* The interface to OrderLifecycle.                                          *)

Fate(d) == INSTANCE AttemptedRun WITH
    run    <- IF AttemptsOf(d) = {} THEN "SUBMITTING" ELSE run[d],
    placed <- d \in live

\* From its attempt on, every date's run does what OrderLifecycle lets one do: the
\* other parts of the cycle leave it alone, also on later dates and after a crash.
\* (\A d \in Days : Fate(d)!Spec, with the quantifier within the box.)
ImplementsAttemptedRun ==
    /\ \A d \in Days : Fate(d)!Init
    /\ [][\A d \in Days : [Fate(d)!Next]_(Fate(d)!vars)]_vars
=============================================================================
