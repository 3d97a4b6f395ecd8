-------------------------- MODULE EntryGateProofs --------------------------
(* Proofs about EntryGate, for every set of workers and candidates, every     *)
(* number of days, crashes and clears, and with or without overlapping        *)
(* cycles: nothing below uses the lease.                                      *)
EXTENDS EntryGate, WellFoundedInduction, TLAPS

-----------------------------------------------------------------------------
(* The newest date of a set of dates is one of them: this is what makes       *)
(* find_active_strategy_run (ActiveDay) return a date or nothing.             *)

LEMMA LatestIsMember ==
    ASSUME NEW S, S \subseteq Days, S # {}
    PROVE  Latest(S) \in S
<1> DEFINE T == {MaxDay - d : d \in S}
<1>1. MaxDay \in Nat /\ \A d \in S : d \in Int /\ d <= MaxDay
  BY GateConstants DEF Days
<1>2. \A d \in S : MaxDay - d \in Nat
  BY <1>1
<1>3. T \subseteq Nat /\ T # {}
  BY <1>2
<1>4. PICK t \in T : \A u \in T : ~(<<u, t>> \in OpToRel(<, Nat))
  <2> HIDE DEF T
  <2> QED BY <1>3, WFMin, NatLessThanWellFounded
<1>5. \A u \in T : ~(u < t)
  BY <1>3, <1>4 DEF OpToRel
<1>6. PICK d \in S : t = MaxDay - d
  BY <1>4
<1>7. \A e \in S : e <= d
  <2> SUFFICES ASSUME NEW e \in S PROVE e <= d
    OBVIOUS
  <2>1. MaxDay - e \in T
    OBVIOUS
  <2>2. ~(MaxDay - e < MaxDay - d)
    BY <1>5, <1>6, <2>1
  <2> QED
    BY <1>1, <2>2
<1> QED
  BY <1>7 DEF Latest

LEMMA ActiveDayRange ==
    /\ ActiveDay \in 0..MaxDay
    /\ ActiveDay # 0 => ActiveDay \in Days
<1>1. ActiveDays \subseteq Days
  BY DEF ActiveDays
<1>2. ActiveDays # {} => Latest(ActiveDays) \in Days
  BY <1>1, LatestIsMember
<1> QED
  BY <1>2, GateConstants DEF ActiveDay, Days

-----------------------------------------------------------------------------
(* Type correctness.                                                          *)

LEMMA SomeCandidate == Some \in Candidates
  BY GateConstants DEF Some

LEMMA View0Typed == View0 \in View
<1>1. 1 \in Days
  BY GateConstants DEF Days
<1> QED
  BY <1>1, GateConstants, SomeCandidate
  DEF View0, View, PCs, STRATEGY_STATES, PreDispatchStates

LEMMA TypeInit == Init => TypeOK
<1> SUFFICES ASSUME Init PROVE TypeOK
  OBVIOUS
<1> USE GateConstants, SomeCandidate
<1>0. 1 \in Days
  BY DEF Days
<1>2. DurableOK
  BY DEF Init, DurableOK
<1>3. EnvOK
  BY <1>0 DEF Init, EnvOK
<1>4. LocalOK
  BY View0Typed DEF Init, LocalOK, PCs
<1> QED
  BY <1>2, <1>3, <1>4 DEF TypeOK

LEMMA ViewTyped ==
    ASSUME LocalOK, NEW p \in Workers
    PROVE  /\ view[p] \in View
           /\ view[p].date \in Days /\ view[p].cand \in Candidates
           /\ view[p].queue \subseteq Candidates
           /\ view[p].to \in STRATEGY_STATES /\ view[p].next \in PCs
           /\ Key(p) \in Keys
  BY DEF LocalOK, View, Key, Keys

LEMMA ActivateKillTyped ==
    ASSUME DurableOK, NEW r, ActivateKill(r)
    PROVE  DurableOK'
  BY DEF DurableOK, ActivateKill, STRATEGY_STATES

LEMMA GotoTyped ==
    ASSUME LocalOK, NEW p \in Workers, NEW l \in PCs, Goto(p, l)
    PROVE  pc' \in [Workers -> PCs]
  BY DEF LocalOK, Goto

LEMMA AskTyped ==
    ASSUME LocalOK, NEW p \in Workers, NEW to \in STRATEGY_STATES, NEW l \in PCs,
           Ask(p, to, l)
    PROVE  pc' \in [Workers -> PCs] /\ view' \in [Workers -> View]
<1>1. [view[p] EXCEPT !.to = to, !.next = l] \in View
  BY ViewTyped DEF View
<1> QED
  BY <1>1 DEF LocalOK, Ask, Goto, PCs

LEMMA CycleTyped ==
    ASSUME TypeOK, NEW p \in Workers, Cycle(p)
    PROVE  TypeOK'
<1> USE DEF TypeOK, At, Raise, durable, env, broker
<1> USE GateConstants, SomeCandidate, ViewTyped
<1>1. CASE Acquire(p)
  <2>1. [View0 EXCEPT !.today = day, !.act = phase] \in View
    BY View0Typed DEF EnvOK, View
  <2>2. LocalOK'
    BY <1>1, <2>1 DEF Acquire, LocalOK, Goto, PCs
  <2> QED BY <1>1, <2>2 DEF Acquire, DurableOK, EnvOK
<1>2. CASE FirstFind(p)
  <2>1. [view[p] EXCEPT !.seen = ActiveDay] \in View
    BY ActiveDayRange DEF View
  <2>2. LocalOK'
    BY <1>2, <2>1 DEF FirstFind, LocalOK, Goto, PCs
  <2> QED BY <1>2, <2>2 DEF FirstFind, DurableOK, EnvOK
<1>3. CASE EquityFloor(p)
  <2>1. DurableOK'
    BY <1>3, ActivateKillTyped DEF EquityFloor, DurableOK
  <2>2. LocalOK'
    BY <1>3 DEF EquityFloor, LocalOK, Goto, PCs
  <2> QED BY <1>3, <2>1, <2>2 DEF EquityFloor, EnvOK
<1>4. CASE Find(p)
  <2>1. ActiveDay # 0 => [view[p] EXCEPT !.date = ActiveDay] \in View
    BY ActiveDayRange DEF View
  <2>2. ActiveDay # 0 => \A l \in {"create", "done"} :
            [view[p] EXCEPT !.date = ActiveDay, !.to = "NO_TRADE", !.next = l] \in View
    <3>1. "NO_TRADE" \in STRATEGY_STATES /\ {"create", "done"} \subseteq PCs
      BY DEF PCs, STRATEGY_STATES, TERMINAL_STRATEGY_STATES
    <3> QED BY <3>1, ActiveDayRange DEF View
  <2>3. LocalOK'
    BY <1>4, <2>1, <2>2 DEF Find, LocalOK, Goto, PCs
  <2> QED BY <1>4, <2>3 DEF Find, DurableOK, EnvOK
<1>5. CASE Manage(p)
  <2>1. [view[p] EXCEPT !.seen = view[p].date] \in View
    BY DEF View, Days
  <2>2. {"NO_TRADE", "SCREENING"} \subseteq STRATEGY_STATES /\ {"done", "collect"} \subseteq PCs
    BY DEF STRATEGY_STATES, PreDispatchStates, TERMINAL_STRATEGY_STATES, PCs
  <2>3. LocalOK'
    BY <1>5, <2>1, <2>2, AskTyped DEF Manage, LocalOK, Goto, PCs
  <2> QED BY <1>5, <2>3 DEF Manage, DurableOK, EnvOK
<1>6. CASE Transition(p)
  <2>1. [view[p] EXCEPT !.to = View0.to, !.next = View0.next] \in View
    BY View0Typed DEF View
  <2>2. DurableOK'
    BY <1>6 DEF Transition, DurableOK
  <2>3. LocalOK'
    BY <1>6, <2>1 DEF Transition, LocalOK, Goto, PCs
  <2> QED BY <1>6, <2>2, <2>3 DEF Transition, EnvOK
<1>7. CASE KillStep(p)
  <2>1. DurableOK'
    BY <1>7, ActivateKillTyped DEF KillStep
  <2>2. LocalOK'
    BY <1>7 DEF KillStep, LocalOK, Goto, PCs
  <2> QED BY <1>7, <2>1, <2>2 DEF KillStep, EnvOK
<1>8. CASE Release(p)
  <2>2. LocalOK'
    BY <1>8, View0Typed DEF Release, LocalOK, Goto, PCs
  <2> QED BY <1>8, <2>2 DEF Release, DurableOK, EnvOK
<1> QED
  BY <1>1, <1>2, <1>3, <1>4, <1>5, <1>6, <1>7, <1>8 DEF Cycle

LEMMA ScanTyped ==
    ASSUME TypeOK, NEW p \in Workers, Scan(p)
    PROVE  TypeOK'
<1> USE DEF TypeOK, At, Raise, durable, env, broker
<1> USE GateConstants, ViewTyped
<1>0. {"AI_REVIEW", "POLICY_CHECK", "SCREENING", "NO_TRADE", "DISCOVERING"} \subseteq STRATEGY_STATES
  BY DEF STRATEGY_STATES, PreDispatchStates, TERMINAL_STRATEGY_STATES
<1>1. CASE CreateRun(p)
  <2>1. view[p].today \in Days
    BY DEF LocalOK, View
  <2>2. DurableOK'
    BY <1>1, <1>0, <2>1 DEF CreateRun, DurableOK
  <2>3. /\ [view[p] EXCEPT !.date = view[p].today] \in View
        /\ [view[p] EXCEPT !.date = view[p].today, !.to = "SCREENING", !.next = "collect"] \in View
    <3>1. "collect" \in PCs
      BY DEF PCs
    <3> QED BY <1>0, <2>1, <3>1 DEF View
  <2>4. LocalOK'
    BY <1>1, <2>3 DEF CreateRun, LocalOK, Goto, PCs
  <2> QED BY <1>1, <2>2, <2>4 DEF CreateRun, EnvOK
<1>2. CASE Collect(p)
  <2>1. \A S \in SUBSET Candidates : [view[p] EXCEPT !.queue = S] \in View
    BY DEF View
  <2>2. LocalOK'
    BY <1>2, <2>1 DEF Collect, LocalOK, Goto, PCs
  <2> QED BY <1>2, <2>2 DEF Collect, DurableOK, EnvOK
<1>3. CASE NextCandidate(p)
  <2>1. "intent" \in PCs
    BY DEF PCs
  <2>2. \A k \in view[p].queue :
           LET v == [view[p] EXCEPT !.cand = k, !.queue = @ \ {k}, !.clean = FALSE, !.fresh = FALSE]
           IN v \in View /\ [v EXCEPT !.to = "AI_REVIEW", !.next = "intent"] \in View
    BY <1>0, <2>1 DEF View
  <2>3. view' \in [Workers -> View]
    <3>1. PICK k \in view[p].queue, u \in View : view' = [view EXCEPT ![p] = u]
      <4>1. PICK k \in view[p].queue :
               LET v == [view[p] EXCEPT !.cand = k, !.queue = @ \ {k}, !.clean = FALSE, !.fresh = FALSE]
               IN view' = [view EXCEPT ![p] =
                     IF run[v.date] = "SCREENING"
                       THEN [v EXCEPT !.to = "AI_REVIEW", !.next = "intent"] ELSE v]
        BY <1>3 DEF NextCandidate
      <4> QED BY <2>2, <4>1
    <3> QED BY <3>1 DEF LocalOK
  <2>4. pc' \in [Workers -> PCs]
    BY <1>3 DEF NextCandidate, LocalOK, Goto, PCs
  <2>5. LocalOK'
    BY <1>3, <2>3, <2>4 DEF NextCandidate, LocalOK
  <2> QED BY <1>3, <2>5 DEF NextCandidate, DurableOK, EnvOK
<1>4. CASE RecordIntent(p)
  <2>1. DurableOK'
    BY <1>4 DEF RecordIntent, DurableOK
  <2>2. LocalOK'
    BY <1>4 DEF RecordIntent, LocalOK, Goto, PCs
  <2> QED BY <1>4, <2>1, <2>2 DEF RecordIntent, EnvOK
<1>5. CASE CreateChain(p)
  <2>1. DurableOK'
    BY <1>5 DEF CreateChain, DurableOK
  <2>2. LocalOK'
    BY <1>5 DEF CreateChain, LocalOK, Goto, PCs
  <2> QED BY <1>5, <2>1, <2>2 DEF CreateChain, EnvOK
<1>6. CASE AgentReview(p)
  <2>1. LocalOK'
    BY <1>6, <1>0, AskTyped DEF AgentReview, LocalOK, Goto, PCs
  <2> QED BY <1>6, <2>1 DEF AgentReview, DurableOK, EnvOK
<1>7. CASE FreshRevalidate(p)
  <2>1. LocalOK'
    BY <1>7, <1>0, AskTyped DEF FreshRevalidate, LocalOK, Goto, PCs
  <2> QED BY <1>7, <2>1 DEF FreshRevalidate, DurableOK, EnvOK
<1>8. CASE BackOut(p)
  <2>1. [view[p] EXCEPT !.seen = view[p].date] \in View
    BY DEF View, Days
  <2>2. LocalOK'
    BY <1>8, <1>0, <2>1, AskTyped DEF BackOut, LocalOK, Goto, PCs
  <2> QED BY <1>8, <2>2 DEF BackOut, DurableOK, EnvOK
<1>9. CASE Rejected(p)
  <2>1. LocalOK'
    BY <1>9, <1>0, AskTyped DEF Rejected, LocalOK, Goto, PCs
  <2> QED BY <1>9, <2>1 DEF Rejected, DurableOK, EnvOK
<1> QED
  BY <1>1, <1>2, <1>3, <1>4, <1>5, <1>6, <1>7, <1>8, <1>9 DEF Scan

LEMMA PlaceOrderTyped ==
    ASSUME LocalOK, NEW d \in Days, PlaceOrder(d)
    PROVE  live' \subseteq Days /\ underway' \subseteq Days
  BY DEF LocalOK, PlaceOrder

LEMMA SubmitTyped ==
    ASSUME TypeOK, NEW p \in Workers, Submit(p)
    PROVE  TypeOK'
<1> USE DEF TypeOK, At, Raise, durable, env, broker
<1> USE GateConstants, ViewTyped
<1>1. CASE Snapshot(p)
  <2>1. \A b, c \in BOOLEAN : [view[p] EXCEPT !.clean = b, !.fresh = c] \in View
    BY DEF View
  <2>2. (live = {}) \in BOOLEAN /\ (~Expired(view[p].date)) \in BOOLEAN
    BY DEF Expired
  <2>3. LocalOK'
    BY <1>1, <2>1, <2>2 DEF Snapshot, LocalOK, Goto, PCs
  <2> QED BY <1>1, <2>3 DEF Snapshot, DurableOK, EnvOK
<1>2. CASE Admission(p)
  <2>1. LocalOK'
    BY <1>2 DEF Admission, LocalOK, Goto, PCs
  <2> QED BY <1>2, <2>1 DEF Admission, DurableOK, EnvOK
<1>3. CASE BeginSubmission(p)
  <2>1. "SUBMITTING" \in STRATEGY_STATES
    BY DEF STRATEGY_STATES, WorkingEntryStates
  <2>2. <<view[p].date, view[p].cand>> \in Keys
    BY DEF Key
  <2>3. DurableOK'
    BY <1>3, <2>1, <2>2 DEF BeginSubmission, DurableOK
  <2>4. LocalOK'
    BY <1>3 DEF BeginSubmission, LocalOK, Goto, PCs
  <2> QED BY <1>3, <2>3, <2>4 DEF BeginSubmission, EnvOK
<1>4. CASE Dispatch(p)
  <2>1. LocalOK'
    BY <1>4, PlaceOrderTyped DEF Dispatch, LocalOK, Goto, PCs
  <2> QED BY <1>4, <2>1 DEF Dispatch, DurableOK, EnvOK
<1>5. CASE OrderStep(p)
  <2>1. OrderTargets(pc[p]) \subseteq STRATEGY_STATES
    BY DEF OrderTargets, STRATEGY_STATES, WorkingEntryStates, ExitStates, TERMINAL_STRATEGY_STATES
  <2>2. DurableOK'
    BY <1>5, <2>1 DEF OrderStep, DurableOK
  <2>3. LocalOK'
    BY <1>5 DEF OrderStep, LocalOK, Goto, PCs
  <2> QED BY <1>5, <2>2, <2>3 DEF OrderStep, EnvOK
<1>6. CASE OrderUncertain(p)
  <2>1. [view[p] EXCEPT !.seen = view[p].date] \in View
    BY DEF View, Days
  <2>2. LocalOK'
    BY <1>6, <2>1 DEF OrderUncertain, LocalOK, Goto, PCs
  <2> QED BY <1>6, <2>2 DEF OrderUncertain, DurableOK, EnvOK
<1>7. CASE Resume(p)
  <2>1. LocalOK'
    BY <1>7 DEF Resume, LocalOK, Goto, PCs
  <2> QED BY <1>7, <2>1 DEF Resume, DurableOK, EnvOK
<1>8. CASE Resend(p)
  <2>1. LocalOK'
    BY <1>8, PlaceOrderTyped DEF Resend, LocalOK, Goto, PCs
  <2> QED BY <1>8, <2>1 DEF Resend, DurableOK, EnvOK
<1> QED
  BY <1>1, <1>2, <1>3, <1>4, <1>5, <1>6, <1>7, <1>8 DEF Submit

LEMMA EnvironmentTyped ==
    ASSUME TypeOK,
           \/ \E p \in Workers : Crash(p)
           \/ Operator \/ Tick \/ LeaseExpires
           \/ \E d \in Days : Arrive(d)
    PROVE  TypeOK'
<1> USE DEF TypeOK, durable, env, broker
<1> USE GateConstants
<1>1. ASSUME NEW p \in Workers, Crash(p) PROVE TypeOK'
  <2>1. LocalOK'
    BY <1>1, View0Typed DEF Crash, LocalOK, Goto, PCs
  <2> QED BY <1>1, <2>1 DEF Crash, DurableOK, EnvOK
<1>2. ASSUME NEW d \in Days, Arm(d) \/ Revoke(d) PROVE TypeOK'
  <2>1. DurableOK'
    BY <1>2 DEF Arm, Revoke, DurableOK
  <2> QED BY <1>2, <2>1 DEF Arm, Revoke, EnvOK, LocalOK
<1>3. CASE OperatorReads
  <2>1. EnvOK'
    BY <1>3, ActiveDayRange DEF OperatorReads, EnvOK, DurableOK
  <2> QED BY <1>3, <2>1 DEF OperatorReads, DurableOK, LocalOK
<1>4. CASE OperatorActivates
  <2>1. DurableOK'
    BY <1>4, ActivateKillTyped DEF OperatorActivates
  <2>2. EnvOK'
    BY <1>4 DEF OperatorActivates, EnvOK
  <2> QED BY <1>4, <2>1, <2>2 DEF OperatorActivates, LocalOK
<1>5. CASE OperatorClears
  <2>0. version + 1 \in Nat
    BY DEF DurableOK
  <2>1. version' \in {version, version + 1} /\ kill' \in {kill, FALSE}
    BY <1>5, Zenon DEF OperatorClears
  <2>2. DurableOK'
    BY <1>5, <2>0, <2>1 DEF OperatorClears, DurableOK
  <2>3. EnvOK'
    BY <1>5 DEF OperatorClears, EnvOK
  <2> QED BY <1>5, <2>2, <2>3 DEF OperatorClears, LocalOK
<1>6. CASE Tick
  <2>1. EnvOK'
    BY <1>6 DEF Tick, EnvOK, Days
  <2> QED BY <1>6, <2>1 DEF Tick, DurableOK, LocalOK
<1>7. CASE LeaseExpires
  BY <1>7 DEF LeaseExpires, DurableOK, EnvOK, LocalOK
<1>8. ASSUME NEW d \in Days, Arrive(d) PROVE TypeOK'
  BY <1>8 DEF Arrive, DurableOK, EnvOK, LocalOK
<1> QED
  BY <1>1, <1>2, <1>3, <1>4, <1>5, <1>6, <1>7, <1>8 DEF Operator

LEMMA TypeStep == TypeOK /\ [Next]_vars => TypeOK'
<1> SUFFICES ASSUME TypeOK, [Next]_vars PROVE TypeOK'
  OBVIOUS
<1>1. CASE UNCHANGED vars
  BY <1>1 DEF vars, durable, env, broker, TypeOK, DurableOK, EnvOK, LocalOK
<1>2. ASSUME NEW p \in Workers, Worker(p) PROVE TypeOK'
  BY <1>2, CycleTyped, ScanTyped, SubmitTyped DEF Worker
<1> QED
  BY <1>1, <1>2, EnvironmentTyped DEF Next

\* Every variable of the entry gate keeps its type: in particular what the
\* durable rows hold stays inside the state tables of storage.py.
THEOREM TypeCorrect == Spec => []TypeOK
  BY TypeInit, TypeStep, PTL DEF Spec

-----------------------------------------------------------------------------
(* At most one dispatch per date.  The ledger alone is not inductive for      *)
(* OneEntryPerDay: a worker between the commit and the call must be known to  *)
(* hold the only right to make it.                                            *)

\* No queued transition leads straight to a dispatch.
NoneQueued == \A p \in Workers : view[p].next # "dispatch"

\* A worker about to call the broker holds a committed attempt not yet sent.
DispatchIsCommitted ==
    \A p \in Workers : At(p, "dispatch") => Key(p) \in attempts /\ sent[Key(p)] = 0

\* Two workers are never about to send the same order.
DispatchersApart ==
    \A p, q \in Workers : At(p, "dispatch") /\ At(q, "dispatch") /\ p # q => Key(p) # Key(q)

SentOnce == \A x \in Keys : sent[x] <= 1 /\ (sent[x] = 1 => x \in attempts)

DispatchInv == NoneQueued /\ DispatchIsCommitted /\ DispatchersApart /\ SentOnce

IInv == TypeOK /\ LedgerMatchesAttempts /\ DispatchInv

\* A step of worker p that has nothing to do with a dispatch.
Quiet(p) ==
    /\ UNCHANGED <<attempts, sent>>
    /\ \A q \in Workers \ {p} : pc'[q] = pc[q] /\ view'[q] = view[q]
    /\ pc'[p] # "dispatch" /\ view'[p].next # "dispatch"

LEMMA QuietKeepsDispatch ==
    ASSUME DispatchInv, NEW p \in Workers, Quiet(p)
    PROVE  DispatchInv'
<1>1. NoneQueued'
  BY DEF DispatchInv, NoneQueued, Quiet
<1>2. DispatchIsCommitted'
  BY DEF DispatchInv, DispatchIsCommitted, Quiet, At, Key
<1>3. DispatchersApart'
  BY DEF DispatchInv, DispatchersApart, Quiet, At, Key
<1>4. SentOnce'
  BY DEF DispatchInv, SentOnce, Quiet
<1> QED
  BY <1>1, <1>2, <1>3, <1>4 DEF DispatchInv

LEMMA AskQuiet ==
    ASSUME TypeOK, NEW p \in Workers, NEW to, NEW l, l # "dispatch", Ask(p, to, l),
           UNCHANGED <<attempts, sent>>
    PROVE  Quiet(p)
  BY DEF TypeOK, LocalOK, Ask, Goto, Quiet, View

LEMMA CycleQuiet ==
    ASSUME TypeOK, NoneQueued, NEW p \in Workers, Cycle(p)
    PROVE  Quiet(p)
<1> USE DEF TypeOK, LocalOK, NoneQueued, At, Goto, Raise, durable, env, broker
<1>1. CASE Acquire(p)
  BY <1>1 DEF Acquire, Quiet, View0
<1>2. CASE FirstFind(p)
  BY <1>2 DEF FirstFind, Quiet, View
<1>3. CASE EquityFloor(p)
  BY <1>3 DEF EquityFloor, ActivateKill, Quiet
<1>4. CASE Find(p)
  BY <1>4 DEF Find, Quiet, View
<1>5. CASE Manage(p)
  <2>1. UNCHANGED <<attempts, sent>>
    BY <1>5 DEF Manage
  <2>2. \/ \E to \in {"NO_TRADE", "SCREENING"}, l \in {"done", "collect"} : Ask(p, to, l)
        \/ \E l \in {"kill", "collect", "done", "order"} :
              Goto(p, l) /\ (view' = view \/ view' = [view EXCEPT ![p].seen = view[p].date])
    BY <1>5 DEF Manage
  <2>3. ASSUME NEW l \in {"kill", "collect", "done", "order"}, Goto(p, l),
               view' = view \/ view' = [view EXCEPT ![p].seen = view[p].date]
        PROVE  Quiet(p)
    BY <2>1, <2>3 DEF Quiet, View
  <2> QED BY <2>1, <2>2, <2>3, AskQuiet
<1>6. CASE Transition(p)
  BY <1>6 DEF Transition, Quiet, View, View0
<1>7. CASE KillStep(p)
  BY <1>7 DEF KillStep, ActivateKill, Quiet
<1>8. CASE Release(p)
  BY <1>8 DEF Release, Quiet, View0
<1> QED
  BY <1>1, <1>2, <1>3, <1>4, <1>5, <1>6, <1>7, <1>8 DEF Cycle

LEMMA ScanQuiet ==
    ASSUME TypeOK, NoneQueued, NEW p \in Workers, Scan(p)
    PROVE  Quiet(p)
<1> USE DEF TypeOK, LocalOK, NoneQueued, At, Goto, Raise, durable, env, broker
<1>1. CASE CreateRun(p)
  BY <1>1 DEF CreateRun, Quiet, View
<1>2. CASE Collect(p)
  BY <1>2 DEF Collect, Quiet, View
<1>3. CASE NextCandidate(p)
  BY <1>3 DEF NextCandidate, Quiet, View
<1>4. CASE RecordIntent(p)
  BY <1>4 DEF RecordIntent, Quiet
<1>5. CASE CreateChain(p)
  BY <1>5 DEF CreateChain, Quiet
<1>6. CASE AgentReview(p)
  BY <1>6 DEF AgentReview, Ask, Quiet, View
<1>7. CASE FreshRevalidate(p)
  BY <1>7 DEF FreshRevalidate, Ask, Quiet, View
<1>8. CASE BackOut(p)
  BY <1>8 DEF BackOut, Ask, Quiet, View
<1>9. CASE Rejected(p)
  BY <1>9, AskQuiet DEF Rejected, Quiet
<1> QED
  BY <1>1, <1>2, <1>3, <1>4, <1>5, <1>6, <1>7, <1>8, <1>9 DEF Scan

LEMMA SubmitKeepsDispatch ==
    ASSUME IInv, NEW p \in Workers, Submit(p)
    PROVE  DispatchInv'
<1> USE DEF IInv, TypeOK, LocalOK, DispatchInv, At, Goto, Raise, durable, env, broker
<1>1. CASE \/ Snapshot(p) \/ Admission(p) \/ Resume(p) \/ Resend(p)
          \/ OrderStep(p) \/ OrderUncertain(p)
  <2>1. Snapshot(p) => Quiet(p)
    BY DEF Snapshot, Quiet, View, NoneQueued
  <2>2. Admission(p) => Quiet(p)
    BY DEF Admission, Quiet, NoneQueued
  <2>3. OrderStep(p) => Quiet(p)
    BY DEF OrderStep, Quiet, NoneQueued
  <2>4. OrderUncertain(p) => Quiet(p)
    BY DEF OrderUncertain, Quiet, View, NoneQueued
  <2>5. Resume(p) \/ Resend(p) => Quiet(p)
    BY DEF Resume, Resend, Quiet, NoneQueued
  <2> QED BY <1>1, <2>1, <2>2, <2>3, <2>4, <2>5, QuietKeepsDispatch
<1>2. CASE BeginSubmission(p)
  <2>1. CASE UNCHANGED attempts
    <3>1. Quiet(p)
      BY <1>2, <2>1 DEF BeginSubmission, MayBegin, Quiet, NoneQueued
    <3> QED BY <3>1, QuietKeepsDispatch
  <2>2. CASE attempts' # attempts
    <3>1. /\ Key(p) \notin attempts /\ Key(p) \in Keys
          /\ attempts' = attempts \cup {Key(p)}
          /\ UNCHANGED <<sent, view>>
          /\ pc' = [pc EXCEPT ![p] = "dispatch"]
      BY <1>2, <2>2, ViewTyped DEF BeginSubmission, MayBegin, Key
    <3>2. sent[Key(p)] = 0
      BY <3>1 DEF SentOnce
    <3>3. \A q \in Workers : Key(q)' = Key(q)
      BY <3>1 DEF Key
    <3>4. DispatchIsCommitted'
      BY <3>1, <3>2, <3>3 DEF DispatchIsCommitted
    <3>5. DispatchersApart'
      BY <3>1, <3>3 DEF DispatchersApart, DispatchIsCommitted
    <3>6. SentOnce' /\ NoneQueued'
      BY <3>1 DEF SentOnce, NoneQueued
    <3> QED BY <3>4, <3>5, <3>6
  <2> QED BY <2>1, <2>2
<1>3. CASE Dispatch(p)
  <2>1. /\ Key(p) \in attempts /\ Key(p) \in Keys /\ sent[Key(p)] = 0
        /\ sent' = [sent EXCEPT ![Key(p)] = sent[Key(p)] + 1]
        /\ UNCHANGED <<attempts, view>>
        /\ pc' = [pc EXCEPT ![p] = "answer"]
    BY <1>3, ViewTyped DEF Dispatch, DispatchIsCommitted
  <2>2. \A q \in Workers : Key(q)' = Key(q)
    BY <2>1 DEF Key
  <2>3. DispatchIsCommitted'
    <3> SUFFICES ASSUME NEW q \in Workers, pc'[q] = "dispatch"
                 PROVE  Key(q) \in attempts /\ sent'[Key(q)] = 0
      BY <2>1, <2>2 DEF DispatchIsCommitted
    <3>1. q # p /\ pc[q] = "dispatch"
      BY <2>1
    <3>2. Key(q) # Key(p) /\ pc[p] = "dispatch"
      BY <1>3, <3>1 DEF DispatchersApart, Dispatch
    <3>3. Key(q) \in attempts /\ sent[Key(q)] = 0 /\ Key(q) \in Keys
      BY <3>1, ViewTyped DEF DispatchIsCommitted
    <3> QED BY <2>1, <3>2, <3>3
  <2>4. DispatchersApart'
    BY <2>1, <2>2 DEF DispatchersApart
  <2>5. SentOnce'
    BY <2>1 DEF SentOnce
  <2>6. NoneQueued'
    BY <2>1 DEF NoneQueued
  <2> QED BY <2>3, <2>4, <2>5, <2>6
<1> QED
  BY <1>1, <1>2, <1>3 DEF Submit

LEMMA EnvironmentKeepsDispatch ==
    ASSUME IInv,
           \/ \E p \in Workers : Crash(p)
           \/ Operator \/ Tick \/ LeaseExpires
           \/ \E d \in Days : Arrive(d)
    PROVE  DispatchInv'
<1> USE DEF IInv, TypeOK, LocalOK, DispatchInv, durable, env, broker
<1>1. ASSUME NEW p \in Workers, Crash(p) PROVE DispatchInv'
  <2>1. Quiet(p)
    BY <1>1 DEF Crash, Goto, Quiet, View0
  <2> QED BY <2>1, QuietKeepsDispatch
<1>2. CASE Operator \/ Tick \/ LeaseExpires \/ \E d \in Days : Arrive(d)
  <2>1. UNCHANGED <<attempts, sent, pc, view>>
    BY <1>2 DEF Operator, Arm, Revoke, OperatorReads, OperatorActivates, OperatorClears,
                ActivateKill, Tick, LeaseExpires, Arrive
  <2> QED BY <2>1 DEF NoneQueued, DispatchIsCommitted, DispatchersApart, SentOnce, At, Key
<1> QED
  BY <1>1, <1>2

-----------------------------------------------------------------------------
(* The authorization ledger.                                                  *)

LEMMA ActivateKillKeepsLedger ==
    ASSUME DurableOK, LedgerMatchesAttempts, NEW r, ActivateKill(r)
    PROVE  LedgerMatchesAttempts'
  BY DEF DurableOK, LedgerMatchesAttempts, ActivateKill

LEMMA LedgerStep ==
    ASSUME TypeOK, LedgerMatchesAttempts, Next
    PROVE  LedgerMatchesAttempts'
<1> USE DEF TypeOK, durable, env, broker
<1>1. CASE UNCHANGED <<auth, consumedBy, attempts, chain>>
  BY <1>1 DEF LedgerMatchesAttempts
<1>2. ASSUME NEW p \in Workers, EquityFloor(p) PROVE LedgerMatchesAttempts'
  BY <1>1, <1>2, ActivateKillKeepsLedger DEF EquityFloor
<1>3. ASSUME NEW p \in Workers, KillStep(p) PROVE LedgerMatchesAttempts'
  BY <1>3, ActivateKillKeepsLedger DEF KillStep
<1>4. CASE OperatorActivates
  BY <1>4, ActivateKillKeepsLedger DEF OperatorActivates
<1>5. ASSUME NEW p \in Workers, CreateChain(p) PROVE LedgerMatchesAttempts'
  <2>1. Key(p) \in Keys
    BY ViewTyped
  <2>2. UNCHANGED <<auth, consumedBy, attempts>>
    BY <1>5 DEF CreateChain
  <2>3. \A x \in Keys : chain'[x] = "SUBMITTING" <=> chain[x] = "SUBMITTING"
    BY <1>5, <2>1 DEF CreateChain, DurableOK
  <2> QED BY <2>2, <2>3 DEF LedgerMatchesAttempts, Keys
<1>6. ASSUME NEW p \in Workers, BeginSubmission(p) PROVE LedgerMatchesAttempts'
  <2> DEFINE d == view[p].date
             k == view[p].cand
  <2>1. d \in Days /\ k \in Candidates
    BY ViewTyped
  <2>2. CASE ~MayBegin(d, k, view[p].fresh)
    BY <1>1, <1>6, <2>2 DEF BeginSubmission
  <2>3. CASE MayBegin(d, k, view[p].fresh)
    <3>1. /\ attempts' = attempts \cup {<<d, k>>}
          /\ chain' = [chain EXCEPT ![<<d, k>>] = "SUBMITTING"]
          /\ auth' = [auth EXCEPT ![d] = "CONSUMED"]
          /\ consumedBy' = [consumedBy EXCEPT ![d] = k]
          /\ auth[d] = "ARMED"
      BY <1>6, <2>3 DEF BeginSubmission, MayBegin
    <3> HIDE DEF d, k
    <3>2. SUFFICES ASSUME NEW e \in Days, NEW j \in Candidates
                   PROVE  /\ <<e, j>> \in attempts' <=> (auth'[e] = "CONSUMED" /\ consumedBy'[e] = j)
                          /\ <<e, j>> \in attempts' <=> chain'[<<e, j>>] = "SUBMITTING"
      BY DEF LedgerMatchesAttempts
    <3>3. CASE e = d
      BY <2>1, <3>1, <3>3 DEF LedgerMatchesAttempts, DurableOK, Keys
    <3>4. CASE e # d
      BY <2>1, <3>1, <3>4 DEF LedgerMatchesAttempts, DurableOK, Keys
    <3> QED BY <3>3, <3>4
  <2> QED BY <2>2, <2>3
<1>7. ASSUME NEW d \in Days, Arm(d) \/ Revoke(d) PROVE LedgerMatchesAttempts'
  <2>1. UNCHANGED <<consumedBy, attempts, chain>>
    BY <1>7 DEF Arm, Revoke
  <2>2. \A e \in Days : auth'[e] = "CONSUMED" <=> auth[e] = "CONSUMED"
    BY <1>7 DEF Arm, Revoke, DurableOK
  <2> QED BY <2>1, <2>2 DEF LedgerMatchesAttempts
<1>8. ASSUME NEW p \in Workers,
             Acquire(p) \/ FirstFind(p) \/ Find(p) \/ Manage(p) \/ Transition(p) \/ Release(p)
      PROVE  LedgerMatchesAttempts'
  BY <1>1, <1>8 DEF Acquire, FirstFind, Find, Manage, Transition, Release
<1>9. ASSUME NEW p \in Workers,
             CreateRun(p) \/ Collect(p) \/ NextCandidate(p) \/ RecordIntent(p) \/ AgentReview(p)
                 \/ FreshRevalidate(p) \/ BackOut(p) \/ Rejected(p)
      PROVE  LedgerMatchesAttempts'
  BY <1>1, <1>9 DEF CreateRun, Collect, NextCandidate, RecordIntent, AgentReview,
                    FreshRevalidate, BackOut, Rejected
<1>10. ASSUME NEW p \in Workers,
              \/ Snapshot(p) \/ Admission(p) \/ Dispatch(p) \/ Resume(p) \/ Resend(p)
             \/ OrderStep(p) \/ OrderUncertain(p) \/ Crash(p)
       PROVE  LedgerMatchesAttempts'
  BY <1>1, <1>10 DEF Snapshot, Admission, Dispatch, Resume, Resend, OrderStep, OrderUncertain, Crash
<1>11. CASE OperatorReads \/ OperatorClears \/ Tick \/ LeaseExpires \/ \E d \in Days : Arrive(d)
  BY <1>1, <1>11 DEF OperatorReads, OperatorClears, Tick, LeaseExpires, Arrive
<1> QED
  BY <1>2, <1>3, <1>4, <1>5, <1>6, <1>7, <1>8, <1>9, <1>10, <1>11
  DEF Next, Worker, Cycle, Scan, Submit, Operator

LEMMA DispatchStep ==
    ASSUME IInv, Next
    PROVE  DispatchInv'
<1>1. ASSUME NEW p \in Workers, Cycle(p) \/ Scan(p) PROVE DispatchInv'
  BY <1>1, CycleQuiet, ScanQuiet, QuietKeepsDispatch DEF IInv, DispatchInv
<1> QED
  BY <1>1, SubmitKeepsDispatch, EnvironmentKeepsDispatch DEF Next, Worker

LEMMA InvInit == Init => IInv
<1> SUFFICES ASSUME Init PROVE IInv
  OBVIOUS
<1>1. LedgerMatchesAttempts
  BY DEF Init, LedgerMatchesAttempts, Keys
<1>2. DispatchInv
  BY DEF Init, DispatchInv, NoneQueued, DispatchIsCommitted, DispatchersApart, SentOnce,
         View0, At, Key, Keys
<1> QED
  BY <1>1, <1>2, TypeInit DEF IInv

LEMMA InvStep == IInv /\ [Next]_vars => IInv'
<1> SUFFICES ASSUME IInv, [Next]_vars PROVE IInv'
  OBVIOUS
<1>1. TypeOK'
  BY TypeStep DEF IInv
<1>2. CASE UNCHANGED vars
  BY <1>1, <1>2
  DEF IInv, vars, durable, env, broker, LedgerMatchesAttempts, DispatchInv, NoneQueued,
      DispatchIsCommitted, DispatchersApart, SentOnce, At, Key
<1>3. CASE Next
  BY <1>1, <1>3, LedgerStep, DispatchStep DEF IInv
<1> QED
  BY <1>2, <1>3

LEMMA InvImpliesOneEntry == IInv => OneEntryPerDay
<1> SUFFICES ASSUME IInv PROVE OneEntryPerDay
  OBVIOUS
<1>1. ASSUME NEW d \in Days, NEW j \in Candidates, NEW k \in Candidates,
             <<d, j>> \in attempts, <<d, k>> \in attempts
      PROVE  j = k
  BY <1>1 DEF IInv, LedgerMatchesAttempts
<1> QED
  BY <1>1 DEF OneEntryPerDay, IInv, DispatchInv, SentOnce

LEMMA Invariance == Spec => []IInv
  BY InvInit, InvStep, PTL DEF Spec

\* A strategy date never has a second broker-capable entry, and submit_entry
\* calls the broker at most once for it and never before the commit: with any
\* number of workers, also when their cycles overlap because the lease ran out.
THEOREM OneEntryPerDayHolds == Spec => []OneEntryPerDay
  BY Invariance, InvImpliesOneEntry, PTL

\* begin_authorized_entry_submission keeps authorization, attempt and chain in
\* step: an attempt exists exactly for the intent a CONSUMED row is linked to.
THEOREM LedgerHolds == Spec => []LedgerMatchesAttempts
<1>1. IInv => LedgerMatchesAttempts
  BY DEF IInv
<1> QED
  BY <1>1, Invariance, PTL

-----------------------------------------------------------------------------
(* The kill switch and the authorizations.                                    *)

LEMMA KillInit == Init => KillLeavesNothingArmed
  BY DEF Init, KillLeavesNothingArmed

LEMMA KillActivation ==
    ASSUME TypeOK, NEW r, ActivateKill(r)
    PROVE  KillLeavesNothingArmed'
  BY DEF TypeOK, DurableOK, ActivateKill, KillLeavesNothingArmed

\* All that one step can do to the kill switch, the authorizations and the attempts.
AuthStep ==
    \/ UNCHANGED <<kill, auth, attempts>>
    \/ \E r \in Nat : ActivateKill(r)
    \/ ~kill' /\ UNCHANGED <<auth, attempts>>
    \/ \E d \in Days : /\ ~kill /\ auth[d] = "NONE" /\ UNCHANGED <<kill, attempts>>
                       /\ auth' = [auth EXCEPT ![d] = "ARMED"]
    \/ \E d \in Days : /\ auth[d] = "ARMED" /\ UNCHANGED <<kill, attempts>>
                       /\ auth' = [auth EXCEPT ![d] = "REVOKED"]
    \/ \E d \in Days : /\ auth[d] = "ARMED" /\ ~kill /\ UNCHANGED kill
                       /\ auth' = [auth EXCEPT ![d] = "CONSUMED"]

LEMMA NextIsAuthStep ==
    ASSUME TypeOK, Next
    PROVE  AuthStep
<1> USE DEF TypeOK, durable, env, broker
<1>1. ASSUME NEW p \in Workers, EquityFloor(p) \/ KillStep(p) PROVE AuthStep
  <2>1. view[p].seen \in Nat
    BY GateConstants DEF LocalOK, View
  <2> QED BY <1>1, <2>1 DEF EquityFloor, KillStep, AuthStep
<1>2. CASE OperatorActivates
  BY <1>2 DEF OperatorActivates, EnvOK, AuthStep
<1>3. ASSUME NEW p \in Workers, BeginSubmission(p) PROVE AuthStep
  <2>1. view[p].date \in Days
    BY ViewTyped
  <2> QED BY <1>3, <2>1 DEF BeginSubmission, MayBegin, AuthStep
<1>4. ASSUME NEW d \in Days, Arm(d) \/ Revoke(d) PROVE AuthStep
  BY <1>4 DEF Arm, Revoke, AuthStep
<1>5. CASE OperatorClears
  BY <1>5 DEF OperatorClears, AuthStep
<1>6. ASSUME NEW p \in Workers,
             Acquire(p) \/ FirstFind(p) \/ Find(p) \/ Manage(p) \/ Transition(p) \/ Release(p)
      PROVE  AuthStep
  BY <1>6 DEF Acquire, FirstFind, Find, Manage, Transition, Release, AuthStep
<1>7. ASSUME NEW p \in Workers, Scan(p) PROVE AuthStep
  BY <1>7 DEF Scan, CreateRun, Collect, NextCandidate, RecordIntent, CreateChain, AgentReview,
              FreshRevalidate, BackOut, Rejected, AuthStep
<1>8. ASSUME NEW p \in Workers,
             \/ Snapshot(p) \/ Admission(p) \/ Dispatch(p) \/ Resume(p) \/ Resend(p)
             \/ OrderStep(p) \/ OrderUncertain(p) \/ Crash(p)
      PROVE  AuthStep
  BY <1>8 DEF Snapshot, Admission, Dispatch, Resume, Resend, OrderStep, OrderUncertain, Crash, AuthStep
<1>9. CASE OperatorReads \/ Tick \/ LeaseExpires \/ \E d \in Days : Arrive(d)
  BY <1>9 DEF OperatorReads, Tick, LeaseExpires, Arrive, AuthStep
<1> QED
  BY <1>1, <1>2, <1>3, <1>4, <1>5, <1>6, <1>7, <1>8, <1>9
  DEF Next, Worker, Cycle, Submit, Operator

LEMMA KillStepInv ==
    ASSUME TypeOK, KillLeavesNothingArmed, AuthStep
    PROVE  KillLeavesNothingArmed'
<1>1. ASSUME NEW r \in Nat, ActivateKill(r) PROVE KillLeavesNothingArmed'
  BY <1>1, KillActivation
<1> QED
  BY <1>1 DEF AuthStep, KillLeavesNothingArmed, TypeOK, DurableOK

\* While the kill switch is on no authorization is ARMED, whatever the order of
\* arming, revoking, activating and clearing: clearing the switch approves nothing.
THEOREM KillLeavesNothingArmedHolds == Spec => []KillLeavesNothingArmed
<1>1. TypeOK /\ KillLeavesNothingArmed /\ [Next]_vars => KillLeavesNothingArmed'
  <2>1. CASE UNCHANGED vars
    BY <2>1 DEF vars, durable, KillLeavesNothingArmed
  <2> QED BY <2>1, NextIsAuthStep, KillStepInv
<1> QED
  BY <1>1, KillInit, TypeCorrect, PTL DEF Spec

\* An attempt is created only with the switch off, by consuming an ARMED
\* authorization; a consumed or revoked authorization is final, so a date is
\* armed at most once.
THEOREM EntryNeedsArmed == Spec => EntryNeedsArmedAuthorization
<1> DEFINE A == /\ attempts' # attempts =>
                     ~kill /\ ~kill' /\ \E d \in Days : auth[d] = "ARMED" /\ auth'[d] = "CONSUMED"
                /\ \A d \in Days : /\ auth[d] \in {"CONSUMED", "REVOKED"} => auth'[d] = auth[d]
                                   /\ auth'[d] = "ARMED" => auth[d] \in {"NONE", "ARMED"}
<1>1. TypeOK /\ [Next]_vars => [A]_vars
  <2>1. ASSUME TypeOK, Next PROVE A
    <3>1. AuthStep
      BY <2>1, NextIsAuthStep
    <3>2. ASSUME NEW r \in Nat, ActivateKill(r) PROVE A
      BY <2>1, <3>2 DEF ActivateKill, TypeOK, DurableOK
    <3> QED BY <2>1, <3>1, <3>2 DEF AuthStep, TypeOK, DurableOK
  <2> QED BY <2>1
<1> QED
  BY <1>1, TypeCorrect, PTL DEF Spec, EntryNeedsArmedAuthorization
=============================================================================
