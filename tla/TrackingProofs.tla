--------------------------- MODULE TrackingProofs ---------------------------
(* Proofs about EntryGate for workers that never overlap (~Overlap: every     *)
(* cycle ends or dies within its lease), for any number of workers,           *)
(* candidates, dates, crashes and clears: what the worker that holds the      *)
(* lease may rely on, and that exposure is always tracked.                    *)
EXTENDS EntryGateProofs, FiniteSetTheorems

-----------------------------------------------------------------------------
(* The inductive invariant.                                                   *)

\* The states AttemptedRun leaves an attempted, unfinished run in.
Unfinished == WorkingEntryStates \cup ExitStates \cup {"POSITION_OPEN", "RISK_OFF"}

\* Whoever is in its cycle holds the lease.
Alone == \A p \in Workers : pc[p] # "idle" => lease = p

\* What a process remembers as a run has a row: rows are never deleted.
KnownRuns ==
    /\ \A p \in Workers : view[p].seen \in Days => run[view[p].seen] # "NONE"
    /\ op.pc = "on" /\ op.seen \in Days => run[op.seen] # "NONE"

\* What the rows and the broker may say of an attempted date.
AttemptsTracked ==
    /\ \A d \in Days : AttemptsOf(d) # {} => run[d] \in Unfinished \cup TERMINAL_STRATEGY_STATES
    /\ \A d \in live \cup underway : AttemptsOf(d) # {} /\ run[d] \in Unfinished
    /\ live \cap underway = {}

OneActive == \A d, e \in ActiveDays : d = e

\* From the collection of the market to the entry transaction.
ScanPlaces == {"collect", "review", "intent", "plan", "agent", "revalidate", "backoutFresh",
               "snapshot", "admission", "begin", "backoutSubmit", "rejected"}

\* A worker screens only a date without an attempt, or one that is finished and
\* whose run nothing can move any more.
ScreensUnattempted(p) ==
    pc[p] \in ScanPlaces \cup {"txn"} =>
        /\ run[view[p].date] # "NONE"
        /\ AttemptsOf(view[p].date) # {} => run[view[p].date] \in TERMINAL_STRATEGY_STATES

\* Where a queued transition leads, and that it leads to a new run only by closing
\* the last unfinished one.
QueuedNext(p) ==
    pc[p] = "txn" =>
        /\ view[p].next \in ScanPlaces \cup {"done", "create"}
        /\ view[p].next = "create" => view[p].to = "NO_TRADE" /\ ActiveDays \subseteq {view[p].date}

CreatesFirst(p) == pc[p] = "create" => ActiveDays = {}

\* A worker handles an order only where one was attempted, and calls the broker only
\* for an unfinished run.
HandlesAttempted(p) ==
    /\ pc[p] \in {"dispatch", "resend", "answer", "order"} => AttemptsOf(view[p].date) # {}
    /\ pc[p] \in {"dispatch", "resend"} => run[view[p].date] \in Unfinished

PlaceInv(p) ==
    ScreensUnattempted(p) /\ QueuedNext(p) /\ CreatesFirst(p) /\ HandlesAttempted(p)

TrackInv ==
    /\ TypeOK /\ ~Overlap
    /\ Alone /\ KnownRuns /\ AttemptsTracked /\ OneActive
    /\ \A p \in Workers : PlaceInv(p)

-----------------------------------------------------------------------------
(* Lemmas about the operators.                                                *)

LEMMA ActiveDayIsActive ==
    /\ ActiveDay = 0 => ActiveDays = {}
    /\ ActiveDay # 0 => ActiveDay \in ActiveDays /\ ActiveDay \in Days /\ run[ActiveDay] # "NONE"
<1>1. ActiveDays \subseteq Days
  BY DEF ActiveDays
<1>2. ActiveDays # {} => Latest(ActiveDays) \in ActiveDays
  BY <1>1, LatestIsMember
<1>3. 0 \notin Days
  BY DEF Days
<1> QED
  BY <1>1, <1>2, <1>3 DEF ActiveDay, ActiveDays

\* The table keeps a finished run finished and an attempted one out of screening and ERROR.
LEMMA TableSteps ==
    /\ \A s \in TERMINAL_STRATEGY_STATES : \A t : StrategyStep(s, t) => t = s
    /\ Unfinished \cap (TERMINAL_STRATEGY_STATES \cup PreDispatchStates \cup {"NONE", "ERROR"}) = {}
    /\ PreDispatchStates \cap TERMINAL_STRATEGY_STATES = {}
    /\ "NONE" \notin TERMINAL_STRATEGY_STATES /\ "ERROR" \notin TERMINAL_STRATEGY_STATES
    /\ "NONE" \notin STRATEGY_STATES
  BY DEF StrategyStep, STRATEGY_TRANSITIONS, STRATEGY_STATES, Unfinished, WorkingEntryStates, ExitStates,
         PreDispatchStates, TERMINAL_STRATEGY_STATES

\* A step that attempts nothing, and moves runs only as the kill switch does.
Calm ==
    /\ attempts' = attempts
    /\ \A d \in Days : \/ run'[d] = run[d]
                       \/ run[d] \notin TERMINAL_STRATEGY_STATES \cup {"NONE"} /\ run'[d] = "RISK_OFF"

KeepsRows == \A d \in Days : run[d] # "NONE" => run'[d] # "NONE"

LEMMA KillIsCalm ==
    ASSUME TypeOK, NEW r, ActivateKill(r), r \in Days => run[r] # "NONE"
    PROVE  Calm
  BY DEF TypeOK, DurableOK, ActivateKill, Calm

LEMMA SameIsCalm == UNCHANGED <<run, attempts>> => Calm
  BY DEF Calm

LEMMA CalmKeepsActive ==
    ASSUME Calm
    PROVE  ActiveDays' = ActiveDays
  BY TableSteps DEF Calm, ActiveDays, Unfinished

LEMMA CalmKeepsAttempts == Calm => \A d : AttemptsOf(d)' = AttemptsOf(d)
  BY DEF Calm, AttemptsOf

\* What a calm step leaves true of one date.
LEMMA CalmDate ==
    ASSUME Calm, NEW d \in Days
    PROVE  /\ run[d] # "NONE" => run'[d] # "NONE"
           /\ run[d] \in TERMINAL_STRATEGY_STATES => run'[d] \in TERMINAL_STRATEGY_STATES
           /\ run[d] \in Unfinished => run'[d] \in Unfinished
  BY DEF Calm, Unfinished

LEMMA CalmKeepsPlace ==
    ASSUME TypeOK, Calm, NEW p \in Workers, PlaceInv(p), pc'[p] = pc[p], view'[p] = view[p]
    PROVE  PlaceInv(p)'
<1> DEFINE d == view[p].date
<1>1. d \in Days
  BY ViewTyped DEF TypeOK
<1>2. ActiveDays' = ActiveDays /\ AttemptsOf(d)' = AttemptsOf(d)
  BY CalmKeepsActive, CalmKeepsAttempts
<1>3. ScreensUnattempted(p)'
  BY <1>1, <1>2, CalmDate DEF PlaceInv, ScreensUnattempted
<1>4. HandlesAttempted(p)'
  BY <1>1, <1>2, CalmDate DEF PlaceInv, HandlesAttempted
<1> QED
  BY <1>2, <1>3, <1>4 DEF PlaceInv, QueuedNext, CreatesFirst

LEMMA CalmKeepsTracking ==
    ASSUME TypeOK, Calm, AttemptsTracked, OneActive
    PROVE  /\ OneActive'
           /\ UNCHANGED <<live, underway>> => AttemptsTracked'
<1>1. live \cup underway \subseteq Days
  BY DEF TypeOK, LocalOK
<1>2. \A d \in Days : AttemptsOf(d)' = AttemptsOf(d)
  BY CalmKeepsAttempts
<1> QED
  BY <1>1, <1>2, CalmKeepsActive, CalmDate DEF AttemptsTracked, OneActive

-----------------------------------------------------------------------------
(* The steps of the worker that holds the lease.                              *)

\* Only worker p moves, and what it remembers is known.
Local(p) ==
    /\ \A q \in Workers \ {p} : pc'[q] = pc[q] /\ view'[q] = view[q]
    /\ view'[p].seen \in Days => run[view'[p].seen] # "NONE"
    /\ UNCHANGED op

\* While one worker is in its cycle nothing depends on the others.
LEMMA WorkerKeeps ==
    ASSUME TrackInv, TypeOK', NEW p \in Workers, Local(p), KeepsRows,
           \A q \in Workers \ {p} : pc[q] = "idle",
           Alone', AttemptsTracked', OneActive', PlaceInv(p)'
    PROVE  TrackInv'
<1>1. KnownRuns'
  BY DEF TrackInv, KnownRuns, Local, KeepsRows
<1>2. ASSUME NEW q \in Workers \ {p} PROVE PlaceInv(q)'
  BY <1>2 DEF Local, PlaceInv, ScreensUnattempted, QueuedNext, CreatesFirst, HandlesAttempted, ScanPlaces
<1> QED
  BY <1>1, <1>2 DEF TrackInv

\* A calm step of the worker that holds the lease, at another place or none.
LEMMA CalmWorker ==
    ASSUME TrackInv, TypeOK', NEW p \in Workers, Local(p), Calm, UNCHANGED <<live, underway>>,
           \A q \in Workers \ {p} : pc[q] = "idle",
           pc'[p] = "idle" \/ lease' = p, PlaceInv(p)'
    PROVE  TrackInv'
<1>1. Alone'
  BY DEF Alone, Local
<1>2. KeepsRows
  BY CalmDate DEF KeepsRows
<1>3. AttemptsTracked' /\ OneActive'
  BY CalmKeepsTracking DEF TrackInv
<1> QED
  BY <1>1, <1>2, <1>3, WorkerKeeps

LEMMA OthersIdle ==
    ASSUME TrackInv, NEW p \in Workers, lease = Free \/ pc[p] # "idle"
    PROVE  \A q \in Workers \ {p} : pc[q] = "idle"
  BY GateConstants DEF TrackInv, Alone

LEMMA HolderStays ==
    ASSUME TrackInv, NEW p \in Workers, pc[p] # "idle", UNCHANGED lease
    PROVE  lease' = p
  BY DEF TrackInv, Alone

LEMMA CycleTracks ==
    ASSUME TrackInv, TypeOK', NEW p \in Workers,
           \/ Acquire(p) \/ FirstFind(p) \/ EquityFloor(p) \/ Find(p) \/ Manage(p)
           \/ KillStep(p) \/ Release(p)
    PROVE  TrackInv'
<1> USE DEF TypeOK, LocalOK, View, At, durable, env, broker
<1> DEFINE d == view[p].date
<1>0. /\ d \in Days /\ view[p] \in View
      /\ 0 \notin Days
  BY ViewTyped DEF TrackInv, Days
<1>1. CASE Acquire(p)
  <2>1. Local(p) /\ Calm /\ UNCHANGED <<live, underway>> /\ lease' = p /\ lease = Free
    BY <1>0, <1>1, SameIsCalm DEF TrackInv, Acquire, Goto, Local, View0
  <2>2. PlaceInv(p)'
    BY <1>1 DEF TrackInv, Acquire, Goto, PlaceInv, ScreensUnattempted, QueuedNext, CreatesFirst,
                HandlesAttempted, ScanPlaces
  <2> QED BY <2>1, <2>2, OthersIdle, CalmWorker
<1>2. CASE FirstFind(p)
  <2>1. Local(p) /\ Calm /\ UNCHANGED <<live, underway, lease>>
    BY <1>0, <1>2, SameIsCalm, ActiveDayIsActive DEF TrackInv, FirstFind, Goto, Local
  <2>2. PlaceInv(p)' /\ pc[p] # "idle"
    BY <1>2 DEF TrackInv, FirstFind, Goto, PlaceInv, ScreensUnattempted, QueuedNext, CreatesFirst,
                HandlesAttempted, ScanPlaces
  <2> QED BY <2>1, <2>2, OthersIdle, HolderStays, CalmWorker
<1>3. CASE EquityFloor(p) \/ KillStep(p)
  <2>1. Local(p) /\ UNCHANGED <<live, underway, lease>>
    BY <1>3 DEF TrackInv, KnownRuns, EquityFloor, KillStep, ActivateKill, Goto, Local
  <2>2. Calm
    BY <1>3, KillIsCalm, SameIsCalm DEF TrackInv, KnownRuns, EquityFloor, KillStep
  <2>3. PlaceInv(p)' /\ pc[p] # "idle"
    BY <1>3 DEF TrackInv, EquityFloor, KillStep, Goto, PlaceInv, ScreensUnattempted, QueuedNext,
                CreatesFirst, HandlesAttempted, ScanPlaces
  <2> QED BY <2>1, <2>2, <2>3, OthersIdle, HolderStays, CalmWorker
<1>4. CASE Release(p)
  <2>1. Local(p) /\ Calm /\ UNCHANGED <<live, underway>> /\ pc[p] # "idle"
    BY <1>0, <1>4, SameIsCalm DEF TrackInv, Release, Goto, Local, View0
  <2>2. PlaceInv(p)' /\ pc'[p] = "idle"
    BY <1>4 DEF TrackInv, Release, Goto, PlaceInv, ScreensUnattempted, QueuedNext, CreatesFirst,
                HandlesAttempted, ScanPlaces
  <2> QED BY <2>1, <2>2, OthersIdle, CalmWorker
<1>5. CASE Find(p)
  <2>1. Calm /\ UNCHANGED <<run, attempts, live, underway, lease, op>> /\ pc[p] # "idle"
    BY <1>5, SameIsCalm DEF Find
  <2>2. Local(p)
    BY <1>5, <2>1 DEF TrackInv, KnownRuns, Find, Goto, Local
  <2>3. PlaceInv(p)'
    <3>1. ActiveDays' = ActiveDays /\ \A e : AttemptsOf(e)' = AttemptsOf(e)
      BY <2>1, CalmKeepsActive, CalmKeepsAttempts
    <3>2. CASE ActiveDay = 0
      BY <1>5, <3>1, <3>2, ActiveDayIsActive
      DEF TrackInv, Find, Goto, PlaceInv, ScreensUnattempted, QueuedNext, CreatesFirst,
          HandlesAttempted, ScanPlaces
    <3>3. CASE ActiveDay # 0 /\ ~StaleSession(ActiveDay, view[p].today)
      BY <1>5, <3>3
      DEF TrackInv, Find, Goto, PlaceInv, ScreensUnattempted, QueuedNext, CreatesFirst,
          HandlesAttempted, ScanPlaces
    <3>4. CASE ActiveDay # 0 /\ StaleSession(ActiveDay, view[p].today)
      <4>1. /\ pc'[p] = "txn" /\ view'[p].date = ActiveDay /\ view'[p].to = "NO_TRADE"
            /\ view'[p].next \in {"create", "done"}
        BY <1>5, <3>4 DEF TrackInv, Find, Goto
      <4>2. ActiveDays \subseteq {ActiveDay} /\ ActiveDay \in Days
        BY <3>4, ActiveDayIsActive DEF TrackInv, OneActive
      <4>3. run[ActiveDay] # "NONE" /\ AttemptsOf(ActiveDay) = {}
        BY <3>4, <4>2, TableSteps, ActiveDayIsActive DEF TrackInv, AttemptsTracked, StaleSession
      <4> QED BY <2>1, <3>1, <4>1, <4>2, <4>3
              DEF PlaceInv, ScreensUnattempted, QueuedNext, CreatesFirst, HandlesAttempted, ScanPlaces
    <3> QED BY <3>2, <3>3, <3>4
  <2> QED BY <2>1, <2>2, <2>3, OthersIdle, HolderStays, CalmWorker
<1>6. CASE Manage(p)
  <2>1. Calm /\ UNCHANGED <<run, attempts, live, underway, lease, op>> /\ pc[p] # "idle"
    BY <1>6, SameIsCalm DEF Manage
  <2>2. \/ /\ pc'[p] = "kill" /\ view' = [view EXCEPT ![p].seen = d]
           /\ run[d] \in PreDispatchStates
        \/ /\ run[d] \in PreDispatchStates /\ AttemptsOf(d) = {}
           /\ \/ Ask(p, "NO_TRADE", "done") \/ Ask(p, "SCREENING", "collect")
              \/ pc'[p] \in {"collect", "done"} /\ UNCHANGED view
        \/ pc'[p] = "done" /\ UNCHANGED view
        \/ pc'[p] = "order" /\ AttemptsOf(d) # {} /\ UNCHANGED view
    BY <1>6 DEF TrackInv, Manage, Goto
  <2>3. \A q \in Workers \ {p} : pc'[q] = pc[q] /\ view'[q] = view[q]
    BY <1>6 DEF TrackInv, Manage, Goto, Ask
  <2>4. "NONE" \notin PreDispatchStates
    BY DEF PreDispatchStates
  <2>5. Local(p)
    BY <2>1, <2>2, <2>3, <2>4 DEF TrackInv, KnownRuns, Local, Ask
  <2>6. PlaceInv(p)'
    <3>1. ActiveDays' = ActiveDays /\ \A e : AttemptsOf(e)' = AttemptsOf(e)
      BY <2>1, CalmKeepsActive, CalmKeepsAttempts
    <3>2. view'[p].date = d
      BY <2>2 DEF TrackInv, Ask
    <3>3. \/ pc'[p] \in {"kill", "done"}
          \/ /\ run[d] \in PreDispatchStates /\ AttemptsOf(d) = {}
             /\ pc'[p] = "collect" \/ (pc'[p] = "txn" /\ view'[p].next \in {"done", "collect"})
          \/ pc'[p] = "order" /\ AttemptsOf(d) # {}
      BY <2>2 DEF TrackInv, Ask, Goto
    <3> HIDE DEF d
    <3> QED BY <2>1, <2>4, <3>1, <3>2, <3>3
            DEF PlaceInv, ScreensUnattempted, QueuedNext, CreatesFirst,
                HandlesAttempted, ScanPlaces
  <2> QED BY <2>1, <2>5, <2>6, OthersIdle, HolderStays, CalmWorker
<1> QED
  BY <1>1, <1>2, <1>3, <1>4, <1>5, <1>6

\* From a place of the scan to another, to a queued transition, or out of it.
ScanMove(p) ==
    /\ UNCHANGED <<run, attempts, live, underway, lease, op>>
    /\ pc[p] \in ScanPlaces
    /\ \A q \in Workers \ {p} : pc'[q] = pc[q] /\ view'[q] = view[q]
    /\ view'[p].date = view[p].date /\ view'[p].seen \in {view[p].seen, view[p].date}
    /\ \/ pc'[p] \in ScanPlaces \cup {"done", "kill"}
       \/ pc'[p] = "txn" /\ view'[p].next \in ScanPlaces \cup {"done"}

LEMMA ScanMoveTracks ==
    ASSUME TrackInv, TypeOK', NEW p \in Workers, ScanMove(p)
    PROVE  TrackInv'
<1>1. pc[p] # "idle" /\ Calm
  BY SameIsCalm DEF ScanMove, ScanPlaces
<1>2. Local(p)
  BY DEF TrackInv, KnownRuns, PlaceInv, ScreensUnattempted, ScanMove, Local
<1>3. PlaceInv(p)'
  <2>1. ActiveDays' = ActiveDays /\ \A e : AttemptsOf(e)' = AttemptsOf(e)
    BY <1>1, CalmKeepsActive, CalmKeepsAttempts
  <2>2. ScreensUnattempted(p)'
    BY <2>1 DEF TrackInv, PlaceInv, ScreensUnattempted, ScanMove
  <2>3. QueuedNext(p)' /\ CreatesFirst(p)' /\ HandlesAttempted(p)'
    BY DEF ScanMove, QueuedNext, CreatesFirst, HandlesAttempted, ScanPlaces
  <2> QED BY <2>2, <2>3 DEF PlaceInv
<1> QED
  BY <1>1, <1>2, <1>3, OthersIdle, HolderStays, CalmWorker DEF ScanMove

LEMMA ScanMoves ==
    ASSUME TypeOK, NEW p \in Workers,
           \/ Collect(p) \/ NextCandidate(p) \/ RecordIntent(p) \/ CreateChain(p)
           \/ AgentReview(p) \/ FreshRevalidate(p) \/ BackOut(p) \/ Rejected(p)
           \/ Snapshot(p) \/ Admission(p)
    PROVE  ScanMove(p)
<1> USE DEF TypeOK, LocalOK, View, At, Goto, Raise, durable, env, broker, ScanPlaces, ScanMove
<1>0. view[p] \in View
  BY ViewTyped
<1>1. CASE Collect(p)
  BY <1>0, <1>1 DEF Collect
<1>2. CASE NextCandidate(p)
  <2>1. PICK k \in view[p].queue, v \in View :
           /\ v.date = view[p].date /\ v.seen = view[p].seen
           /\ \/ /\ pc' = [pc EXCEPT ![p] = "txn"]
                 /\ view' = [view EXCEPT ![p] = [v EXCEPT !.to = "AI_REVIEW", !.next = "intent"]]
              \/ /\ pc' = [pc EXCEPT ![p] = "intent"]
                 /\ view' = [view EXCEPT ![p] = v]
    <3>1. ASSUME NEW k \in view[p].queue
          PROVE  LET v == [view[p] EXCEPT !.cand = k, !.queue = @ \ {k}, !.clean = FALSE, !.fresh = FALSE]
                 IN v \in View /\ v.date = view[p].date /\ v.seen = view[p].seen
      BY <1>0
    <3>2. PICK k \in view[p].queue :
            LET v == [view[p] EXCEPT !.cand = k, !.queue = @ \ {k}, !.clean = FALSE, !.fresh = FALSE]
                screening == run[v.date] = "SCREENING"
            IN /\ view' = [view EXCEPT ![p] = IF screening
                              THEN [v EXCEPT !.to = "AI_REVIEW", !.next = "intent"] ELSE v]
               /\ pc' = [pc EXCEPT ![p] = IF screening THEN "txn" ELSE "intent"]
      BY <1>2 DEF NextCandidate
    <3> DEFINE v == [view[p] EXCEPT !.cand = k, !.queue = @ \ {k}, !.clean = FALSE, !.fresh = FALSE]
    <3>3. v \in View /\ v.date = view[p].date /\ v.seen = view[p].seen
      BY <3>1
    <3>4. \/ /\ pc' = [pc EXCEPT ![p] = "txn"]
             /\ view' = [view EXCEPT ![p] = [v EXCEPT !.to = "AI_REVIEW", !.next = "intent"]]
          \/ /\ pc' = [pc EXCEPT ![p] = "intent"]
             /\ view' = [view EXCEPT ![p] = v]
      BY <3>2
    <3> HIDE DEF v
    <3> QED BY <3>3, <3>4
  <2>2. UNCHANGED <<run, attempts, live, underway, lease, op>> /\ pc[p] = "review"
    BY <1>2 DEF NextCandidate
  <2>3. \A q \in Workers \ {p} : pc'[q] = pc[q] /\ view'[q] = view[q]
    BY <2>1
  <2>4. view'[p].date = view[p].date /\ view'[p].seen = view[p].seen
    <3>1. view'[p] \in {v, [v EXCEPT !.to = "AI_REVIEW", !.next = "intent"]}
      BY <2>1
    <3> QED BY <2>1, <3>1
  <2>5. pc'[p] = "intent" \/ (pc'[p] = "txn" /\ view'[p].next = "intent")
    BY <2>1
  <2> QED BY <2>2, <2>3, <2>4, <2>5
<1>3. CASE RecordIntent(p) \/ CreateChain(p) \/ Admission(p)
  BY <1>0, <1>3 DEF RecordIntent, CreateChain, Admission
<1>4. CASE AgentReview(p)
  BY <1>0, <1>4 DEF AgentReview, Ask
<1>5. CASE FreshRevalidate(p)
  BY <1>0, <1>5 DEF FreshRevalidate, Ask
<1>6. CASE BackOut(p)
  BY <1>0, <1>6 DEF BackOut, Ask
<1>7. CASE Rejected(p)
  <2>1. \/ \E to \in {"SCREENING", "NO_TRADE"}, l \in {"review", "done"} : Ask(p, to, l)
        \/ Goto(p, "done") /\ UNCHANGED view
    BY <1>7 DEF Rejected
  <2>2. UNCHANGED <<run, attempts, live, underway, lease, op>> /\ pc[p] = "rejected"
    BY <1>7 DEF Rejected
  <2> QED BY <1>0, <2>1, <2>2 DEF Ask
<1>8. CASE Snapshot(p)
  BY <1>0, <1>8 DEF Snapshot
<1> QED
  BY <1>1, <1>2, <1>3, <1>4, <1>5, <1>6, <1>7, <1>8

LEMMA OrderCalmTracks ==
    ASSUME TrackInv, TypeOK', NEW p \in Workers, OrderUncertain(p) \/ Resume(p)
    PROVE  TrackInv'
<1> USE DEF TypeOK, LocalOK, View, At, Goto, durable, env, broker
<1>0. view[p] \in View /\ view[p].date \in Days
  BY ViewTyped DEF TrackInv
<1>1. /\ UNCHANGED <<run, attempts, live, underway, lease, op>>
      /\ pc[p] \in {"answer", "order"} /\ pc[p] # "idle" /\ Calm
  BY SameIsCalm DEF OrderUncertain, Resume
<1>2. AttemptsOf(view[p].date) # {} /\ run[view[p].date] # "NONE"
  BY <1>0, <1>1, TableSteps DEF TrackInv, PlaceInv, HandlesAttempted, AttemptsTracked
<1>3. Local(p)
  BY <1>0, <1>1, <1>2 DEF TrackInv, KnownRuns, OrderUncertain, Resume, Local
<1>4. \/ pc'[p] \in {"kill", "done"}
      \/ pc'[p] = "resend" /\ view' = view /\ run[view[p].date] = "SUBMITTING"
  BY DEF TrackInv, OrderUncertain, Resume
<1>5. AttemptsOf(view[p].date)' = AttemptsOf(view[p].date) \/ view' # view
  BY <1>1 DEF AttemptsOf
<1>6. PlaceInv(p)'
  BY <1>1, <1>2, <1>4, <1>5
  DEF PlaceInv, ScreensUnattempted, QueuedNext, CreatesFirst, HandlesAttempted, ScanPlaces,
      Unfinished, WorkingEntryStates
<1> QED
  BY <1>1, <1>3, <1>6, OthersIdle, HolderStays, CalmWorker

\* transition_strategy_run in a cycle outside order handling: the row it may move has
\* no attempt.
LEMMA TransitionMoves ==
    ASSUME TrackInv, NEW p \in Workers, Transition(p)
    PROVE  \/ run' = run
           \/ /\ AttemptsOf(view[p].date) = {}
              /\ run[view[p].date] \notin TERMINAL_STRATEGY_STATES \cup {"NONE"}
              /\ run' = [run EXCEPT ![view[p].date] = view[p].to]
<1> DEFINE d == view[p].date
<1>1. d \in Days /\ run \in [Days -> STRATEGY_STATES \cup {"NONE"}]
  BY ViewTyped DEF TrackInv, TypeOK, DurableOK
<1>2. run[d] # "NONE" /\ (AttemptsOf(d) # {} => run[d] \in TERMINAL_STRATEGY_STATES)
  BY DEF Transition, At, TrackInv, PlaceInv, ScreensUnattempted
<1>3. run' = run \/ (StrategyStep(run[d], view[p].to) /\ run' = [run EXCEPT ![d] = view[p].to])
  BY DEF Transition
<1>4. CASE run[d] \in TERMINAL_STRATEGY_STATES
  BY <1>1, <1>3, <1>4, TableSteps
<1>5. CASE run[d] \notin TERMINAL_STRATEGY_STATES
  BY <1>2, <1>3, <1>5
<1> QED
  BY <1>4, <1>5

LEMMA TransitionTracks ==
    ASSUME TrackInv, TypeOK', NEW p \in Workers, Transition(p)
    PROVE  TrackInv'
<1> DEFINE d == view[p].date
           to == view[p].to
<1>1. /\ d \in Days /\ view[p] \in View /\ to \in STRATEGY_STATES
      /\ run \in [Days -> STRATEGY_STATES \cup {"NONE"}]
      /\ view \in [Workers -> View] /\ pc \in [Workers -> PCs]
      /\ live \cup underway \subseteq Days
  BY ViewTyped DEF TrackInv, TypeOK, DurableOK, LocalOK
<1>2. /\ pc[p] = "txn" /\ UNCHANGED <<attempts, live, underway, lease, op>>
      /\ view' = [view EXCEPT ![p] = [view[p] EXCEPT !.to = View0.to, !.next = View0.next]]
      /\ \/ pc' = [pc EXCEPT ![p] = "done"]
         \/ pc' = [pc EXCEPT ![p] = view[p].next] /\ run'[d] = to
  BY <1>1 DEF Transition, At, Goto, Raise, env, broker
<1>3. view'[p].date = d /\ view'[p].seen = view[p].seen
  BY <1>1, <1>2 DEF View
<1>4. Local(p) /\ pc[p] # "idle"
  BY <1>1, <1>2, <1>3 DEF Local, TrackInv, KnownRuns
<1>5. /\ KeepsRows /\ run'[d] # "NONE" /\ ActiveDays' \subseteq ActiveDays
      /\ \A e \in Days : AttemptsOf(e) # {} => run'[e] = run[e]
      /\ \A e \in Days : AttemptsOf(e)' = AttemptsOf(e)
  <2>1. "NONE" \notin STRATEGY_STATES
    BY TableSteps
  <2>2. run[d] # "NONE"
    BY <1>2 DEF TrackInv, PlaceInv, ScreensUnattempted
  <2>3. \A e \in Days : AttemptsOf(e)' = AttemptsOf(e)
    BY <1>2 DEF AttemptsOf
  <2> QED BY <1>1, <2>1, <2>2, <2>3, TransitionMoves DEF KeepsRows, ActiveDays
<1>6. Alone'
  BY <1>2, <1>4 DEF Alone, TrackInv, Local
<1>7. AttemptsTracked' /\ OneActive'
  BY <1>1, <1>2, <1>5 DEF TrackInv, AttemptsTracked, OneActive
<1>8. PlaceInv(p)'
  <2>1. pc'[p] = "done" \/ (pc'[p] = view[p].next /\ run'[d] = to)
    BY <1>1, <1>2
  <2>2. /\ view[p].next \in ScanPlaces \cup {"done", "create"}
        /\ view[p].next = "create" => to = "NO_TRADE" /\ ActiveDays \subseteq {d}
    BY <1>2 DEF TrackInv, PlaceInv, QueuedNext
  <2>3. CreatesFirst(p)'
    BY <1>5, <2>1, <2>2 DEF CreatesFirst, ActiveDays, TERMINAL_STRATEGY_STATES, ScanPlaces
  <2>4. ScreensUnattempted(p)'
    <3>1. AttemptsOf(d) # {} => run[d] \in TERMINAL_STRATEGY_STATES
      BY <1>2 DEF TrackInv, PlaceInv, ScreensUnattempted
    <3>2. AttemptsOf(view[p].date)' = AttemptsOf(d)
      BY <1>1, <1>2, <1>3 DEF AttemptsOf
    <3> QED BY <1>1, <1>3, <1>5, <3>1, <3>2 DEF ScreensUnattempted
  <2> QED BY <2>1, <2>2, <2>3, <2>4 DEF PlaceInv, QueuedNext, HandlesAttempted, ScanPlaces
<1> QED
  BY <1>4, <1>5, <1>6, <1>7, <1>8, OthersIdle, WorkerKeeps

LEMMA CreateRunTracks ==
    ASSUME TrackInv, TypeOK', NEW p \in Workers, CreateRun(p)
    PROVE  TrackInv'
<1> DEFINE d == view[p].today
<1>1. /\ d \in Days /\ view[p] \in View
      /\ run \in [Days -> STRATEGY_STATES \cup {"NONE"}]
      /\ view \in [Workers -> View] /\ pc \in [Workers -> PCs]
      /\ live \cup underway \subseteq Days
  BY ViewTyped DEF TrackInv, TypeOK, DurableOK, LocalOK, View
<1>2. /\ pc[p] = "create" /\ UNCHANGED <<attempts, live, underway, lease, op>>
      /\ run' = [run EXCEPT ![d] = IF run[d] = "NONE" THEN "DISCOVERING" ELSE run[d]]
      /\ \A q \in Workers \ {p} : pc'[q] = pc[q] /\ view'[q] = view[q]
  BY <1>1 DEF CreateRun, At, Goto, env, broker
<1>3. /\ view'[p].date = d /\ view'[p].seen = view[p].seen
      /\ pc'[p] = "collect" \/ (pc'[p] = "txn" /\ view'[p].next = "collect")
  BY <1>1 DEF CreateRun, Goto, View
<1>4. ActiveDays = {}
  BY <1>2 DEF TrackInv, PlaceInv, CreatesFirst
<1>5. /\ run[d] \in TERMINAL_STRATEGY_STATES \cup {"NONE"}
      /\ \A e \in Days : AttemptsOf(e) # {} => run[e] \in TERMINAL_STRATEGY_STATES
  BY <1>1, <1>4, TableSteps DEF ActiveDays, TrackInv, AttemptsTracked
<1>6. \A e \in Days : /\ run[e] # "NONE" => run'[e] = run[e]
                      /\ AttemptsOf(e) # {} => run'[e] = run[e]
                      /\ AttemptsOf(e)' = AttemptsOf(e)
  BY <1>1, <1>2, <1>5, TableSteps DEF AttemptsOf
<1>7. Local(p) /\ KeepsRows /\ pc[p] # "idle"
  BY <1>1, <1>2, <1>3, <1>6 DEF Local, KeepsRows, TrackInv, KnownRuns
<1>8. Alone'
  BY <1>2, <1>7 DEF Alone, TrackInv, Local
<1>9. AttemptsTracked' /\ OneActive'
  <2>1. AttemptsTracked'
    BY <1>1, <1>2, <1>6 DEF TrackInv, AttemptsTracked
  <2>2. ActiveDays' \subseteq {d}
    BY <1>1, <1>2, <1>4 DEF ActiveDays
  <2> QED BY <2>1, <2>2 DEF OneActive
<1>10. PlaceInv(p)'
  <2>1. ScreensUnattempted(p)'
    <3>1. run'[d] # "NONE" /\ (AttemptsOf(d) # {} => run'[d] \in TERMINAL_STRATEGY_STATES)
      BY <1>1, <1>2, <1>5, <1>6
    <3>2. AttemptsOf(view[p].date)' = AttemptsOf(d)
      BY <1>2, <1>3 DEF AttemptsOf
    <3> QED BY <1>3, <3>1, <3>2 DEF ScreensUnattempted
  <2> QED BY <1>3, <2>1 DEF PlaceInv, QueuedNext, CreatesFirst, HandlesAttempted, ScanPlaces
<1> QED
  BY <1>7, <1>8, <1>9, <1>10, OthersIdle, WorkerKeeps

\* The entry transaction makes one attempt, of an active run, and takes the worker
\* from the scan to the call.
LEMMA BeginTracks ==
    ASSUME TrackInv, TypeOK', NEW p \in Workers, BeginSubmission(p)
    PROVE  TrackInv'
<1> DEFINE d == view[p].date
           k == view[p].cand
<1>1. /\ d \in Days /\ k \in Candidates
      /\ run \in [Days -> STRATEGY_STATES \cup {"NONE"}]
      /\ pc \in [Workers -> PCs] /\ live \cup underway \subseteq Days
  BY ViewTyped DEF TrackInv, TypeOK, DurableOK, LocalOK
<1>2. CASE ~MayBegin(d, k, view[p].fresh)
  <2>1. ScanMove(p)
    BY <1>1, <1>2 DEF BeginSubmission, At, Goto, ScanMove, ScanPlaces, env, broker
  <2> QED BY <2>1, ScanMoveTracks
<1>3. CASE MayBegin(d, k, view[p].fresh)
  <2>1. /\ attempts' = attempts \cup {<<d, k>>} /\ run[d] = "POLICY_CHECK"
        /\ run' = [run EXCEPT ![d] = "SUBMITTING"]
        /\ pc' = [pc EXCEPT ![p] = "dispatch"] /\ pc[p] = "begin"
        /\ UNCHANGED <<view, live, underway, lease, op>>
    BY <1>3 DEF BeginSubmission, MayBegin, At, Goto, env, broker
  <2>2. "SUBMITTING" \in Unfinished /\ "POLICY_CHECK" \notin Unfinished
        /\ d \in ActiveDays
    BY <1>1, <2>1 DEF Unfinished, WorkingEntryStates, ExitStates, ActiveDays, TERMINAL_STRATEGY_STATES
  <2>3. d \notin live \cup underway
    BY <2>1, <2>2 DEF TrackInv, AttemptsTracked
  <2>4. /\ \A e \in Days : e # d => AttemptsOf(e)' = AttemptsOf(e) /\ run'[e] = run[e]
        /\ AttemptsOf(d)' # {} /\ run'[d] = "SUBMITTING"
    BY <1>1, <2>1 DEF AttemptsOf
  <2>5. AttemptsTracked'
    BY <1>1, <2>1, <2>2, <2>3, <2>4 DEF TrackInv, AttemptsTracked
  <2>6. OneActive'
    <3>1. ActiveDays' \subseteq ActiveDays
      BY <1>1, <2>2, <2>4 DEF ActiveDays
    <3> QED BY <3>1 DEF TrackInv, OneActive
  <2>7. Local(p) /\ KeepsRows
    BY <1>1, <2>1, <2>4 DEF Local, KeepsRows, TrackInv, KnownRuns
  <2>8. Alone'
    BY <1>1, <2>1 DEF Alone, TrackInv
  <2>9. PlaceInv(p)'
    BY <1>1, <2>1, <2>2, <2>4
    DEF PlaceInv, ScreensUnattempted, QueuedNext, CreatesFirst, HandlesAttempted, ScanPlaces
  <2> QED BY <2>1, <2>5, <2>6, <2>7, <2>8, <2>9, OthersIdle, WorkerKeeps
<1> QED
  BY <1>2, <1>3

\* A call for an unfinished, attempted run: whatever becomes of it, it is tracked.
LEMMA PlaceOrderTracks ==
    ASSUME TrackInv, NEW d \in Days, PlaceOrder(d), UNCHANGED <<run, attempts>>,
           AttemptsOf(d) # {}, run[d] \in Unfinished
    PROVE  AttemptsTracked'
<1>1. \A e : AttemptsOf(e)' = AttemptsOf(e)
  BY DEF AttemptsOf
<1>2. live' \cup underway' \subseteq live \cup underway \cup {d} /\ live' \cap underway' = {}
  BY DEF PlaceOrder, TrackInv, AttemptsTracked
<1> QED
  BY <1>1, <1>2 DEF TrackInv, AttemptsTracked

LEMMA CallTracks ==
    ASSUME TrackInv, TypeOK', NEW p \in Workers, Dispatch(p) \/ Resend(p)
    PROVE  TrackInv'
<1>1. /\ pc[p] \in {"dispatch", "resend"} /\ PlaceOrder(view[p].date)
      /\ pc' = [pc EXCEPT ![p] = "answer"]
      /\ UNCHANGED <<run, attempts, view, lease, op>>
  BY DEF Dispatch, Resend, At, Goto, durable, env
<1>2. view[p].date \in Days /\ pc \in [Workers -> PCs]
  BY ViewTyped DEF TrackInv, TypeOK, LocalOK
<1>3. AttemptsOf(view[p].date) # {} /\ run[view[p].date] \in Unfinished
  BY <1>1 DEF TrackInv, PlaceInv, HandlesAttempted
<1>4. AttemptsTracked' /\ OneActive'
  BY <1>1, <1>2, <1>3, PlaceOrderTracks DEF TrackInv, OneActive, ActiveDays
<1>5. Local(p) /\ KeepsRows /\ Alone'
  BY <1>1, <1>2 DEF Local, KeepsRows, TrackInv, KnownRuns, Alone
<1>6. PlaceInv(p)'
  BY <1>1, <1>2, <1>3
  DEF PlaceInv, ScreensUnattempted, QueuedNext, CreatesFirst, HandlesAttempted, ScanPlaces, AttemptsOf
<1> QED
  BY <1>1, <1>4, <1>5, <1>6, OthersIdle, WorkerKeeps

\* What the handling of an order does to its run.
LEMMA OrderMoves ==
    ASSUME TrackInv, NEW p \in Workers, OrderStep(p)
    PROVE  LET d == view[p].date
           IN /\ d \in Days /\ AttemptsOf(d) # {} /\ UNCHANGED <<attempts, underway>>
              /\ \/ /\ run[d] \in Unfinished /\ live' = live
                    /\ \E s \in Unfinished : StrategyStep(run[d], s) /\ run' = [run EXCEPT ![d] = s]
                 \/ /\ d \in live /\ live' = live \ {d}
                    /\ \E s \in TERMINAL_STRATEGY_STATES :
                          StrategyStep(run[d], s) /\ run' = [run EXCEPT ![d] = s]
<1> DEFINE d == view[p].date
<1>1. d \in Days
  BY ViewTyped DEF TrackInv, TypeOK
<1>2. AttemptsOf(d) # {} /\ run[d] \in Unfinished \cup TERMINAL_STRATEGY_STATES
  BY <1>1 DEF OrderStep, TrackInv, PlaceInv, HandlesAttempted, AttemptsTracked
<1>3. PICK s \in OrderTargets(pc[p]) :
         /\ StrategyStep(run[d], s)
         /\ s \in TERMINAL_STRATEGY_STATES => d \in live
         /\ run' = [run EXCEPT ![d] = s]
         /\ live' = IF s \in TERMINAL_STRATEGY_STATES THEN live \ {d} ELSE live
  BY DEF OrderStep
<1>4. s \in Unfinished \cup TERMINAL_STRATEGY_STATES
  BY DEF OrderTargets, Unfinished, WorkingEntryStates, ExitStates, TERMINAL_STRATEGY_STATES
<1>5. run[d] \in TERMINAL_STRATEGY_STATES => s = run[d]
  BY <1>3, TableSteps
<1>6. UNCHANGED <<attempts, underway>>
  BY DEF OrderStep
<1> QED
  BY <1>1, <1>2, <1>3, <1>4, <1>5, <1>6, TableSteps

LEMMA OrderStepTracks ==
    ASSUME TrackInv, TypeOK', NEW p \in Workers, OrderStep(p)
    PROVE  TrackInv'
<1> DEFINE d == view[p].date
<1>1. /\ d \in Days /\ run \in [Days -> STRATEGY_STATES \cup {"NONE"}]
      /\ pc \in [Workers -> PCs] /\ live \cup underway \subseteq Days
  BY ViewTyped DEF TrackInv, TypeOK, DurableOK, LocalOK
<1>2. /\ pc[p] # "idle" /\ pc' = [pc EXCEPT ![p] = "done"]
      /\ UNCHANGED <<attempts, view, underway, lease, op>>
  BY DEF OrderStep, Goto, env
<1>3. /\ AttemptsOf(d) # {} /\ run[d] \in Unfinished /\ live' \subseteq live
      /\ run'[d] \in Unfinished \cup TERMINAL_STRATEGY_STATES
      /\ run'[d] \notin Unfinished => d \in live /\ d \notin live'
      /\ \A e \in Days : e # d => run'[e] = run[e]
  BY <1>1, OrderMoves DEF TrackInv, AttemptsTracked
<1>4. \A e \in Days : AttemptsOf(e)' = AttemptsOf(e)
  BY <1>2 DEF AttemptsOf
<1>5. AttemptsTracked'
  BY <1>1, <1>2, <1>3, <1>4 DEF TrackInv, AttemptsTracked
<1>6. OneActive'
  <2>1. ActiveDays' \subseteq ActiveDays
    BY <1>1, <1>3, TableSteps DEF ActiveDays
  <2> QED BY <2>1 DEF TrackInv, OneActive
<1>7. Local(p) /\ KeepsRows /\ Alone'
  BY <1>1, <1>2, <1>3, TableSteps DEF Local, KeepsRows, TrackInv, KnownRuns, Alone
<1>8. PlaceInv(p)'
  BY <1>1, <1>2 DEF PlaceInv, ScreensUnattempted, QueuedNext, CreatesFirst, HandlesAttempted, ScanPlaces
<1> QED
  BY <1>2, <1>5, <1>6, <1>7, <1>8, OthersIdle, WorkerKeeps

-----------------------------------------------------------------------------
(* The steps of the others: operator, clock, lease, network, death.           *)

\* A step in which no worker moves.
LEMMA StillKeeps ==
    ASSUME TrackInv, TypeOK', UNCHANGED <<pc, view>>, Calm, Alone',
           op'.pc = "on" /\ op'.seen \in Days => run[op'.seen] # "NONE",
           AttemptsTracked'
    PROVE  TrackInv'
<1>1. KnownRuns'
  BY CalmDate DEF TrackInv, KnownRuns
<1>2. OneActive'
  BY CalmKeepsTracking DEF TrackInv
<1>3. \A p \in Workers : PlaceInv(p)'
  BY CalmKeepsPlace DEF TrackInv
<1> QED
  BY <1>1, <1>2, <1>3 DEF TrackInv

LEMMA EnvironmentTracks ==
    ASSUME TrackInv, TypeOK',
           \/ \E p \in Workers : Crash(p)
           \/ Operator \/ Tick \/ LeaseExpires
           \/ \E d \in Days : Arrive(d)
    PROVE  TrackInv'
<1> USE DEF durable, env, broker
<1>1. ASSUME NEW p \in Workers, Crash(p) PROVE TrackInv'
  <2>1. /\ pc[p] # "idle" /\ pc' = [pc EXCEPT ![p] = "idle"] /\ view' = [view EXCEPT ![p] = View0]
        /\ UNCHANGED <<run, attempts, live, underway, op>>
    BY <1>1 DEF Crash, Goto
  <2>2. pc \in [Workers -> PCs] /\ view \in [Workers -> View] /\ View0.seen \notin Days
    BY DEF TrackInv, TypeOK, LocalOK, View0, Days
  <2>3. Local(p) /\ Calm
    BY <2>1, <2>2, SameIsCalm DEF Local
  <2>4. PlaceInv(p)' /\ pc'[p] = "idle"
    BY <2>1, <2>2 DEF PlaceInv, ScreensUnattempted, QueuedNext, CreatesFirst, HandlesAttempted, ScanPlaces
  <2> QED BY <2>1, <2>3, <2>4, OthersIdle, CalmWorker
<1>2. CASE OperatorReads \/ OperatorActivates \/ OperatorClears \/ Tick \/ LeaseExpires
           \/ \E d \in Days : Arm(d) \/ Revoke(d)
  <2>1. UNCHANGED <<pc, view, attempts, live, underway>>
    BY <1>2 DEF OperatorReads, OperatorActivates, OperatorClears, ActivateKill, Tick, LeaseExpires,
                Arm, Revoke
  <2>2. Calm
    <3>1. CASE OperatorActivates
      BY <3>1, KillIsCalm DEF OperatorActivates, TrackInv, KnownRuns
    <3>2. CASE ~OperatorActivates
      BY <1>2, <3>2, SameIsCalm DEF OperatorReads, OperatorClears, Tick, LeaseExpires, Arm, Revoke
    <3> QED BY <3>1, <3>2
  <2>3. op'.pc = "on" /\ op'.seen \in Days => run[op'.seen] # "NONE"
    <3>1. CASE OperatorReads
      <4>1. op'.pc = "off" \/ op'.seen = ActiveDay
        BY <3>1 DEF OperatorReads
      <4>2. 0 \notin Days
        BY DEF Days
      <4> QED BY <3>1, <4>1, <4>2, ActiveDayIsActive DEF OperatorReads
    <3>2. CASE ~OperatorReads
      <4>1. op' = op \/ op'.pc = "idle"
        BY <1>2, <3>2 DEF OperatorActivates, OperatorClears, Tick, LeaseExpires, Arm, Revoke
      <4> QED BY <4>1 DEF TrackInv, KnownRuns
    <3> QED BY <3>1, <3>2
  <2>4. Alone'
    <3>1. CASE LeaseExpires
      BY <2>1, <3>1, GateConstants DEF LeaseExpires, TrackInv, Alone
    <3>2. CASE ~LeaseExpires
      <4>1. UNCHANGED lease
        BY <1>2, <3>2 DEF OperatorReads, OperatorActivates, OperatorClears, Tick, Arm, Revoke
      <4> QED BY <2>1, <4>1 DEF TrackInv, Alone
    <3> QED BY <3>1, <3>2
  <2>5. AttemptsTracked'
    BY <2>1, <2>2, CalmKeepsTracking DEF TrackInv
  <2> QED BY <2>1, <2>2, <2>3, <2>4, <2>5, StillKeeps
<1>3. ASSUME NEW d \in Days, Arrive(d) PROVE TrackInv'
  <2>1. /\ UNCHANGED <<run, attempts, pc, view, op, lease>>
        /\ d \in underway /\ PlaceOrder(d)
    BY <1>3 DEF Arrive, PlaceOrder
  <2>2. AttemptsTracked'
    BY <2>1, PlaceOrderTracks DEF TrackInv, AttemptsTracked
  <2> QED BY <2>1, <2>2, SameIsCalm, StillKeeps DEF TrackInv, KnownRuns, Alone
<1> QED
  BY <1>1, <1>2, <1>3 DEF Operator

-----------------------------------------------------------------------------
(* The invariant and what follows from it.                                    *)

LEMMA TrackInit == Init /\ ~Overlap => TrackInv
<1> SUFFICES ASSUME Init, ~Overlap PROVE TrackInv
  OBVIOUS
<1>1. \A d \in Days : AttemptsOf(d) = {} /\ d \notin ActiveDays
  BY DEF Init, AttemptsOf, ActiveDays
<1>2. \A p \in Workers : pc[p] = "idle" /\ view[p].seen = 0
  BY DEF Init, View0
<1>3. \A p \in Workers : PlaceInv(p)
  BY <1>2 DEF PlaceInv, ScreensUnattempted, QueuedNext, CreatesFirst, HandlesAttempted, ScanPlaces
<1>4. KnownRuns
  BY <1>2 DEF Init, KnownRuns, Days
<1>5. AttemptsTracked /\ OneActive /\ Alone
  BY <1>1, <1>2 DEF Init, AttemptsTracked, OneActive, Alone, ActiveDays
<1> QED
  BY <1>3, <1>4, <1>5, TypeInit DEF TrackInv

LEMMA TrackStep == TrackInv /\ [Next]_vars => TrackInv'
<1> SUFFICES ASSUME TrackInv, [Next]_vars PROVE TrackInv'
  OBVIOUS
<1>1. TypeOK'
  BY TypeStep DEF TrackInv
<1>2. CASE UNCHANGED vars
  BY <1>1, <1>2, SameIsCalm, StillKeeps, CalmKeepsTracking
  DEF vars, durable, env, broker, TrackInv, Alone, KnownRuns
<1>3. ASSUME NEW p \in Workers, Worker(p) PROVE TrackInv'
  <2>1. CASE Cycle(p)
    BY <1>1, <2>1, CycleTracks, TransitionTracks DEF Cycle
  <2>2. CASE Scan(p)
    BY <1>1, <2>2, CreateRunTracks, ScanMoves, ScanMoveTracks DEF Scan, TrackInv
  <2>3. CASE Submit(p)
    BY <1>1, <2>3, ScanMoves, ScanMoveTracks, BeginTracks, CallTracks, OrderCalmTracks, OrderStepTracks
    DEF Submit, TrackInv
  <2> QED BY <1>3, <2>1, <2>2, <2>3 DEF Worker
<1> QED
  BY <1>1, <1>2, <1>3, EnvironmentTracks DEF Next

LEMMA Tracking == ~Overlap /\ Spec => []TrackInv
  BY TrackInit, TrackStep, PTL DEF Spec

\* As long as no cycle outlasts its lease, a date whose order may be at the broker has
\* a run the worker still manages, whatever crashes, is killed, lost, late or sent again.
THEOREM LiveEntriesAreTracked == ~Overlap /\ Spec => []LiveEntryIsTracked
<1>1. TrackInv => LiveEntryIsTracked
  BY TableSteps DEF TrackInv, AttemptsTracked, LiveEntryIsTracked
<1> QED
  BY <1>1, Tracking, PTL

\* As long as no cycle outlasts its lease, there is never more than one unfinished run,
\* nor a second date with exposure: a run carried over keeps the next date from trading.
THEOREM ExposureIsSingle == ~Overlap /\ Spec => []OneExposure
<1>1. TrackInv => OneExposure
  <2> SUFFICES ASSUME TrackInv PROVE OneExposure
    OBVIOUS
  <2>1. ASSUME NEW S, \A d, e \in S : d = e PROVE Cardinality(S) <= 1
    <3>1. CASE S = {}
      BY <3>1, FS_EmptySet
    <3>2. CASE S # {}
      <4>1. PICK d : S = {d}
        BY <2>1, <3>2
      <4> QED BY <4>1, FS_Singleton
    <3> QED BY <3>1, <3>2
  <2>2. live \subseteq ActiveDays
    BY TableSteps DEF TrackInv, TypeOK, LocalOK, AttemptsTracked, ActiveDays
  <2>3. \A d, e \in live : d = e
    BY <2>2 DEF TrackInv, OneActive
  <2> QED BY <2>1, <2>3 DEF TrackInv, OneActive, OneExposure
<1> QED
  BY <1>1, Tracking, PTL

-----------------------------------------------------------------------------
(* EntryGate implements AttemptedRun for every date.                          *)

LEMMA FateStates == \A d : Fate(d)!Unfinished = Unfinished
  BY DEF Fate!Unfinished, Fate!WorkingEntryStates, Fate!ExitStates, Unfinished, WorkingEntryStates,
         ExitStates

\* A step that moves no attempted run, makes no attempt and reaches no broker.
LEMMA AloofIsStutter ==
    ASSUME NEW d \in Days, UNCHANGED <<attempts, live>>, AttemptsOf(d) # {} => run'[d] = run[d]
    PROVE  UNCHANGED Fate(d)!vars
<1>1. AttemptsOf(d)' = AttemptsOf(d)
  BY DEF AttemptsOf
<1> QED
  BY <1>1 DEF Fate!vars

LEMMA CalmIsFate ==
    ASSUME TrackInv, Calm, UNCHANGED live, NEW d \in Days
    PROVE  [Fate(d)!Next]_(Fate(d)!vars)
<1>1. AttemptsOf(d)' = AttemptsOf(d) /\ UNCHANGED attempts
  BY DEF AttemptsOf, Calm
<1>2. CASE AttemptsOf(d) = {} \/ run'[d] = run[d]
  BY <1>1, <1>2, AloofIsStutter
<1>3. CASE AttemptsOf(d) # {} /\ run'[d] # run[d]
  <2>1. run[d] \in Unfinished /\ run'[d] = "RISK_OFF"
    BY <1>3 DEF Calm, TrackInv, AttemptsTracked
  <2>2. Fate(d)!RiskOff
    BY <1>1, <1>3, <2>1, FateStates DEF Fate!RiskOff
  <2> QED BY <2>2 DEF Fate!Next
<1> QED
  BY <1>2, <1>3

LEMMA PlaceOrderIsFate ==
    ASSUME TrackInv, NEW e \in Days, PlaceOrder(e), UNCHANGED <<run, attempts>>,
           AttemptsOf(e) # {}, run[e] \in Unfinished, NEW d \in Days
    PROVE  [Fate(d)!Next]_(Fate(d)!vars)
<1>1. AttemptsOf(d)' = AttemptsOf(d)
  BY DEF AttemptsOf
<1>2. CASE (d \in live') = (d \in live)
  BY <1>1, <1>2 DEF Fate!vars
<1>3. CASE (d \in live') # (d \in live)
  <2>1. d = e /\ d \in live'
    BY <1>3 DEF PlaceOrder
  <2>2. Fate(d)!Reach
    BY <1>1, <2>1, FateStates DEF Fate!Reach
  <2> QED BY <2>2 DEF Fate!Next
<1> QED
  BY <1>2, <1>3

LEMMA BeginIsFate ==
    ASSUME TrackInv, NEW p \in Workers, BeginSubmission(p), NEW d \in Days
    PROVE  UNCHANGED Fate(d)!vars
<1> DEFINE e == view[p].date
           k == view[p].cand
<1>1. e \in Days /\ k \in Candidates /\ run \in [Days -> STRATEGY_STATES \cup {"NONE"}]
  BY ViewTyped DEF TrackInv, TypeOK, DurableOK
<1>2. UNCHANGED live
  BY DEF BeginSubmission, broker
<1>3. CASE UNCHANGED <<attempts, run>>
  BY <1>2, <1>3, AloofIsStutter
<1>4. CASE ~UNCHANGED <<attempts, run>>
  <2>1. /\ attempts' = attempts \cup {<<e, k>>} /\ run' = [run EXCEPT ![e] = "SUBMITTING"]
        /\ run[e] = "POLICY_CHECK"
    BY <1>4 DEF BeginSubmission, MayBegin
  <2>2. CASE d # e
    <3>1. AttemptsOf(d)' = AttemptsOf(d) /\ run'[d] = run[d]
      BY <1>1, <2>1, <2>2 DEF AttemptsOf
    <3> QED BY <1>2, <3>1 DEF Fate!vars
  <2>3. CASE d = e
    <3>1. AttemptsOf(d)' # {} /\ run'[d] = "SUBMITTING"
      BY <1>1, <2>1, <2>3 DEF AttemptsOf
    <3>2. AttemptsOf(d) = {}
      <4>1. "POLICY_CHECK" \in PreDispatchStates
        BY DEF PreDispatchStates
      <4> QED BY <2>1, <2>3, <4>1, TableSteps DEF TrackInv, AttemptsTracked
    <3> QED BY <1>2, <3>1, <3>2 DEF Fate!vars
  <2> QED BY <2>2, <2>3
<1> QED
  BY <1>3, <1>4

LEMMA OrderStepIsFate ==
    ASSUME TrackInv, NEW p \in Workers, OrderStep(p), NEW d \in Days
    PROVE  [Fate(d)!Next]_(Fate(d)!vars)
<1> DEFINE e == view[p].date
<1>1. /\ run \in [Days -> STRATEGY_STATES \cup {"NONE"}] /\ live \subseteq Days
      /\ UNCHANGED attempts /\ e \in Days /\ AttemptsOf(e) # {}
  BY OrderMoves DEF TrackInv, TypeOK, DurableOK, LocalOK
<1>2. AttemptsOf(d)' = AttemptsOf(d)
  BY <1>1 DEF AttemptsOf
<1>3. CASE d # e
  <2>1. run'[d] = run[d] /\ (d \in live') = (d \in live)
    BY <1>1, <1>3, OrderMoves
  <2> QED BY <1>2, <2>1 DEF Fate!vars
<1>4. CASE d = e
  <2>1. AttemptsOf(d) # {}
    BY <1>1, <1>4
  <2>2. CASE /\ live' = live
             /\ \E s \in Unfinished : StrategyStep(run[e], s) /\ run' = [run EXCEPT ![e] = s]
    <3>1. PICK s \in Unfinished : StrategyStep(run[d], s) /\ run'[d] = s
      BY <1>1, <1>4, <2>2
    <3>2. Fate(d)!StrategyStep(run[d], s)
      BY <3>1 DEF Fate!StrategyStep, StrategyStep, Fate!STRATEGY_TRANSITIONS, STRATEGY_TRANSITIONS
    <3>3. Fate(d)!Move
      BY <1>2, <2>1, <2>2, <3>1, <3>2, FateStates DEF Fate!Move
    <3> QED BY <3>3 DEF Fate!Next
  <2>3. CASE /\ e \in live /\ live' = live \ {e}
             /\ \E s \in TERMINAL_STRATEGY_STATES :
                   StrategyStep(run[e], s) /\ run' = [run EXCEPT ![e] = s]
    <3>1. PICK s \in TERMINAL_STRATEGY_STATES : StrategyStep(run[d], s) /\ run'[d] = s
      BY <1>1, <1>4, <2>3
    <3>2. Fate(d)!StrategyStep(run[d], s)
      BY <3>1 DEF Fate!StrategyStep, StrategyStep, Fate!STRATEGY_TRANSITIONS, STRATEGY_TRANSITIONS
    <3>3. Fate(d)!Finish
      BY <1>2, <1>4, <2>1, <2>3, <3>1, <3>2
      DEF Fate!Finish, Fate!TERMINAL_STRATEGY_STATES, TERMINAL_STRATEGY_STATES
    <3> QED BY <3>3 DEF Fate!Next
  <2> QED BY <1>4, <2>2, <2>3, OrderMoves
<1> QED
  BY <1>3, <1>4

LEMMA CreateRunIsFate ==
    ASSUME TrackInv, NEW p \in Workers, CreateRun(p), NEW d \in Days
    PROVE  UNCHANGED Fate(d)!vars
<1>1. view[p].today \in Days /\ run \in [Days -> STRATEGY_STATES \cup {"NONE"}]
  BY DEF TrackInv, TypeOK, DurableOK, LocalOK, View
<1>2. AttemptsOf(d) # {} => run[d] # "NONE"
  BY TableSteps DEF TrackInv, AttemptsTracked
<1> QED
  BY <1>1, <1>2, AloofIsStutter DEF CreateRun, broker

LEMMA StepIsFate ==
    ASSUME TrackInv, [Next]_vars, NEW d \in Days
    PROVE  [Fate(d)!Next]_(Fate(d)!vars)
<1> USE DEF durable, env, broker
<1>1. CASE UNCHANGED vars
  BY <1>1, AloofIsStutter DEF vars
<1>2. ASSUME NEW p \in Workers, EquityFloor(p) \/ KillStep(p) PROVE [Fate(d)!Next]_(Fate(d)!vars)
  <2>1. Calm
    BY <1>2, KillIsCalm, SameIsCalm DEF TrackInv, KnownRuns, EquityFloor, KillStep
  <2> QED BY <1>2, <2>1, CalmIsFate DEF EquityFloor, KillStep
<1>3. ASSUME NEW p \in Workers,
             \/ Acquire(p) \/ FirstFind(p) \/ Find(p) \/ Manage(p) \/ Release(p)
             \/ OrderUncertain(p) \/ Resume(p) \/ Crash(p)
      PROVE  [Fate(d)!Next]_(Fate(d)!vars)
  <2>1. UNCHANGED <<run, attempts, live>>
    BY <1>3 DEF Acquire, FirstFind, Find, Manage, Release, OrderUncertain, Resume, Crash
  <2> QED BY <2>1, AloofIsStutter
<1>4. ASSUME NEW p \in Workers,
             \/ Collect(p) \/ NextCandidate(p) \/ RecordIntent(p) \/ CreateChain(p)
             \/ AgentReview(p) \/ FreshRevalidate(p) \/ BackOut(p) \/ Rejected(p)
             \/ Snapshot(p) \/ Admission(p)
      PROVE  [Fate(d)!Next]_(Fate(d)!vars)
  BY <1>4, ScanMoves, AloofIsStutter DEF TrackInv, ScanMove
<1>5. ASSUME NEW p \in Workers, Transition(p) PROVE [Fate(d)!Next]_(Fate(d)!vars)
  <2>1. UNCHANGED <<attempts, live>> /\ run \in [Days -> STRATEGY_STATES \cup {"NONE"}]
    BY <1>5 DEF Transition, TrackInv, TypeOK, DurableOK
  <2>2. AttemptsOf(d) # {} => run'[d] = run[d]
    BY <1>5, <2>1, TransitionMoves
  <2> QED BY <2>1, <2>2, AloofIsStutter
<1>6. ASSUME NEW p \in Workers, Dispatch(p) \/ Resend(p) PROVE [Fate(d)!Next]_(Fate(d)!vars)
  <2>1. /\ pc[p] \in {"dispatch", "resend"} /\ PlaceOrder(view[p].date)
        /\ UNCHANGED <<run, attempts>> /\ view[p].date \in Days
    BY <1>6, ViewTyped DEF Dispatch, Resend, At, TrackInv, TypeOK
  <2> QED BY <2>1, PlaceOrderIsFate DEF TrackInv, PlaceInv, HandlesAttempted
<1>7. CASE Operator \/ Tick \/ LeaseExpires
  <2>1. UNCHANGED live
    BY <1>7 DEF Operator, Arm, Revoke, OperatorReads, OperatorActivates, OperatorClears, Tick, LeaseExpires
  <2>2. Calm
    <3>1. CASE OperatorActivates
      BY <3>1, KillIsCalm DEF OperatorActivates, TrackInv, KnownRuns
    <3>2. CASE ~OperatorActivates
      BY <1>7, <3>2, SameIsCalm DEF Operator, OperatorReads, OperatorClears, Tick, LeaseExpires, Arm, Revoke
    <3> QED BY <3>1, <3>2
  <2> QED BY <2>1, <2>2, CalmIsFate
<1>8. ASSUME NEW e \in Days, Arrive(e) PROVE [Fate(d)!Next]_(Fate(d)!vars)
  <2>1. PlaceOrder(e) /\ UNCHANGED <<run, attempts>> /\ e \in underway
    BY <1>8 DEF Arrive, PlaceOrder
  <2> QED BY <2>1, PlaceOrderIsFate DEF TrackInv, AttemptsTracked
<1> QED
  BY <1>1, <1>2, <1>3, <1>4, <1>5, <1>6, <1>7, <1>8, BeginIsFate, OrderStepIsFate, CreateRunIsFate
  DEF Next, Worker, Cycle, Scan, Submit

\* As long as no cycle outlasts its lease, every date's run, once its entry is attempted,
\* does only what AttemptedRun allows: screening, closing of stale sessions, later dates and
\* restarts leave it alone.
THEOREM AttemptedRunsAreLeftAlone == ~Overlap /\ Spec => ImplementsAttemptedRun
<1>1. Init => \A d \in Days : Fate(d)!Init
  BY DEF Init, AttemptsOf, Fate!Init
<1>2. TrackInv /\ [Next]_vars => [\A d \in Days : [Fate(d)!Next]_(Fate(d)!vars)]_vars
  BY StepIsFate
<1> QED
  BY <1>1, <1>2, Tracking, PTL DEF Spec, ImplementsAttemptedRun

\* Nor does the coarse handling of orders leave out a step: every move and every end
\* AttemptedRun has, and so whatever OrderLifecycle can do to its run, is a target of
\* OrderStep.
LEMMA HandlingIsComplete ==
    ASSUME NEW d \in Days, AttemptsOf(d) # {}, Fate(d)!Move \/ Fate(d)!Finish,
           AttemptsOf(d)' # {}
    PROVE  /\ StrategyStep(run[d], run'[d])
           /\ run[d] \in Unfinished =>
                run'[d] = run[d] \/ run'[d] \in OrderTargets("order")
<1>1. /\ run'[d] \in Unfinished \cup TERMINAL_STRATEGY_STATES
      /\ StrategyStep(run[d], run'[d])
  <2>1. PICK s \in Unfinished \cup TERMINAL_STRATEGY_STATES :
               Fate(d)!StrategyStep(run[d], s) /\ run'[d] = s
    BY FateStates DEF Fate!Move, Fate!Finish, Fate!TERMINAL_STRATEGY_STATES, TERMINAL_STRATEGY_STATES
  <2>2. StrategyStep(run[d], s)
    BY <2>1 DEF Fate!StrategyStep, StrategyStep, Fate!STRATEGY_TRANSITIONS, STRATEGY_TRANSITIONS
  <2> QED BY <2>1, <2>2
<1>2. ASSUME NEW s \in Unfinished \cup TERMINAL_STRATEGY_STATES, NEW r \in Unfinished,
             StrategyStep(r, s), s # r
      PROVE  s \in OrderTargets("order")
  BY <1>2 DEF StrategyStep, STRATEGY_TRANSITIONS, Unfinished, WorkingEntryStates, ExitStates,
              TERMINAL_STRATEGY_STATES, OrderTargets
<1> QED
  BY <1>1, <1>2
=============================================================================
