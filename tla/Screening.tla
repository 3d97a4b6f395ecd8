----------------------------- MODULE Screening -----------------------------
(***************************************************************************)
(* The model-driven part of a trading day: the worker's cycles over one    *)
(* pre-dispatch strategy run (runtime.py _manage_active, _scan_entry,      *)
(* _scan_intraday_entry) compose AgentReview, for the eligible candidates  *)
(* of a scan, with Advisory, when there is none; an operator may run the   *)
(* advisory from the command line at the same time (advisory.py            *)
(* run_persisted_advisory_review).                                         *)
(*                                                                         *)
(* EntryGate has the authorizations, the lease and the entry transaction   *)
(* that follow; here the run ends with SUBMITTING.                         *)
(***************************************************************************)
EXTENDS AgentReview, Advisory

CONSTANTS
  MaxCycles,    \* bound on the cycles that manage the run
  MaxCrashes    \* bound on the deaths of the worker or the operator's process

ASSUME ScreeningConstants ==
  {"worker", "operator"} \subseteq Actors /\ MaxCycles \in Nat /\ MaxCrashes \in Nat

VARIABLES
  run,        \* strategy_runs.state
  eligible,   \* candidates holds an eligible row
  intents,    \* order_intents holds a row
  cycle,      \* number of the current cycle: the clock of started_at
  started,    \* agent_runs.started_at per candidate
  queue,      \* ranked candidates of this scan still to be reviewed
  wk,         \* the worker's place in its cycle
  op,         \* the operator's place in the advisory-review command
  crashes

scanVars == <<run, eligible, intents, cycle, started, queue, wk, crashes>>
vars == <<reviewVars, advisoryVars, scanVars, op>>

PreDispatch == {"SCREENING", "AI_REVIEW", "POLICY_CHECK"}
WorkerPlaces == {"idle", "cycle", "scan", "next", "intent", "start", "review",
                 "policy", "back", "advise"}

ScreeningTypeOK ==
  /\ ReviewTypeOK /\ AdvisoryTypeOK
  /\ run \in PreDispatch \cup {"SUBMITTING", "NO_TRADE"}
  /\ eligible \in BOOLEAN
  /\ intents \in BOOLEAN /\ cycle \in Nat /\ crashes \in Nat
  /\ started \in [Candidates -> Nat]
  /\ queue \in Seq(Candidates)
  /\ wk \in WorkerPlaces
  /\ op \in {"none", "records", "existing", "advise", "done"}

Init ==
  /\ ReviewInit /\ AdvisoryInit
  /\ run = "SCREENING" /\ eligible = FALSE /\ intents = FALSE
  /\ cycle = 0 /\ started = [c \in Candidates |-> 0] /\ queue = <<>>
  /\ wk = "idle" /\ crashes = 0
  /\ op = "none"

----------------------------------------------------------------------------
(* The worker.                                                             *)

\* latest_agent_run_for_strategy: started last; which of several is not determined.
LatestReviews ==
  {c \in Candidates : agentRun[c] # "none" /\ \A d \in Candidates : started[d] <= started[c]}

\* A cycle finds the run in a pre-dispatch state and closes an interrupted review.
BeginCycle ==
  /\ wk = "idle" /\ run \in PreDispatch /\ cycle < MaxCycles
  /\ wk' = "cycle" /\ cycle' = cycle + 1
  /\ \/ LatestReviews = {} /\ UNCHANGED reviewVars
     \/ \E c \in LatestReviews : CloseInterrupted(c)
  /\ UNCHANGED <<advisoryVars, run, eligible, intents, started, queue, crashes, op>>

\* The entry window is over, here or, without closing a review, on a later date.
WindowExpires ==
  /\ wk = "cycle" \/ (wk = "idle" /\ run \in PreDispatch)
  /\ run' = "NO_TRADE" /\ wk' = "idle"
  /\ UNCHANGED <<reviewVars, advisoryVars, eligible, intents, cycle, started, queue, crashes, op>>

\* Between the windows the cycle only observes.
Observe ==
  /\ wk = "cycle" /\ wk' = "idle"
  /\ UNCHANGED <<reviewVars, advisoryVars, run, eligible, intents, cycle, started,
                 queue, crashes, op>>

\* In the entry window a run left in review goes back to screening first.
EnterScan ==
  /\ wk = "cycle" /\ wk' = "scan"
  /\ IF run = "SCREENING" THEN UNCHANGED run ELSE run' = "SCREENING"
  /\ UNCHANGED <<reviewVars, advisoryVars, eligible, intents, cycle, started, queue,
                 crashes, op>>

\* Collection and ranking: new candidates of this cycle, their rows recorded.
\* Without an eligible one the rejected ones, if any, get the advisory; with one,
\* the review cooldown of the intraday profile may end the cycle.
Collect(ranked) ==
  /\ wk = "scan"
  /\ \A i \in DOMAIN ranked : /\ agentRun[ranked[i]] = "none" /\ started[ranked[i]] = 0
                              /\ \A j \in DOMAIN ranked : ranked[i] = ranked[j] => i = j
  /\ queue' = ranked
  /\ eligible' = (eligible \/ ranked # <<>>)
  /\ IF ranked = <<>>
       THEN \/ wk' = "advise" /\ adv' = [adv EXCEPT !["worker"] =
                                            [NoAdvisory EXCEPT !.pc = "lookup"]]
            \/ wk' = "idle" /\ UNCHANGED adv
       ELSE wk' \in {"next", "idle"} /\ UNCHANGED adv
  /\ UNCHANGED <<reviewVars, advisoryRun, advisoryTrace, run, intents, cycle, started,
                 crashes, op>>

\* SCREENING -> AI_REVIEW for the next candidate.
NextCandidate ==
  /\ wk = "next" /\ run = "SCREENING"
  /\ run' = "AI_REVIEW" /\ wk' = "intent"
  /\ UNCHANGED <<reviewVars, advisoryVars, eligible, intents, cycle, started, queue, crashes, op>>

\* The immutable intent of the candidate and its chain.
PersistIntent ==
  /\ wk = "intent" /\ wk' = "start"
  /\ intents' = TRUE
  /\ UNCHANGED <<reviewVars, advisoryVars, run, eligible, cycle, started, queue, crashes, op>>

BeginReview ==
  /\ wk = "start" /\ wk' = "review"
  /\ StartReview(Head(queue))
  /\ started' = [started EXCEPT ![Head(queue)] = cycle]
  /\ UNCHANGED <<advisoryVars, run, eligible, intents, cycle, queue, crashes, op>>

Review ==
  /\ wk = "review" /\ ReviewStep
  /\ UNCHANGED <<advisoryVars, scanVars, op>>

\* Mutant: whatever is no veto goes on.
Reviewed_UnlessVetoed ==
  /\ wk = "review" /\ rev.pc = "none"
  /\ IF rev.verdict # "veto"
       THEN run' = "POLICY_CHECK" /\ wk' = "policy"
       ELSE UNCHANGED run /\ wk' = "back"
  /\ CrashReview
  /\ UNCHANGED <<advisoryVars, eligible, intents, cycle, started, queue, crashes, op>>

\* Only ALLOW goes on to the fresh policy check.
Reviewed ==
  /\ wk = "review" /\ rev.pc = "none"
  /\ IF rev.verdict = "allow"
       THEN run' = "POLICY_CHECK" /\ wk' = "policy"
       ELSE UNCHANGED run /\ wk' = "back"
  /\ CrashReview
  /\ UNCHANGED <<advisoryVars, eligible, intents, cycle, started, queue, crashes, op>>

\* The fresh check and the entry transaction: rejected, or submitted.
PolicyCheck ==
  /\ wk = "policy"
  /\ \/ run' = "SCREENING" /\ wk' = "back"
     \/ run' = "SUBMITTING" /\ wk' = "idle"
     \/ run' = "NO_TRADE" /\ wk' = "idle"
  /\ UNCHANGED <<reviewVars, advisoryVars, eligible, intents, cycle, started, queue, crashes, op>>

\* A rejected candidate: on to the next, or the scan ends, with the earnings profile
\* in NO_TRADE and with the intraday profile in SCREENING.
Back ==
  /\ wk = "back" /\ queue' = Tail(queue)
  /\ IF Len(queue) > 1
       THEN run' = "SCREENING" /\ wk' = "next"
       ELSE (\E s \in {"SCREENING", "NO_TRADE"} : run' = s) /\ wk' = "idle"
  /\ UNCHANGED <<reviewVars, advisoryVars, eligible, intents, cycle, started, crashes, op>>

WorkerAdvises ==
  /\ wk = "advise" /\ AdvisoryStep("worker")
  /\ UNCHANGED <<reviewVars, scanVars, op>>

\* An advisory that raised ends the cycle as one that returned does: without effect.
WorkerAdvised ==
  /\ wk = "advise" /\ adv["worker"].pc = "none" /\ wk' = "idle"
  /\ CrashAdvisory("worker")
  /\ UNCHANGED <<reviewVars, run, eligible, intents, cycle, started,
                 queue, crashes, op>>

WorkerCrash ==
  /\ wk # "idle" /\ crashes < MaxCrashes /\ crashes' = crashes + 1
  /\ wk' = "idle" /\ queue' = <<>>
  /\ CrashReview
  /\ adv' = [adv EXCEPT !["worker"] = NoAdvisory]
  /\ UNCHANGED <<advisoryRun, advisoryTrace, run, eligible, intents, cycle, started, op>>

Worker ==
  \/ BeginCycle \/ WindowExpires \/ Observe \/ EnterScan
  \/ \E n \in 0 .. Cardinality(Candidates) : \E ranked \in [1 .. n -> Candidates] : Collect(ranked)
  \/ NextCandidate \/ PersistIntent \/ BeginReview \/ Review \/ Reviewed \/ PolicyCheck \/ Back
  \/ WorkerAdvises \/ WorkerAdvised

----------------------------------------------------------------------------
(* The operator's advisory-review command.                                 *)

\* The run's state, read before anything else.
OperatorStarts ==
  /\ op = "none" /\ cycle > 0
  /\ op' = IF run \in {"SCREENING", "NO_TRADE"} THEN "records" ELSE "done"
  /\ UNCHANGED <<reviewVars, advisoryVars, scanVars>>

\* No eligible candidate and no order record, or the command refuses.
OperatorReadsRecords ==
  /\ op = "records"
  /\ op' = IF ~eligible /\ ~intents THEN "existing" ELSE "done"
  /\ UNCHANGED <<reviewVars, advisoryVars, scanVars>>

\* An existing advisory is reported; otherwise a session is opened and one is run.
OperatorLooks ==
  /\ op = "existing"
  /\ IF advisoryRun # "none"
       THEN op' = "done" /\ UNCHANGED adv
       ELSE /\ op' = "advise"
            /\ adv' = [adv EXCEPT !["operator"] = [NoAdvisory EXCEPT !.pc = "lookup"]]
  /\ UNCHANGED <<reviewVars, advisoryRun, advisoryTrace, scanVars>>

OperatorAdvises ==
  /\ op = "advise" /\ AdvisoryStep("operator")
  /\ UNCHANGED <<reviewVars, scanVars, op>>

\* The report: the trading rows must be what they were before the advisory, or the
\* command says that they changed.  Either way it writes nothing.
OperatorReports ==
  /\ op = "advise" /\ adv["operator"].pc = "none" /\ op' = "done"
  /\ CrashAdvisory("operator")
  /\ UNCHANGED <<reviewVars, scanVars>>

OperatorCrash ==
  /\ op = "advise" /\ crashes < MaxCrashes /\ crashes' = crashes + 1
  /\ op' = "done"
  /\ CrashAdvisory("operator")
  /\ UNCHANGED <<reviewVars, run, eligible, intents, cycle, started, queue, wk>>

Operator ==
  \/ OperatorStarts \/ OperatorReadsRecords \/ OperatorLooks
  \/ OperatorAdvises \/ OperatorReports

----------------------------------------------------------------------------
(* A conversation with a model lasts seconds to minutes, but it reads and   *)
(* changes only what no other process touches: the memory of its process    *)
(* and, for a review, the rows of its own agent run.  Its steps commute with *)
(* those of the other process, which are therefore not put in between.      *)

WorkerTalks   == rev.pc # "none" \/ adv["worker"].pc \in {"ask", "call"}
OperatorTalks == adv["operator"].pc \in {"ask", "call"}

WorkerMoves   == ~OperatorTalks /\ (Worker \/ WorkerCrash)
OperatorMoves == ~WorkerTalks /\ (Operator \/ OperatorCrash)

Next == WorkerMoves \/ OperatorMoves

Spec == Init /\ [][Next]_vars

----------------------------------------------------------------------------
(* Properties.                                                             *)

\* An agent run is open only while it is under way, or because a process died in it:
\* no way through the review and its failures leaves one behind (runtime.py 1080-1204).
OpenReviewsWereInterrupted ==
  Cardinality({c \in Candidates : agentRun[c] = "STARTED" /\ (wk # "review" \/ c # rev.cand)})
    <= crashes

\* Unless a process died in it, an open advisory is still being worked on, also after
\* two processes met on the one row and one of them left with a conflict: nobody who
\* could close it gives up (advisory.py 514-555, storage.py 2066-2090).
OpenAdvisoryIsUnderWay ==
  advisoryRun = "STARTED" =>
    crashes > 0 \/ \E a \in Actors : adv[a].pc \in {"ask", "call", "persist"}

\* An entry is submitted for the candidate of this cycle whose review ended with ALLOW,
\* never on the strength of an earlier cycle's review, whatever died in between
\* (runtime.py 404-488, 1115-1205).
SubmitsWhatWasAllowed ==
  [][run # "SUBMITTING" /\ run' = "SUBMITTING" =>
       /\ queue # <<>> /\ started[Head(queue)] = cycle
       /\ agentRun[Head(queue)] = "COMPLETED"]_vars
=============================================================================
