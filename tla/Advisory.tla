----------------------------- MODULE Advisory ------------------------------
(***************************************************************************)
(* The read-only advisory on a rejected candidate (advisory.py) and its    *)
(* rows advisory_runs and advisory_tool_trace (storage.py).                *)
(*                                                                         *)
(* The worker starts it after a scan without an eligible candidate, and an *)
(* operator may start it from the command line, in a process of its own on *)
(* the same database.  One strategy run has at most one advisory row, but  *)
(* both processes look for it before either has written it, so two reviews *)
(* may be under way for one row.  Rows of the trace are compared with what *)
(* the process did itself: tool, turn, status, hashes and duration.        *)
(***************************************************************************)
EXTENDS Naturals, Sequences, FiniteSets

CONSTANTS
  Actors,          \* the processes that may run an advisory
  AdvisoryReads,   \* QWEN_READ_TOOLS
  ADVISORY_MAX_TURNS

ASSUME AdvisoryConstants ==
  /\ ADVISORY_MAX_TURNS \in Nat \ {0}
  /\ IsFiniteSet(AdvisoryReads) /\ AdvisoryReads # {}

VARIABLES
  advisoryRun,     \* advisory_runs.status of the strategy run
  advisoryTrace,   \* advisory_tool_trace, in the order of sequence
  adv              \* the advisory each process has in memory

advisoryVars == <<advisoryRun, advisoryTrace, adv>>

\* The tool-call budget is the number of reads: each is made exactly once.
ADVISORY_MAX_TOOL_CALLS == Cardinality(AdvisoryReads)
ADVISORY_MAX_FINAL_REPAIRS == 1
ADVISORY_MAX_EMPTY_TOOL_RESPONSES == 1
ADVISORY_TERMINAL_STATUSES == {"COMPLETED", "FAILED"}

\* The turn, hashes and duration of a row only matter when another process compares
\* its own row with it; whether they agree is a choice there.
AdvisoryRows == [tool : AdvisoryReads, status : {"ok", "error"}]

AdvisoryPlaces == {"none", "lookup", "start", "ask", "call", "persist"}
AdvisoryEnds == {"none", "skipped", "COMPLETED", "FAILED", "raised"}
NoAdvisory ==
  [pc |-> "none", model |-> "primary", turn |-> 0, calls |-> 0, evidence |-> {},
   queue |-> 0, empty |-> 0, repairs |-> 0, made |-> <<>>, written |-> 0,
   result |-> "none", end |-> "none"]

AdvisoryTypeOK ==
  /\ advisoryRun \in ADVISORY_TERMINAL_STATUSES \cup {"none", "STARTED"}
  /\ advisoryTrace \in Seq(AdvisoryRows)
  /\ adv \in [Actors ->
       [pc : AdvisoryPlaces, model : {"primary", "fallback"}, turn : Nat, calls : Nat,
        evidence : SUBSET AdvisoryReads, queue : Nat, empty : Nat, repairs : Nat,
        made : Seq(AdvisoryRows), written : Nat,
        result : {"none"} \cup ADVISORY_TERMINAL_STATUSES, end : AdvisoryEnds]]

AdvisoryInit ==
  /\ advisoryRun = "none" /\ advisoryTrace = <<>>
  /\ adv = [a \in Actors |-> NoAdvisory]

NoRows == UNCHANGED <<advisoryRun, advisoryTrace>>
Become(a, m) == adv' = [adv EXCEPT ![a] = m]

\* The actor is through, with this outcome.
Leave(a, end) == Become(a, [NoAdvisory EXCEPT !.end = end])

\* The review succeeded or raised; the trace is written before the row is closed.
Ended(m, result) ==
  [NoAdvisory EXCEPT !.pc = "persist", !.made = m.made, !.result = result]

----------------------------------------------------------------------------
(* run_rejected_candidate_advisory up to the review.                       *)

\* advisory_run_for_strategy: an existing row, open or closed, ends the matter.
Lookup(a) ==
  /\ adv[a].pc = "lookup"
  /\ IF advisoryRun # "none"
       THEN Leave(a, "skipped")
       ELSE Become(a, [adv[a] EXCEPT !.pc = "start"])
  /\ NoRows

\* start_advisory_run.  same: the row another process wrote meanwhile is for the
\* same candidate and prompt, and then this process goes on with that row.
StartAdvisory(a, same) ==
  /\ adv[a].pc = "start"
  /\ advisoryRun = "none" => same
  /\ IF same
       THEN /\ advisoryRun' = IF advisoryRun = "none" THEN "STARTED" ELSE advisoryRun
            /\ Become(a, [adv[a] EXCEPT !.pc = "ask", !.turn = 1])
       ELSE UNCHANGED advisoryRun /\ Leave(a, "raised")
  /\ UNCHANGED advisoryTrace

----------------------------------------------------------------------------
(* The conversation.                                                       *)

ReadsComplete(m) == m.evidence = AdvisoryReads
CanAsk(m) == m.pc = "ask" /\ m.turn <= ADVISORY_MAX_TURNS

\* No provider is tried again once a read was dispatched: it would be replayed.
AdvisoryProviderFails(a) ==
  LET m == adv[a] IN
  /\ CanAsk(m)
  /\ Become(a, IF m.made = <<>> /\ m.model = "primary"
                 THEN [NoAdvisory EXCEPT !.pc = "ask", !.turn = 1, !.model = "fallback"]
                 ELSE Ended(m, "FAILED"))
  /\ NoRows

\* The common deadline has passed, or no turn is left.
AdvisoryGivesUp(a) ==
  /\ adv[a].pc = "ask"
  /\ Become(a, Ended(adv[a], "FAILED"))
  /\ NoRows

\* Mutant: the result is accepted before every read was made.
FinalMessage_Unread(a, wellFormed) ==
  /\ CanAsk(adv[a])
  /\ Become(a, Ended(adv[a], IF wellFormed THEN "COMPLETED" ELSE "FAILED"))
  /\ NoRows

\* The final message is the structured result; a malformed one is asked for again once.
FinalMessage(a, wellFormed) ==
  LET m == adv[a] IN
  /\ CanAsk(m) /\ ReadsComplete(m)
  /\ Become(a, IF wellFormed THEN Ended(m, "COMPLETED")
               ELSE IF m.repairs < ADVISORY_MAX_FINAL_REPAIRS
                 THEN [m EXCEPT !.repairs = @ + 1, !.turn = @ + 1]
                 ELSE Ended(m, "FAILED"))
  /\ NoRows

\* A message without a call while reads are missing is pointed out once.
EmptyMessage(a) ==
  LET m == adv[a] IN
  /\ CanAsk(m) /\ ~ReadsComplete(m)
  /\ Become(a, IF m.empty < ADVISORY_MAX_EMPTY_TOOL_RESPONSES
                 THEN [m EXCEPT !.empty = @ + 1, !.turn = @ + 1]
                 ELSE Ended(m, "FAILED"))
  /\ NoRows

\* A message with n calls: over the budget, or after the last read, nothing is executed.
ReadCalls(a, n) ==
  LET m == adv[a] IN
  /\ CanAsk(m)
  /\ Become(a, IF ReadsComplete(m) \/ m.calls + n > ADVISORY_MAX_TOOL_CALLS
                 THEN Ended(m, "FAILED")
                 ELSE [m EXCEPT !.pc = "call", !.queue = n, !.calls = @ + n])
  /\ NoRows

AdvisoryRow(tool, status) ==
  [tool |-> tool, status |-> status]

ReadOnce(a, tool) ==
  LET m == adv[a] IN
  /\ m.pc = "call" /\ tool \notin m.evidence
  /\ Become(a, [m EXCEPT !.evidence = @ \cup {tool},
                         !.made = Append(@, AdvisoryRow(tool, "ok")),
                         !.queue = @ - 1,
                         !.pc = IF m.queue = 1 THEN "ask" ELSE "call",
                         !.turn = IF m.queue = 1 THEN @ + 1 ELSE @])
  /\ NoRows

\* Mutant: the denial escapes the handler that closes the row.
CallDenied_Escapes(a) ==
  /\ adv[a].pc = "call"
  /\ Leave(a, "raised")
  /\ NoRows

\* An unapproved tool, a repeated read or garbled arguments raise before execution.
CallDenied(a) ==
  /\ adv[a].pc = "call"
  /\ Become(a, Ended(adv[a], "FAILED"))
  /\ NoRows

\* Arguments off the fixed bounds, the broker's error or the deadline: the tool
\* runtime records the call and raises.
ReadFails(a, tool) ==
  LET m == adv[a] IN
  /\ m.pc = "call" /\ tool \notin m.evidence
  /\ Become(a, [Ended(m, "FAILED") EXCEPT !.made = Append(@, AdvisoryRow(tool, "error"))])
  /\ NoRows

----------------------------------------------------------------------------
(* The rows.                                                               *)

Unwritten(m) == m.written < Len(m.made)

\* record_advisory_tool_call: a row is written once.  A row that another process wrote
\* must be the same in its tool and status and in all the rest (agrees).
\* A conflict raises; the handler writes the same trace again, so it raises out of it.
PersistAdvisoryRow(a, agrees) ==
  LET m    == adv[a]
      mine == m.made[m.written + 1]
      old  == advisoryTrace[m.written + 1]
      free == m.written = Len(advisoryTrace)
      match == agrees /\ old = mine IN
  /\ m.pc = "persist" /\ Unwritten(m)
  /\ free => agrees
  /\ IF free \/ match
       THEN /\ advisoryTrace' = IF free THEN Append(advisoryTrace, mine) ELSE advisoryTrace
            /\ Become(a, [m EXCEPT !.written = @ + 1])
       ELSE UNCHANGED advisoryTrace /\ Leave(a, "raised")
  /\ UNCHANGED advisoryRun

\* Mutant: the last result wins.
FinishAdvisory_Overwrites(a, agrees) ==
  /\ adv[a].pc = "persist" /\ ~Unwritten(adv[a]) /\ agrees
  /\ advisoryRun' = adv[a].result /\ Leave(a, adv[a].result)
  /\ UNCHANGED advisoryTrace

\* finish_advisory_run: the first result stays; another one must be equal to it
\* (agrees), or the handler's FAILED conflicts as well and raises out of it.
FinishAdvisory(a, agrees) ==
  LET m == adv[a] IN
  /\ m.pc = "persist" /\ ~Unwritten(m)
  /\ advisoryRun = "STARTED" => agrees
  /\ IF advisoryRun = "STARTED"
       THEN advisoryRun' = m.result /\ Leave(a, m.result)
       ELSE /\ UNCHANGED advisoryRun
            /\ Leave(a, IF agrees /\ advisoryRun = m.result THEN m.result ELSE "raised")
  /\ UNCHANGED advisoryTrace

\* The process dies; nobody resumes the row it leaves open.
CrashAdvisory(a) == Become(a, NoAdvisory) /\ NoRows

AdvisoryStep(a) ==
  \/ Lookup(a) \/ AdvisoryProviderFails(a) \/ AdvisoryGivesUp(a) \/ EmptyMessage(a)
  \/ CallDenied(a)
  \/ \E b \in BOOLEAN : \/ StartAdvisory(a, b) \/ FinalMessage(a, b)
                        \/ PersistAdvisoryRow(a, b) \/ FinishAdvisory(a, b)
  \/ \E n \in 1 .. ADVISORY_MAX_TOOL_CALLS + 1 : ReadCalls(a, n)
  \/ \E t \in AdvisoryReads : ReadOnce(a, t) \/ ReadFails(a, t)

----------------------------------------------------------------------------
(* Properties.                                                             *)

\* A COMPLETED advisory rests on every read, each made exactly once and answered,
\* and its trace says exactly that, even when two processes worked on the one row
\* (docs/PRD.md:234; advisory.py 405-443, storage.py 2139-2147).
CompletedReadEverything ==
  advisoryRun = "COMPLETED" =>
    /\ Len(advisoryTrace) = Cardinality(AdvisoryReads)
    /\ {advisoryTrace[i].tool : i \in DOMAIN advisoryTrace} = AdvisoryReads
    /\ \A i \in DOMAIN advisoryTrace : advisoryTrace[i].status = "ok"

\* The row of the advisory is closed once and for all and its trace only grows, by
\* one row at a time (storage.py 2066-2090, the append-only triggers 715-724).
AdvisoryIsFinal ==
  [][/\ advisoryRun \in ADVISORY_TERMINAL_STATUSES => advisoryRun' = advisoryRun
     /\ Len(advisoryTrace') >= Len(advisoryTrace)
     /\ SubSeq(advisoryTrace', 1, Len(advisoryTrace)) = advisoryTrace]_advisoryVars
=============================================================================
