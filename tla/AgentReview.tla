---------------------------- MODULE AgentReview ----------------------------
(***************************************************************************)
(* The review of one eligible candidate by the hosted model                *)
(* (agent.py, agent_tools.py, runtime.py _review_candidate) and its audit  *)
(* rows agent_runs and agent_tool_trace (storage.py).                      *)
(*                                                                         *)
(* The host asks a model for its next tool calls, executes them one by one *)
(* and goes on until the model vetoes, issues the entry call, or the host  *)
(* gives up.  A provider failure starts the conversation afresh with the   *)
(* fallback model.  Only afterwards are the executed calls written to the  *)
(* trace, one transaction each, and the agent run is closed.               *)
(*                                                                         *)
(* A message of the model is abstracted to the number of calls it holds;   *)
(* which call comes next is chosen when it is executed.  Arguments are     *)
(* either the approved ones or refused.  Time is a free choice: the budget *)
(* may be spent at the start of any turn but the first.                    *)
(***************************************************************************)
EXTENDS Naturals, Sequences, FiniteSets

CONSTANTS
  Candidates,      \* candidate identities; each is collected in one cycle only
  MandatoryReads,  \* REQUIRED_MCP_READS and REQUIRED_LOCAL_READS
  OptionalReads,   \* approved reads that are not mandatory
  MAX_TURNS, MAX_TOOL_CALLS,
  MaxBatch         \* bound on the calls of one message

ASSUME ReviewConstants ==
  /\ MAX_TURNS \in Nat \ {0} /\ MAX_TOOL_CALLS \in Nat \ {0} /\ MaxBatch \in Nat \ {0}
  /\ IsFiniteSet(Candidates) /\ Candidates # {}
  /\ MandatoryReads \cap OptionalReads = {}
  /\ {"record_candidate_rejection", "place_option_order", "denied"}
       \cap (MandatoryReads \cup OptionalReads) = {}

VARIABLES
  agentRun,     \* agent_runs.status per candidate
  agentTrace,   \* agent_tool_trace per candidate, in the order of sequence
  rev           \* the review the worker process has in memory

reviewVars == <<agentRun, agentTrace, rev>>

Models == {"primary", "fallback"}
AGENT_TERMINAL_STATUSES == {"COMPLETED", "VETOED", "FAILED"}
AgentStatuses == AGENT_TERMINAL_STATUSES \cup {"none", "STARTED"}

\* Rows remember the model as well: a history the code does not store.
ToolRows ==
  [tool   : MandatoryReads \cup OptionalReads
              \cup {"record_candidate_rejection", "place_option_order", "denied"},
   status : {"ok", "error"},
   model  : Models]

Places == {"none", "ask", "call", "persist"}
Verdicts == {"none", "allow", "veto", "error", "raised"}
NoReview ==
  [pc |-> "none", cand |-> CHOOSE c \in Candidates : TRUE, model |-> "primary",
   turn |-> 0, calls |-> 0, evidence |-> {}, queue |-> 0,
   made |-> <<>>, verdict |-> "none"]

ReviewTypeOK ==
  /\ agentRun \in [Candidates -> AgentStatuses]
  /\ agentTrace \in [Candidates -> Seq(ToolRows)]
  /\ rev \in [pc : Places, cand : Candidates, model : Models,
              turn : Nat, calls : Nat,
              evidence : SUBSET (MandatoryReads \cup OptionalReads),
              queue : Nat, made : Seq(ToolRows), verdict : Verdicts]

ReviewInit ==
  /\ agentRun = [c \in Candidates |-> "none"]
  /\ agentTrace = [c \in Candidates |-> <<>>]
  /\ rev = NoReview

----------------------------------------------------------------------------
(* Starting, and the conversation with one model.                          *)

\* start_agent_run, and the first model's empty conversation.
StartReview(c) ==
  /\ rev.pc = "none" /\ agentRun[c] = "none"
  /\ agentRun' = [agentRun EXCEPT ![c] = "STARTED"]
  /\ rev' = [NoReview EXCEPT !.pc = "ask", !.cand = c, !.turn = 1]
  /\ UNCHANGED agentTrace

\* The rest of the review is in memory until the trace is written.
InMemory == UNCHANGED <<agentRun, agentTrace>>

\* _review_with_model raises or decides; either way the trace is written next.
\* Only the calls that were made are still needed, and who made them.
Concluded(verdict, made) ==
  [NoReview EXCEPT !.pc = "persist", !.cand = rev.cand, !.model = rev.model,
                   !.made = made, !.verdict = verdict]
Conclude(verdict) == rev' = Concluded(verdict, rev.made)

MissingEvidence == MandatoryReads \ rev.evidence

\* Mutant: the fallback inherits what the primary model read.
ProviderFails_KeepsEvidence ==
  /\ rev.pc = "ask" /\ rev.turn <= MAX_TURNS
  /\ IF rev.model = "primary"
       THEN rev' = [rev EXCEPT !.model = "fallback", !.turn = 1, !.calls = 0]
       ELSE Conclude("raised")
  /\ InMemory

\* The provider fails before it answers: the fallback starts from nothing, but
\* the calls executed so far stay with the tool runtime.
ProviderFails ==
  /\ rev.pc = "ask" /\ rev.turn <= MAX_TURNS
  /\ IF rev.model = "primary"
       THEN rev' = [rev EXCEPT !.model = "fallback", !.turn = 1, !.calls = 0,
                               !.evidence = {}]
       ELSE Conclude("raised")
  /\ InMemory

\* No turn is left, or the time budget of this model is spent.
GiveUp ==
  /\ rev.pc = "ask" /\ rev.turn > 1
  /\ Conclude("raised")
  /\ InMemory

\* A message without a tool call is the decision ERROR.
NoToolCall ==
  /\ rev.pc = "ask" /\ rev.turn <= MAX_TURNS
  /\ Conclude("error")
  /\ InMemory

\* A message with n calls, none of them the entry call.
ToolCalls(n) ==
  /\ rev.pc = "ask" /\ rev.turn <= MAX_TURNS
  /\ IF rev.calls + n > MAX_TOOL_CALLS
       THEN Conclude("raised")
       ELSE rev' = [rev EXCEPT !.pc = "call", !.queue = n, !.calls = @ + n]
  /\ InMemory

\* A message with the entry call: alone, exact and after every mandatory read it
\* is the decision ALLOW; otherwise it is refused before it reaches a tool.
EntryCall(sole, exact) ==
  /\ rev.pc = "ask" /\ rev.turn <= MAX_TURNS
  /\ Conclude(IF /\ rev.calls + 1 <= MAX_TOOL_CALLS
                 /\ sole /\ exact /\ MissingEvidence = {}
                THEN "allow" ELSE "raised")
  /\ InMemory

----------------------------------------------------------------------------
(* Executing the calls of a message.                                       *)

Row(tool, status) == [tool |-> tool, status |-> status, model |-> rev.model]

\* The call is done: on to the next one of the message or to the next turn.
AfterCall(r) ==
  IF r.queue = 1
    THEN [r EXCEPT !.queue = 0, !.pc = "ask", !.turn = @ + 1]
    ELSE [r EXCEPT !.queue = @ - 1]

Read(tool) ==
  /\ rev.pc = "call"
  /\ rev' = AfterCall([rev EXCEPT !.evidence = @ \cup {tool},
                                  !.made = Append(@, Row(tool, "ok"))])
  /\ InMemory

\* The broker's answer is an error, the tool is not approved or its arguments are
\* not the bounded ones: RuntimeAgentTools records the call and raises.
CallFails(tool) ==
  /\ rev.pc = "call"
  /\ rev' = Concluded("raised", Append(rev.made, Row(tool, "error")))
  /\ InMemory

\* Arguments that are no JSON object, or a veto code that is not on the list,
\* raise before a tool is executed.
Garbled ==
  /\ rev.pc = "call"
  /\ Conclude("raised")
  /\ InMemory

\* A rejection counts only after the mandatory reads; before, the model is told
\* which reads are missing and the review goes on.
Rejection ==
  /\ rev.pc = "call"
  /\ rev' = IF MissingEvidence = {}
              THEN Concluded("veto", Append(rev.made, Row("record_candidate_rejection", "ok")))
              ELSE AfterCall(rev)
  /\ InMemory

----------------------------------------------------------------------------
(* Writing the trace and closing the agent run.                            *)

\* What the trace must hold before the run is closed.
FullTrace ==
  IF rev.verdict = "allow"
    THEN Append(rev.made, Row("place_option_order", "ok"))
    ELSE rev.made

\* _persist_agent_tools and, for ALLOW, the row of the entry call itself.
PersistRow ==
  LET n == Len(agentTrace[rev.cand]) IN
  /\ rev.pc = "persist" /\ n < Len(FullTrace)
  /\ agentTrace' = [agentTrace EXCEPT ![rev.cand] = Append(@, FullTrace[n + 1])]
  /\ UNCHANGED <<agentRun, rev>>

\* Mutants: a review that raised is closed with a word of its own, or not at all.
StatusOf_Raised(verdict) ==
  CASE verdict = "allow" -> "COMPLETED"
    [] verdict = "veto"  -> "VETOED"
    [] verdict = "raised" -> "RAISED"
    [] OTHER -> "FAILED"

StatusOf_RaisedStaysOpen(verdict) ==
  CASE verdict = "allow" -> "COMPLETED"
    [] verdict = "veto"  -> "VETOED"
    [] verdict = "raised" -> "STARTED"
    [] OTHER -> "FAILED"

StatusOf(verdict) ==
  CASE verdict = "allow" -> "COMPLETED"
    [] verdict = "veto"  -> "VETOED"
    [] OTHER             -> "FAILED"

\* Mutant: the run is closed before its trace is complete.
FinishReview_BeforeTrace ==
  /\ rev.pc = "persist"
  /\ agentRun' = [agentRun EXCEPT ![rev.cand] = StatusOf(rev.verdict)]
  /\ rev' = IF Len(agentTrace[rev.cand]) = Len(FullTrace)
              THEN [NoReview EXCEPT !.cand = rev.cand, !.verdict = rev.verdict] ELSE rev
  /\ UNCHANGED agentTrace

\* finish_agent_run: a run that is already closed keeps its record.
FinishReview ==
  /\ rev.pc = "persist" /\ Len(agentTrace[rev.cand]) = Len(FullTrace)
  /\ agentRun' = [agentRun EXCEPT ![rev.cand] =
                    IF @ = "STARTED" THEN StatusOf(rev.verdict) ELSE @]
  /\ rev' = [NoReview EXCEPT !.cand = rev.cand, !.verdict = rev.verdict]
  /\ UNCHANGED agentTrace

\* The process dies: the conversation and its executed calls are gone.
CrashReview == rev' = NoReview /\ UNCHANGED <<agentRun, agentTrace>>

\* Mutant: recovery closes the latest run whatever its status.
CloseInterrupted_Always(latest) ==
  /\ agentRun' = [agentRun EXCEPT ![latest] = "FAILED"]
  /\ UNCHANGED <<agentTrace, rev>>

\* _manage_active of a later cycle closes the latest agent run if it is open.
\* latest is one of the runs with the latest start time; runs of one cycle share
\* their start time, and the order of their hashed identities breaks the tie.
CloseInterrupted(latest) ==
  /\ agentRun' = [agentRun EXCEPT ![latest] = IF @ = "STARTED" THEN "FAILED" ELSE @]
  /\ UNCHANGED <<agentTrace, rev>>

\* One step of a review under way.
ReviewStep ==
  \/ ProviderFails \/ GiveUp \/ NoToolCall
  \/ \E n \in 1 .. MaxBatch : ToolCalls(n)
  \/ \E sole, exact \in BOOLEAN : EntryCall(sole, exact)
  \/ \E t \in MandatoryReads \cup OptionalReads : Read(t)
  \/ \E t \in MandatoryReads \cup OptionalReads \cup {"denied"} : CallFails(t)
  \/ MissingEvidence = {} /\ CallFails("record_candidate_rejection")
  \/ Garbled \/ Rejection \/ PersistRow \/ FinishReview

----------------------------------------------------------------------------
(* Properties.                                                             *)

ReadBy(rows, model) == {rows[i].tool : i \in {j \in DOMAIN rows :
                          rows[j].status = "ok" /\ rows[j].model = model}}

\* A candidate is only allowed or vetoed on the evidence of the model that decided:
\* the audit trace of a COMPLETED or VETOED run ends with the decision, and the same
\* model made every mandatory read before it, whatever the other model had read
\* (agent.py 225-234, 270-300: the evidence is local to one conversation).
EvidenceBeforeVerdict ==
  \A c \in Candidates : agentRun[c] \in {"COMPLETED", "VETOED"} =>
    LET rows == agentTrace[c] IN
    /\ Len(rows) > 0
    /\ rows[Len(rows)].tool = (IF agentRun[c] = "COMPLETED" THEN "place_option_order"
                                                            ELSE "record_candidate_rejection")
    /\ MandatoryReads \subseteq ReadBy(SubSeq(rows, 1, Len(rows) - 1), rows[Len(rows)].model)

\* While a review is under way its trace is a prefix of the calls that were made,
\* and no run is closed before its last call is on record (runtime.py 1080-1113).
AuditFollowsCalls ==
  rev.pc # "none" =>
    /\ agentRun[rev.cand] = "STARTED"
    /\ agentTrace[rev.cand] = SubSeq(FullTrace, 1, Len(agentTrace[rev.cand]))
    /\ rev.pc # "persist" => agentTrace[rev.cand] = <<>>

\* A closed agent run is never reopened, never changes its verdict and gets no
\* further trace rows, not by a restart's recovery either (storage.py 1866-1892).
ClosedReviewIsFinal ==
  [][\A c \in Candidates : agentRun[c] \in AGENT_TERMINAL_STATUSES =>
        agentRun'[c] = agentRun[c] /\ agentTrace'[c] = agentTrace[c]]_reviewVars
=============================================================================
