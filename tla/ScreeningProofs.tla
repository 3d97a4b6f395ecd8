-------------------------- MODULE ScreeningProofs --------------------------
(* Proofs about Screening and the two reviews it composes, for every set of *)
(* candidates and of reads, every budget of turns and calls, and any number *)
(* of cycles and crashes.                                                   *)
EXTENDS Screening, FiniteSetTheorems, SequenceTheorems, TLAPS

-----------------------------------------------------------------------------
(* Rows.                                                                     *)

\* The rows of s are the first rows of t.
Prefix(s, t) == Len(s) <= Len(t) /\ \A i \in 1 .. Len(s) : s[i] = t[i]

LEMMA PrefixIsSubSeq ==
    ASSUME NEW S, NEW s \in Seq(S), NEW t \in Seq(S), Prefix(s, t)
    PROVE  s = SubSeq(t, 1, Len(s))
<1>1. Len(s) \in Nat /\ Len(t) \in Nat
  BY LenProperties
<1>2. \A i \in 1 .. Len(s) : t[i] \in S
  BY <1>1, ElementOfSeq DEF Prefix
<1>3. /\ SubSeq(t, 1, Len(s)) \in Seq(S)
      /\ Len(SubSeq(t, 1, Len(s))) = Len(s)
      /\ \A i \in 1 .. Len(s) : SubSeq(t, 1, Len(s))[i] = t[i]
  BY <1>1, <1>2, SubSeqProperties
<1>4. \A i \in 1 .. Len(s) : s[i] = SubSeq(t, 1, Len(s))[i]
  BY <1>3 DEF Prefix
<1> QED
  BY <1>3, <1>4, SeqEqual

\* One more row of t keeps it so.
LEMMA PrefixGrows ==
    ASSUME NEW S, NEW s \in Seq(S), NEW t \in Seq(S), Prefix(s, t), Len(s) < Len(t)
    PROVE  Prefix(Append(s, t[Len(s) + 1]), t) /\ Append(s, t[Len(s) + 1]) \in Seq(S)
<1>1. Len(s) \in Nat /\ Len(t) \in Nat
  BY LenProperties
<1>2. t[Len(s) + 1] \in S
  BY <1>1, ElementOfSeq
<1>3. /\ Append(s, t[Len(s) + 1]) \in Seq(S)
      /\ Len(Append(s, t[Len(s) + 1])) = Len(s) + 1
      /\ \A i \in 1 .. Len(s) : Append(s, t[Len(s) + 1])[i] = s[i]
      /\ Append(s, t[Len(s) + 1])[Len(s) + 1] = t[Len(s) + 1]
  BY <1>2, AppendProperties
<1> QED
  BY <1>1, <1>3 DEF Prefix

LEMMA SameLengthPrefix ==
    ASSUME NEW S, NEW s \in Seq(S), NEW t \in Seq(S), Prefix(s, t), Len(s) = Len(t)
    PROVE  s = t
  BY SeqEqual DEF Prefix

\* What a model has read stays read.
LEMMA ReadByGrows ==
    ASSUME NEW rows \in Seq(ToolRows), NEW row \in ToolRows, NEW model
    PROVE  /\ ReadBy(rows, model) \subseteq ReadBy(Append(rows, row), model)
           /\ row.status = "ok" /\ row.model = model =>
                row.tool \in ReadBy(Append(rows, row), model)
<1>1. /\ Len(rows) \in Nat /\ DOMAIN rows = 1 .. Len(rows)
      /\ Append(rows, row) \in Seq(ToolRows)
      /\ Len(Append(rows, row)) = Len(rows) + 1
      /\ \A i \in 1 .. Len(rows) : Append(rows, row)[i] = rows[i]
      /\ Append(rows, row)[Len(rows) + 1] = row
  BY LenProperties, AppendProperties
<1>2. DOMAIN Append(rows, row) = 1 .. Len(rows) + 1
  BY <1>1, LenProperties
<1> QED
  BY <1>1, <1>2 DEF ReadBy

LEMMA WithoutLast ==
    ASSUME NEW rows \in Seq(ToolRows), NEW row \in ToolRows
    PROVE  LET all == Append(rows, row) IN
           /\ all \in Seq(ToolRows) /\ Len(all) = Len(rows) + 1 /\ Len(rows) \in Nat
           /\ all[Len(all)] = row
           /\ SubSeq(all, 1, Len(all) - 1) = rows
<1> DEFINE all == Append(rows, row)
<1>1. /\ Len(rows) \in Nat /\ all \in Seq(ToolRows) /\ Len(all) = Len(rows) + 1
      /\ \A i \in 1 .. Len(rows) : all[i] = rows[i]
      /\ all[Len(rows) + 1] = row
  BY LenProperties, AppendProperties
<1> HIDE DEF all
<1>2. Prefix(rows, all)
  BY <1>1 DEF Prefix
<1>3. rows = SubSeq(all, 1, Len(rows))
  BY <1>1, <1>2, PrefixIsSubSeq
<1>4. Len(all) - 1 = Len(rows)
  BY <1>1
<1> QED
  BY <1>1, <1>3, <1>4 DEF all

\* A decision is the last row, after the reads it rests on.
LEMMA DecisionIsLast ==
    ASSUME NEW base \in Seq(ToolRows), NEW row \in ToolRows,
           MandatoryReads \subseteq ReadBy(base, row.model)
    PROVE  LET rows == Append(base, row) IN
           /\ Len(rows) > 0 /\ rows[Len(rows)] = row
           /\ MandatoryReads \subseteq
                ReadBy(SubSeq(rows, 1, Len(rows) - 1), rows[Len(rows)].model)
<1> DEFINE rows == Append(base, row)
<1>1. /\ Len(rows) = Len(base) + 1 /\ Len(base) \in Nat
      /\ rows[Len(rows)] = row /\ SubSeq(rows, 1, Len(rows) - 1) = base
  BY WithoutLast
<1> HIDE DEF rows
<1>2. Len(rows) > 0
  BY <1>1
<1>3. MandatoryReads \subseteq ReadBy(SubSeq(rows, 1, Len(rows) - 1), rows[Len(rows)].model)
  BY <1>1, Zenon
<1> QED
  BY <1>1, <1>2, <1>3 DEF rows

-----------------------------------------------------------------------------
(* The review.  Its invariant: the rows on record are the first of those it  *)
(* has to write; what counts as evidence was read by the model that is       *)
(* asked; and a decision rests on every mandatory read.                      *)

Reviews ==
  [pc : Places, cand : Candidates, model : Models, turn : Nat, calls : Nat,
   evidence : SUBSET (MandatoryReads \cup OptionalReads),
   queue : Nat, made : Seq(ToolRows), verdict : Verdicts]

Vetoes(rows, model) ==
  /\ Len(rows) > 0
  /\ rows[Len(rows)].tool = "record_candidate_rejection" /\ rows[Len(rows)].model = model
  /\ MandatoryReads \subseteq ReadBy(SubSeq(rows, 1, Len(rows) - 1), model)

Grounded(r) ==
  /\ r.pc = "call" => r.queue # 0
  /\ r.pc \in {"ask", "call"} => r.evidence \subseteq ReadBy(r.made, r.model)
  /\ r.pc = "persist" /\ r.verdict = "allow" => MandatoryReads \subseteq ReadBy(r.made, r.model)
  /\ r.pc = "persist" /\ r.verdict = "veto" => Vetoes(r.made, r.model)

OnRecord ==
  rev.pc # "none" =>
    /\ agentRun[rev.cand] = "STARTED"
    /\ Prefix(agentTrace[rev.cand], FullTrace)
    /\ rev.pc # "persist" => agentTrace[rev.cand] = <<>>

ReviewInv ==
  /\ ReviewTypeOK
  /\ \A c \in Candidates : agentRun[c] = "none" => agentTrace[c] = <<>>
  /\ Grounded(rev)
  /\ OnRecord
  /\ EvidenceBeforeVerdict

LEMMA NoReviewTyped == NoReview \in Reviews
<1>1. (CHOOSE c \in Candidates : TRUE) \in Candidates
  BY ReviewConstants
<1>2. <<>> \in Seq(ToolRows)
  BY EmptySeq
<1> QED
  BY <1>1, <1>2 DEF NoReview, Reviews, Places, Models, Verdicts

LEMMA RowTyped ==
    ASSUME rev \in Reviews, NEW status \in {"ok", "error"},
           NEW tool \in MandatoryReads \cup OptionalReads
                          \cup {"record_candidate_rejection", "place_option_order", "denied"}
    PROVE  /\ Row(tool, status) \in ToolRows
           /\ Row(tool, status).tool = tool /\ Row(tool, status).status = status
           /\ Row(tool, status).model = rev.model
  BY DEF Row, ToolRows, Reviews

LEMMA FullTraceTyped ==
    ASSUME rev \in Reviews
    PROVE  FullTrace \in Seq(ToolRows) /\ Len(FullTrace) \in Nat
<1>1. rev.made \in Seq(ToolRows)
  BY DEF Reviews
<1>2. FullTrace \in Seq(ToolRows)
  BY <1>1, RowTyped, AppendProperties DEF FullTrace
<1> QED
  BY <1>2, LenProperties

LEMMA ConcludedTyped ==
    ASSUME rev \in Reviews, NEW verdict \in Verdicts, NEW made \in Seq(ToolRows)
    PROVE  LET r == Concluded(verdict, made) IN
           /\ r \in Reviews /\ r.pc = "persist" /\ r.cand = rev.cand
           /\ r.model = rev.model /\ r.made = made /\ r.verdict = verdict
  BY NoReviewTyped DEF Concluded, Reviews, Places

\* The review goes on, with the same candidate.
GoesOn == rev.pc # "none" /\ rev'.pc # "none" /\ rev'.cand = rev.cand /\ agentRun' = agentRun

\* A step of the conversation leaves the rows alone.
LEMMA Conversation ==
    ASSUME ReviewInv, rev.pc \in {"ask", "call"}, InMemory,
           rev' \in Reviews, rev'.pc # "none", rev'.cand = rev.cand, Grounded(rev')
    PROVE  ReviewInv' /\ GoesOn
<1>1. ReviewTypeOK'
  BY DEF ReviewInv, ReviewTypeOK, InMemory, Reviews
<1>2. FullTrace' \in Seq(ToolRows) /\ Len(FullTrace') \in Nat
  <2>1. rev'.made \in Seq(ToolRows) /\ Row("place_option_order", "ok")' \in ToolRows
    BY DEF Reviews, Row, ToolRows
  <2>2. FullTrace' \in Seq(ToolRows)
    BY <2>1, AppendProperties DEF FullTrace
  <2> QED
    BY <2>2, LenProperties
<1>3. OnRecord'
  <2>1. agentTrace[rev.cand] = <<>> /\ agentRun[rev.cand] = "STARTED"
    BY DEF ReviewInv, OnRecord
  <2>2. Len(<<>>) = 0 /\ Prefix(<<>>, FullTrace')
    BY <1>2 DEF Prefix
  <2> QED
    BY <2>1, <2>2 DEF OnRecord, InMemory
<1>4. EvidenceBeforeVerdict' /\ \A c \in Candidates : agentRun'[c] = "none" => agentTrace'[c] = <<>>
  BY DEF ReviewInv, EvidenceBeforeVerdict, InMemory
<1>5. Grounded(rev)'
  BY DEF Grounded, ReadBy, Vetoes
<1> QED
  BY <1>1, <1>3, <1>4, <1>5 DEF ReviewInv, GoesOn, InMemory

\* The conversation ends: what it concludes must be grounded.
LEMMA Concludes ==
    ASSUME ReviewInv, rev.pc \in {"ask", "call"}, InMemory,
           NEW verdict \in Verdicts, NEW made \in Seq(ToolRows), rev' = Concluded(verdict, made),
           verdict = "allow" => MandatoryReads \subseteq ReadBy(made, rev.model),
           verdict = "veto" => Vetoes(made, rev.model)
    PROVE  ReviewInv' /\ GoesOn
<1>1. rev \in Reviews
  BY DEF ReviewInv, ReviewTypeOK, Reviews
<1>2. /\ rev' \in Reviews /\ rev'.pc = "persist" /\ rev'.cand = rev.cand
      /\ rev'.model = rev.model /\ rev'.made = made /\ rev'.verdict = verdict
  BY <1>1, ConcludedTyped
<1>3. Grounded(rev')
  BY <1>2 DEF Grounded
<1> QED
  BY <1>2, <1>3, Conversation

LEMMA InvConversation ==
    ASSUME ReviewInv,
           \/ ProviderFails \/ GiveUp \/ NoToolCall
           \/ \E n \in 1 .. MaxBatch : ToolCalls(n)
           \/ \E sole, exact \in BOOLEAN : EntryCall(sole, exact)
    PROVE  ReviewInv' /\ GoesOn
<1>1. rev \in Reviews /\ rev.made \in Seq(ToolRows) /\ Grounded(rev)
  BY DEF ReviewInv, ReviewTypeOK, Reviews
<1>2. ASSUME rev.pc = "ask", InMemory, Conclude("raised") PROVE ReviewInv' /\ GoesOn
  BY <1>1, <1>2, Concludes DEF Conclude, Verdicts
<1>3. CASE ProviderFails
  <2>1. CASE rev.model = "primary"
    <3>1. rev' = [rev EXCEPT !.model = "fallback", !.turn = 1, !.calls = 0, !.evidence = {}]
      BY <1>3, <2>1 DEF ProviderFails
    <3>2. rev' \in Reviews /\ rev'.pc = rev.pc /\ rev'.cand = rev.cand /\ rev'.evidence = {}
      BY <1>1, <3>1 DEF Reviews, Models
    <3>3. Grounded(rev')
      BY <1>3, <3>2 DEF ProviderFails, Grounded
    <3> QED
      BY <1>3, <3>2, <3>3, Conversation DEF ProviderFails
  <2> QED
    BY <1>2, <1>3, <2>1 DEF ProviderFails
<1>4. CASE GiveUp
  BY <1>2, <1>4 DEF GiveUp
<1>5. CASE NoToolCall
  BY <1>1, <1>5, Concludes DEF NoToolCall, Conclude, Verdicts
<1>6. ASSUME NEW n \in 1 .. MaxBatch, ToolCalls(n) PROVE ReviewInv' /\ GoesOn
  <2>1. CASE rev.calls + n > MAX_TOOL_CALLS
    BY <1>2, <1>6, <2>1 DEF ToolCalls
  <2>2. CASE ~(rev.calls + n > MAX_TOOL_CALLS)
    <3>1. rev' = [rev EXCEPT !.pc = "call", !.queue = n, !.calls = @ + n]
      BY <1>6, <2>2 DEF ToolCalls
    <3>2. n \in Nat /\ n # 0 /\ rev.calls + n \in Nat
      BY <1>1, ReviewConstants DEF Reviews
    <3> DEFINE calls == rev.calls + n
    <3>5. rev' = [rev EXCEPT !.pc = "call", !.queue = n, !.calls = calls]
      BY <3>1
    <3>6. calls \in Nat
      BY <3>2
    <3> HIDE DEF calls
    <3>3. /\ rev' \in Reviews /\ rev'.pc = "call" /\ rev'.cand = rev.cand /\ rev'.queue = n
          /\ rev'.evidence = rev.evidence /\ rev'.made = rev.made /\ rev'.model = rev.model
      BY <1>1, <3>2, <3>5, <3>6 DEF Reviews, Places
    <3>4. Grounded(rev')
      BY <1>1, <1>6, <3>2, <3>3 DEF ToolCalls, Grounded
    <3> QED
      BY <1>6, <3>3, <3>4, Conversation DEF ToolCalls
  <2> QED
    BY <2>1, <2>2
<1>7. ASSUME NEW sole \in BOOLEAN, NEW exact \in BOOLEAN, EntryCall(sole, exact) PROVE ReviewInv' /\ GoesOn
  <2>1. CASE MissingEvidence = {} /\ rev' = Concluded("allow", rev.made)
    <3>1. MandatoryReads \subseteq ReadBy(rev.made, rev.model)
      BY <1>1, <1>7, <2>1 DEF EntryCall, MissingEvidence, Grounded
    <3> QED
      BY <1>1, <1>7, <2>1, <3>1, Concludes DEF EntryCall, Verdicts
  <2>2. CASE rev' = Concluded("raised", rev.made)
    BY <1>2, <1>7, <2>2 DEF EntryCall, Conclude
  <2> QED
    BY <1>7, <2>1, <2>2 DEF EntryCall, Conclude
<1> QED
  BY <1>3, <1>4, <1>5, <1>6, <1>7

LEMMA AfterCallTyped ==
    ASSUME NEW r \in Reviews, r.pc = "call", r.queue # 0,
           r.evidence \subseteq ReadBy(r.made, r.model)
    PROVE  /\ AfterCall(r) \in Reviews /\ AfterCall(r).pc \in {"ask", "call"}
           /\ AfterCall(r).cand = r.cand /\ Grounded(AfterCall(r))
<1>1. CASE r.queue = 1
  <2> DEFINE turn == r.turn + 1
             s    == [r EXCEPT !.queue = 0, !.pc = "ask", !.turn = turn]
  <2>1. AfterCall(r) = s
    BY <1>1 DEF AfterCall
  <2>3. turn \in Nat
    BY DEF Reviews
  <2> HIDE DEF turn
  <2>2. /\ s \in Reviews /\ s.pc = "ask" /\ s.cand = r.cand
        /\ s.evidence = r.evidence /\ s.made = r.made /\ s.model = r.model
    BY <2>3 DEF Reviews, Places
  <2> HIDE DEF s
  <2> QED
    BY <2>1, <2>2 DEF Grounded
<1>2. CASE r.queue # 1
  <2> DEFINE s == [r EXCEPT !.queue = @ - 1]
  <2>1. AfterCall(r) = s
    BY <1>2 DEF AfterCall
  <2>2. /\ s \in Reviews /\ s.pc = "call" /\ s.cand = r.cand /\ s.queue # 0
        /\ s.evidence = r.evidence /\ s.made = r.made /\ s.model = r.model
    BY <1>2 DEF Reviews, Places
  <2> HIDE DEF s
  <2> QED
    BY <2>1, <2>2 DEF Grounded
<1> QED
  BY <1>1, <1>2

LEMMA InvCalls ==
    ASSUME ReviewInv,
           \/ \E t \in MandatoryReads \cup OptionalReads : Read(t)
           \/ \E t \in MandatoryReads \cup OptionalReads \cup {"denied"} : CallFails(t)
           \/ MissingEvidence = {} /\ CallFails("record_candidate_rejection")
           \/ Garbled \/ Rejection
    PROVE  ReviewInv' /\ GoesOn
<1>1. rev \in Reviews /\ rev.made \in Seq(ToolRows) /\ Grounded(rev)
  BY DEF ReviewInv, ReviewTypeOK, Reviews
<1>2. ASSUME NEW t \in MandatoryReads \cup OptionalReads, Read(t) PROVE ReviewInv' /\ GoesOn
  <2> DEFINE row  == Row(t, "ok")
             made == Append(rev.made, row)
             r    == [rev EXCEPT !.evidence = @ \cup {t}, !.made = made]
  <2>1. rev' = AfterCall(r) /\ rev.pc = "call" /\ InMemory
    BY <1>2 DEF Read
  <2>2. row \in ToolRows /\ row.tool = t /\ row.status = "ok" /\ row.model = rev.model
    BY <1>1, RowTyped
  <2> HIDE DEF row
  <2>3. /\ made \in Seq(ToolRows)
        /\ ReadBy(rev.made, rev.model) \subseteq ReadBy(made, rev.model)
        /\ t \in ReadBy(made, rev.model)
    BY <1>1, <2>2, AppendProperties, ReadByGrows
  <2> HIDE DEF made
  <2>4. /\ r \in Reviews /\ r.pc = "call" /\ r.cand = rev.cand /\ r.queue # 0
        /\ r.evidence = rev.evidence \cup {t} /\ r.made = made /\ r.model = rev.model
    BY <1>1, <2>1, <2>3 DEF Reviews, Grounded
  <2> HIDE DEF r
  <2>5. r.evidence \subseteq ReadBy(r.made, r.model)
    BY <1>1, <2>1, <2>3, <2>4 DEF Grounded
  <2>6. /\ rev' \in Reviews /\ rev'.pc # "none" /\ rev'.cand = rev.cand /\ Grounded(rev')
    BY <2>1, <2>4, <2>5, AfterCallTyped
  <2> QED
    BY <2>1, <2>6, Conversation
<1>3. ASSUME NEW t \in MandatoryReads \cup OptionalReads
                          \cup {"denied", "record_candidate_rejection"}, CallFails(t)
      PROVE  ReviewInv' /\ GoesOn
  <2>1. Row(t, "error") \in ToolRows
    BY <1>1, RowTyped
  <2>2. Append(rev.made, Row(t, "error")) \in Seq(ToolRows)
    BY <1>1, <2>1, AppendProperties
  <2> QED
    BY <1>3, <2>2, Concludes DEF CallFails, Verdicts
<1>4. CASE Garbled
  BY <1>1, <1>4, Concludes DEF Garbled, Conclude, Verdicts
<1>5. CASE Rejection /\ MissingEvidence = {}
  <2> DEFINE row  == Row("record_candidate_rejection", "ok")
             made == Append(rev.made, row)
  <2>1. row \in ToolRows /\ row.tool = "record_candidate_rejection" /\ row.model = rev.model
    BY <1>1, RowTyped
  <2>2. rev' = Concluded("veto", made) /\ rev.pc = "call" /\ InMemory
    BY <1>5 DEF Rejection
  <2> HIDE DEF row
  <2>3. MandatoryReads \subseteq ReadBy(rev.made, row.model)
    BY <1>1, <1>5, <2>1, <2>2 DEF MissingEvidence, Grounded
  <2>4. /\ Len(made) > 0 /\ made[Len(made)] = row
        /\ MandatoryReads \subseteq
             ReadBy(SubSeq(made, 1, Len(made) - 1), made[Len(made)].model)
    BY <1>1, <2>1, <2>3, DecisionIsLast
  <2>5. made \in Seq(ToolRows)
    BY <1>1, <2>1, AppendProperties
  <2> HIDE DEF made
  <2>6. Vetoes(made, rev.model)
    BY <2>1, <2>4, Zenon DEF Vetoes
  <2> QED
    BY <2>2, <2>5, <2>6, Concludes DEF Verdicts
<1>6. CASE Rejection /\ MissingEvidence # {}
  <2>1. rev' = AfterCall(rev) /\ rev.pc = "call" /\ InMemory
    BY <1>6 DEF Rejection
  <2>2. rev' \in Reviews /\ rev'.pc # "none" /\ rev'.cand = rev.cand /\ Grounded(rev')
    BY <1>1, <2>1, AfterCallTyped DEF Grounded
  <2> QED
    BY <2>1, <2>2, Conversation
<1> QED
  BY <1>2, <1>3, <1>4, <1>5, <1>6

-----------------------------------------------------------------------------
(* The rows of the review.                                                   *)

LEMMA InvStartReview ==
    ASSUME ReviewInv, NEW c \in Candidates, StartReview(c)
    PROVE  ReviewInv'
<1> DEFINE r == [NoReview EXCEPT !.pc = "ask", !.cand = c, !.turn = 1]
<1>1. /\ agentRun[c] = "none" /\ agentTrace[c] = <<>> /\ agentTrace' = agentTrace
      /\ agentRun' = [agentRun EXCEPT ![c] = "STARTED"] /\ rev' = r
  BY DEF StartReview, ReviewInv
<1>2. r \in Reviews /\ r.pc = "ask" /\ r.cand = c /\ r.evidence = {} /\ r.verdict = "none"
      /\ r.made = <<>>
  BY NoReviewTyped DEF Reviews, Places, NoReview
<1>3. ReviewTypeOK'
  BY <1>1, <1>2 DEF ReviewInv, ReviewTypeOK, Reviews, AgentStatuses
<1> HIDE DEF r
<1>4. FullTrace' = <<>> /\ Len(<<>>) = 0
  BY <1>1, <1>2 DEF FullTrace
<1>5. OnRecord'
  BY <1>1, <1>2, <1>3, <1>4 DEF OnRecord, Prefix, ReviewInv, ReviewTypeOK
<1>6. Grounded(rev)'
  BY <1>1, <1>2 DEF Grounded
<1>7. EvidenceBeforeVerdict' /\ \A d \in Candidates : agentRun'[d] = "none" => agentTrace'[d] = <<>>
  BY <1>1 DEF ReviewInv, ReviewTypeOK, EvidenceBeforeVerdict
<1> QED
  BY <1>3, <1>5, <1>6, <1>7 DEF ReviewInv

LEMMA InvPersistRow ==
    ASSUME ReviewInv, PersistRow
    PROVE  ReviewInv' /\ GoesOn
<1> DEFINE c   == rev.cand
           row == FullTrace[Len(agentTrace[c]) + 1]
<1>1. /\ rev.pc = "persist" /\ Len(agentTrace[c]) < Len(FullTrace)
      /\ agentTrace' = [agentTrace EXCEPT ![c] = Append(@, row)]
      /\ agentRun' = agentRun /\ rev' = rev
  BY DEF PersistRow
<1>2. /\ c \in Candidates /\ agentRun[c] = "STARTED" /\ agentTrace[c] \in Seq(ToolRows)
      /\ Prefix(agentTrace[c], FullTrace) /\ rev \in Reviews
  BY <1>1 DEF ReviewInv, ReviewTypeOK, OnRecord, Reviews
<1>3. FullTrace \in Seq(ToolRows) /\ FullTrace' = FullTrace
  BY <1>1, <1>2, FullTraceTyped DEF FullTrace, Row
<1>4. /\ Append(agentTrace[c], row) \in Seq(ToolRows)
      /\ Prefix(Append(agentTrace[c], row), FullTrace)
  BY <1>1, <1>2, <1>3, PrefixGrows
<1> HIDE DEF row
<1>5. /\ agentTrace' \in [Candidates -> Seq(ToolRows)]
      /\ agentTrace'[c] = Append(agentTrace[c], row)
      /\ \A d \in Candidates : d # c => agentTrace'[d] = agentTrace[d]
  BY <1>1, <1>2, <1>4 DEF ReviewInv, ReviewTypeOK
<1>6. ReviewTypeOK'
  BY <1>1, <1>5 DEF ReviewInv, ReviewTypeOK
<1>7. OnRecord'
  BY <1>1, <1>2, <1>3, <1>4, <1>5 DEF OnRecord
<1>8. EvidenceBeforeVerdict' /\ \A d \in Candidates : agentRun'[d] = "none" => agentTrace'[d] = <<>>
  BY <1>1, <1>2, <1>5 DEF ReviewInv, EvidenceBeforeVerdict
<1>9. Grounded(rev)'
  BY <1>1 DEF ReviewInv, Grounded, ReadBy, Vetoes
<1> QED
  BY <1>1, <1>6, <1>7, <1>8, <1>9 DEF ReviewInv, GoesOn

\* The complete trace of a decision has what the decision rests on.
LEMMA CompleteTrace ==
    ASSUME ReviewInv, rev.pc = "persist", Len(agentTrace[rev.cand]) = Len(FullTrace)
    PROVE  LET rows == agentTrace[rev.cand] IN
           /\ rev.verdict = "allow" =>
                /\ Len(rows) > 0 /\ rows[Len(rows)].tool = "place_option_order"
                /\ MandatoryReads \subseteq ReadBy(SubSeq(rows, 1, Len(rows) - 1), rows[Len(rows)].model)
           /\ rev.verdict = "veto" =>
                /\ Len(rows) > 0 /\ rows[Len(rows)].tool = "record_candidate_rejection"
                /\ MandatoryReads \subseteq ReadBy(SubSeq(rows, 1, Len(rows) - 1), rows[Len(rows)].model)
<1> DEFINE rows == agentTrace[rev.cand]
           row  == Row("place_option_order", "ok")
<1>1. rev \in Reviews /\ rows \in Seq(ToolRows) /\ Prefix(rows, FullTrace) /\ Grounded(rev)
  BY DEF ReviewInv, ReviewTypeOK, OnRecord, Reviews
<1>2. rows = FullTrace
  BY <1>1, FullTraceTyped, SameLengthPrefix
<1>3. CASE rev.verdict = "allow"
  <2>1. rows = Append(rev.made, row)
    BY <1>2, <1>3 DEF FullTrace
  <2>2. row \in ToolRows /\ row.tool = "place_option_order" /\ row.model = rev.model
    BY <1>1, RowTyped
  <2> HIDE DEF row
  <2>3. MandatoryReads \subseteq ReadBy(rev.made, row.model) /\ rev.made \in Seq(ToolRows)
    BY <1>1, <1>3, <2>2 DEF Grounded, Reviews
  <2>4. /\ Len(rows) > 0 /\ rows[Len(rows)] = row
        /\ MandatoryReads \subseteq
             ReadBy(SubSeq(rows, 1, Len(rows) - 1), rows[Len(rows)].model)
    BY <2>1, <2>2, <2>3, DecisionIsLast
  <2> QED
    BY <1>3, <2>2, <2>4
<1>4. CASE rev.verdict = "veto"
  <2>1. rows = rev.made
    BY <1>2, <1>4 DEF FullTrace
  <2>2. Vetoes(rev.made, rev.model)
    BY <1>1, <1>4 DEF Grounded
  <2> QED
    BY <1>4, <2>1, <2>2 DEF Vetoes
<1> QED
  BY <1>3, <1>4

LEMMA StatusIsTerminal ==
    ASSUME NEW verdict
    PROVE  /\ StatusOf(verdict) \in AGENT_TERMINAL_STATUSES
           /\ StatusOf(verdict) = "COMPLETED" <=> verdict = "allow"
           /\ StatusOf(verdict) = "VETOED" => verdict = "veto"
  BY DEF StatusOf, AGENT_TERMINAL_STATUSES

LEMMA InvFinishReview ==
    ASSUME ReviewInv, FinishReview
    PROVE  /\ ReviewInv' /\ rev.pc # "none" /\ rev'.cand = rev.cand
           /\ agentRun'[rev.cand] = StatusOf(rev'.verdict)
           /\ \A d \in Candidates : d # rev.cand => agentRun'[d] = agentRun[d]
<1> DEFINE c == rev.cand
           r == [NoReview EXCEPT !.cand = c, !.verdict = rev.verdict]
<1>1. /\ rev.pc = "persist" /\ Len(agentTrace[c]) = Len(FullTrace)
      /\ agentTrace' = agentTrace /\ rev' = r
      /\ c \in Candidates /\ agentRun[c] = "STARTED" /\ rev \in Reviews
  BY DEF FinishReview, ReviewInv, ReviewTypeOK, OnRecord, Reviews
<1>2. agentRun' = [agentRun EXCEPT ![c] = StatusOf(rev.verdict)]
  BY <1>1 DEF FinishReview
<1>3. r \in Reviews /\ r.pc = "none" /\ r.cand = c /\ r.verdict = rev.verdict
  BY <1>1, NoReviewTyped DEF Reviews, Places, NoReview
<1>4. StatusOf(rev.verdict) \in AGENT_TERMINAL_STATUSES
  BY StatusIsTerminal
<1>5. /\ agentRun' \in [Candidates -> AgentStatuses] /\ agentRun'[c] = StatusOf(rev.verdict)
      /\ \A d \in Candidates : d # c => agentRun'[d] = agentRun[d]
  BY <1>1, <1>2, <1>4 DEF ReviewInv, ReviewTypeOK, AgentStatuses
<1>6. ReviewTypeOK'
  BY <1>1, <1>3, <1>5 DEF ReviewInv, ReviewTypeOK, Reviews
<1> HIDE DEF r
<1>7. OnRecord' /\ Grounded(rev)'
  BY <1>1, <1>3 DEF OnRecord, Grounded
<1>8. \A d \in Candidates : agentRun'[d] = "none" => agentTrace'[d] = <<>>
  BY <1>1, <1>4, <1>5 DEF ReviewInv, AGENT_TERMINAL_STATUSES
<1>9. EvidenceBeforeVerdict'
  <2>1. ASSUME NEW d \in Candidates, agentRun'[d] \in {"COMPLETED", "VETOED"}
        PROVE  LET rows == agentTrace[d] IN
               /\ Len(rows) > 0
               /\ rows[Len(rows)].tool = (IF agentRun'[d] = "COMPLETED" THEN "place_option_order"
                                            ELSE "record_candidate_rejection")
               /\ MandatoryReads \subseteq ReadBy(SubSeq(rows, 1, Len(rows) - 1), rows[Len(rows)].model)
    <3>1. CASE d = c
      BY <1>1, <1>5, <2>1, <3>1, CompleteTrace, StatusIsTerminal
    <3>2. CASE d # c
      BY <1>5, <2>1, <3>2 DEF ReviewInv, EvidenceBeforeVerdict
    <3> QED
      BY <3>1, <3>2
  <2> QED
    BY <1>1, <2>1 DEF EvidenceBeforeVerdict, ReadBy
<1> QED
  BY <1>1, <1>3, <1>5, <1>6, <1>7, <1>8, <1>9 DEF ReviewInv

LEMMA InvReviewStep ==
    ASSUME ReviewInv, ReviewStep
    PROVE  /\ ReviewInv' /\ rev.pc # "none" /\ rev'.cand = rev.cand
           /\ rev'.pc = "none" => agentRun'[rev.cand] = StatusOf(rev'.verdict)
           /\ \A d \in Candidates : d # rev.cand => agentRun'[d] = agentRun[d]
<1>1. CASE FinishReview
  BY <1>1, InvFinishReview
<1>2. CASE ~FinishReview
  <2>1. ReviewInv' /\ GoesOn
    BY <1>2, InvConversation, InvCalls, InvPersistRow DEF ReviewStep
  <2> QED
    BY <2>1 DEF GoesOn
<1> QED
  BY <1>1, <1>2

LEMMA InvCrashReview ==
    ASSUME ReviewInv, CrashReview
    PROVE  ReviewInv'
<1>1. NoReview.pc = "none"
  BY DEF NoReview
<1>2. ReviewTypeOK'
  BY NoReviewTyped DEF CrashReview, ReviewInv, ReviewTypeOK, Reviews
<1>3. OnRecord' /\ Grounded(rev)'
  BY <1>1 DEF CrashReview, OnRecord, Grounded
<1>4. EvidenceBeforeVerdict' /\ \A d \in Candidates : agentRun'[d] = "none" => agentTrace'[d] = <<>>
  BY DEF CrashReview, ReviewInv, EvidenceBeforeVerdict
<1> QED
  BY <1>2, <1>3, <1>4 DEF ReviewInv

LEMMA InvCloseInterrupted ==
    ASSUME ReviewInv, rev.pc = "none", NEW c \in Candidates, CloseInterrupted(c)
    PROVE  ReviewInv'
<1>1. /\ agentRun' = [agentRun EXCEPT ![c] = IF @ = "STARTED" THEN "FAILED" ELSE @]
      /\ agentTrace' = agentTrace /\ rev' = rev
  BY DEF CloseInterrupted
<1>2. ReviewTypeOK'
  BY <1>1 DEF ReviewInv, ReviewTypeOK, AgentStatuses, AGENT_TERMINAL_STATUSES
<1>3. OnRecord' /\ Grounded(rev)'
  BY <1>1 DEF ReviewInv, OnRecord, Grounded, ReadBy, Vetoes
<1>4. \A d \in Candidates : agentRun'[d] # agentRun[d] => agentRun[d] = "STARTED" /\ agentRun'[d] = "FAILED"
  BY <1>1 DEF ReviewInv, ReviewTypeOK
<1>5. EvidenceBeforeVerdict' /\ \A d \in Candidates : agentRun'[d] = "none" => agentTrace'[d] = <<>>
  BY <1>1, <1>4 DEF ReviewInv, EvidenceBeforeVerdict
<1> QED
  BY <1>2, <1>3, <1>5 DEF ReviewInv

LEMMA InvReviewStutter ==
    ASSUME ReviewInv, UNCHANGED reviewVars
    PROVE  ReviewInv'
<1>1. agentRun' = agentRun /\ agentTrace' = agentTrace /\ rev' = rev
  BY DEF reviewVars
<1>2. OnRecord'
  BY <1>1 DEF ReviewInv, OnRecord, FullTrace, Row
<1>3. Grounded(rev)' /\ EvidenceBeforeVerdict' /\ ReviewTypeOK'
  BY <1>1 DEF ReviewInv, Grounded, EvidenceBeforeVerdict, ReviewTypeOK, ReadBy, Vetoes
<1> QED
  BY <1>1, <1>2, <1>3 DEF ReviewInv

-----------------------------------------------------------------------------
(* The advisory.  Its invariant: until a process concludes, its rows are the *)
(* reads it made, one each; a row it has written is in the trace; and the    *)
(* trace is never longer than the list of reads.                             *)

Advisories ==
  [pc : AdvisoryPlaces, model : {"primary", "fallback"}, turn : Nat, calls : Nat,
   evidence : SUBSET AdvisoryReads, queue : Nat, empty : Nat, repairs : Nat,
   made : Seq(AdvisoryRows), written : Nat,
   result : {"none"} \cup ADVISORY_TERMINAL_STATUSES, end : AdvisoryEnds]

Working == {"ask", "call", "persist"}

\* The rows are answered reads of exactly these tools, each once.
OncePerRead(rows, tools) ==
  /\ Len(rows) = Cardinality(tools)
  /\ {rows[i].tool : i \in DOMAIN rows} = tools
  /\ \A i \in DOMAIN rows : rows[i].status = "ok"

Honest(m) ==
  /\ m.pc \in {"lookup", "start"} => m.made = <<>> /\ m.evidence = {}
  /\ m.pc \in {"ask", "call"} => OncePerRead(m.made, m.evidence)
  /\ m.pc = "call" => m.queue # 0
  /\ m.pc = "persist" =>
       /\ Len(m.made) <= Cardinality(AdvisoryReads) /\ m.result # "none"
       /\ m.result = "COMPLETED" => OncePerRead(m.made, AdvisoryReads)
  /\ m.pc # "persist" => m.written = 0

Written(m) ==
  /\ m.written <= Len(m.made) /\ m.written <= Len(advisoryTrace)
  /\ \A i \in 1 .. m.written : advisoryTrace[i] = m.made[i]

AdvisoryInv ==
  /\ AdvisoryTypeOK
  /\ Len(advisoryTrace) <= Cardinality(AdvisoryReads)
  /\ advisoryRun = "none" => advisoryTrace = <<>> /\ \A a \in Actors : adv[a].pc \notin Working
  /\ \A a \in Actors : Honest(adv[a]) /\ Written(adv[a])
  /\ CompletedReadEverything

\* A process that is at work, and wrote the last row if there is one.
Author(a) ==
  /\ adv[a].pc \in Working
  /\ advisoryTrace # <<>> => adv[a].pc = "persist" /\ adv[a].written = Len(advisoryTrace)

SomeAuthor == advisoryRun = "STARTED" => \E a \in Actors : Author(a)

LEMMA NoAdvisoryTyped ==
    /\ NoAdvisory \in Advisories /\ NoAdvisory.pc = "none" /\ NoAdvisory.made = <<>>
    /\ NoAdvisory.evidence = {} /\ NoAdvisory.written = 0
<1>1. <<>> \in Seq(AdvisoryRows)
  BY EmptySeq
<1> QED
  BY <1>1 DEF NoAdvisory, Advisories, AdvisoryPlaces, AdvisoryEnds, ADVISORY_TERMINAL_STATUSES

LEMMA ReadsAreFinite ==
    ASSUME NEW tools \in SUBSET AdvisoryReads
    PROVE  /\ IsFiniteSet(tools) /\ Cardinality(tools) \in Nat
           /\ Cardinality(AdvisoryReads) \in Nat
           /\ Cardinality(tools) <= Cardinality(AdvisoryReads)
  BY AdvisoryConstants, FS_Subset, FS_CardinalityType

LEMMA NoReadYet == OncePerRead(<<>>, {}) /\ Len(<<>>) = 0
<1>1. Cardinality({}) = 0
  BY FS_EmptySet
<1> QED
  BY <1>1 DEF OncePerRead

LEMMA OneMoreRead ==
    ASSUME NEW rows \in Seq(AdvisoryRows), NEW tools \in SUBSET AdvisoryReads,
           OncePerRead(rows, tools), NEW tool \in AdvisoryReads \ tools
    PROVE  LET more == Append(rows, AdvisoryRow(tool, "ok")) IN
           /\ more \in Seq(AdvisoryRows)
           /\ OncePerRead(more, tools \cup {tool})
<1> DEFINE row  == AdvisoryRow(tool, "ok")
           more == Append(rows, row)
<1>1. row \in AdvisoryRows /\ row.tool = tool /\ row.status = "ok"
  BY DEF AdvisoryRow, AdvisoryRows
<1> HIDE DEF row
<1>2. /\ more \in Seq(AdvisoryRows) /\ Len(more) = Len(rows) + 1 /\ Len(rows) \in Nat
      /\ DOMAIN rows = 1 .. Len(rows) /\ DOMAIN more = 1 .. Len(more)
      /\ \A i \in 1 .. Len(rows) : more[i] = rows[i]
      /\ more[Len(rows) + 1] = row
  BY <1>1, AppendProperties, LenProperties
<1> HIDE DEF more
<1>3. Cardinality(tools \cup {tool}) = Cardinality(tools) + 1
  BY ReadsAreFinite, FS_AddElement
<1>4. Len(more) = Cardinality(tools \cup {tool})
  BY <1>2, <1>3 DEF OncePerRead
<1>5. DOMAIN more = DOMAIN rows \cup {Len(rows) + 1} /\ Len(rows) + 1 \in DOMAIN more
  BY <1>2
<1>6. \A i \in DOMAIN rows : more[i] = rows[i]
  BY <1>2
<1>7. \A i \in DOMAIN more : more[i].status = "ok"
  BY <1>1, <1>2, <1>5, <1>6 DEF OncePerRead
<1>8. {more[i].tool : i \in DOMAIN more} = tools \cup {tool}
  <2>1. ASSUME NEW i \in DOMAIN more PROVE more[i].tool \in tools \cup {tool}
    BY <1>1, <1>2, <1>5, <1>6, <2>1 DEF OncePerRead
  <2>2. ASSUME NEW t \in tools PROVE \E i \in DOMAIN more : more[i].tool = t
    <3>1. PICK i \in DOMAIN rows : rows[i].tool = t
      BY DEF OncePerRead
    <3> QED
      BY <1>5, <1>6, <3>1
  <2>3. \E i \in DOMAIN more : more[i].tool = tool
    BY <1>1, <1>2, <1>5
  <2> QED
    BY <2>1, <2>2, <2>3
<1> QED
  BY <1>2, <1>4, <1>7, <1>8 DEF OncePerRead, more, row

\* A step in the memory of one process.
LEMMA NewPlace ==
    ASSUME AdvisoryInv, NEW a \in Actors, NEW m \in Advisories, NoRows, Become(a, m),
           Honest(m), m.written = 0, advisoryRun = "none" => m.pc \notin Working
    PROVE  AdvisoryInv'
<1>1. /\ advisoryRun' = advisoryRun /\ advisoryTrace' = advisoryTrace
      /\ adv \in [Actors -> Advisories] /\ adv' = [adv EXCEPT ![a] = m]
  BY DEF NoRows, Become, AdvisoryInv, AdvisoryTypeOK, Advisories
<1>2. /\ adv' \in [Actors -> Advisories] /\ adv'[a] = m
      /\ \A b \in Actors : b # a => adv'[b] = adv[b]
  BY <1>1
<1>3. AdvisoryTypeOK'
  BY <1>1, <1>2 DEF AdvisoryInv, AdvisoryTypeOK, Advisories
<1>4. \A b \in Actors : Honest(adv'[b])
  BY <1>2 DEF AdvisoryInv
<1>5. \A b \in Actors : Written(adv[b])'
  <2>1. Len(m.made) \in Nat /\ Len(advisoryTrace) \in Nat
    BY LenProperties DEF Advisories, AdvisoryInv, AdvisoryTypeOK
  <2>2. Written(adv[a])'
    BY <1>1, <1>2, <2>1 DEF Written
  <2>3. ASSUME NEW b \in Actors, b # a PROVE Written(adv[b])'
    BY <1>1, <1>2, <2>3 DEF Written, AdvisoryInv
  <2> QED
    BY <2>2, <2>3
<1>6. advisoryRun' = "none" => advisoryTrace' = <<>> /\ \A b \in Actors : adv'[b].pc \notin Working
  BY <1>1, <1>2 DEF AdvisoryInv
<1>7. CompletedReadEverything' /\ Len(advisoryTrace') <= Cardinality(AdvisoryReads)
  BY <1>1 DEF AdvisoryInv, CompletedReadEverything
<1>8. \A b \in Actors : Honest(adv[b])'
  BY <1>4 DEF Honest, OncePerRead
<1> QED
  BY <1>3, <1>5, <1>6, <1>7, <1>8 DEF AdvisoryInv

\* Who is at work before anything is written stays so.
LEMMA NewPlaceKeeps ==
    ASSUME AdvisoryInv, NEW a \in Actors, NEW m \in Advisories, NoRows, Become(a, m),
           adv[a].pc # "persist", adv[a].pc \in Working => m.pc \in Working, SomeAuthor
    PROVE  SomeAuthor'
<1>1. /\ advisoryRun' = advisoryRun /\ advisoryTrace' = advisoryTrace
      /\ adv' = [adv EXCEPT ![a] = m] /\ adv \in [Actors -> Advisories]
  BY DEF NoRows, Become, AdvisoryInv, AdvisoryTypeOK, Advisories
<1>2. ASSUME NEW b \in Actors, Author(b) PROVE Author(b)'
  <2>1. CASE b = a
    <3>1. adv'[b] = m
      BY <1>1, <2>1
    <3> QED
      BY <1>1, <1>2, <2>1, <3>1 DEF Author
  <2>2. CASE b # a
    <3>1. adv'[b] = adv[b]
      BY <1>1, <2>2
    <3> QED
      BY <1>1, <1>2, <3>1 DEF Author
  <2> QED
    BY <2>1, <2>2
<1> QED
  BY <1>1, <1>2 DEF SomeAuthor

LEMMA EndedTyped ==
    ASSUME NEW m \in Advisories, NEW rows \in Seq(AdvisoryRows),
           NEW result \in ADVISORY_TERMINAL_STATUSES,
           Len(rows) <= Cardinality(AdvisoryReads),
           result = "COMPLETED" => OncePerRead(rows, AdvisoryReads)
    PROVE  LET e == [Ended(m, result) EXCEPT !.made = rows] IN
           /\ e \in Advisories /\ Honest(e) /\ e.written = 0 /\ e.pc = "persist"
           /\ m.made = rows => Ended(m, result) = e
<1> DEFINE e == [Ended(m, result) EXCEPT !.made = rows]
<1>1. /\ e \in Advisories /\ e.pc = "persist" /\ e.made = rows /\ e.result = result
      /\ e.written = 0
  BY NoAdvisoryTyped DEF Ended, Advisories, AdvisoryPlaces
<1>2. m.made = rows => Ended(m, result) = e
  BY NoAdvisoryTyped DEF Ended, Advisories
<1>3. result # "none"
  BY DEF ADVISORY_TERMINAL_STATUSES
<1> HIDE DEF e
<1>4. Honest(e)
  BY <1>1, <1>3 DEF Honest
<1> QED
  BY <1>1, <1>2, <1>4 DEF e

\* What the invariant says of a process in its conversation.
LEMMA Asking ==
    ASSUME AdvisoryInv, NEW a \in Actors, adv[a].pc \in {"ask", "call"}
    PROVE  /\ adv[a] \in Advisories /\ OncePerRead(adv[a].made, adv[a].evidence)
           /\ adv[a].made \in Seq(AdvisoryRows) /\ adv[a].evidence \in SUBSET AdvisoryReads
           /\ Len(adv[a].made) = Cardinality(adv[a].evidence)
           /\ Len(adv[a].made) <= Cardinality(AdvisoryReads)
           /\ adv[a].written = 0 /\ advisoryRun # "none"
           /\ adv[a].pc = "call" => adv[a].queue # 0
<1>1. adv[a] \in Advisories
  BY DEF AdvisoryInv, AdvisoryTypeOK, Advisories
<1>2. Honest(adv[a]) /\ advisoryRun # "none"
  BY DEF AdvisoryInv, Working
<1>3. OncePerRead(adv[a].made, adv[a].evidence) /\ adv[a].written = 0
  BY <1>2 DEF Honest
<1>4. adv[a].evidence \in SUBSET AdvisoryReads /\ adv[a].made \in Seq(AdvisoryRows)
  BY <1>1 DEF Advisories
<1>5. Len(adv[a].made) = Cardinality(adv[a].evidence)
  BY <1>3 DEF OncePerRead
<1>6. Len(adv[a].made) <= Cardinality(AdvisoryReads)
  BY <1>4, <1>5, ReadsAreFinite
<1> QED
  BY <1>1, <1>2, <1>3, <1>4, <1>5, <1>6 DEF Honest

\* The conversation goes on, or it ends with the rows made so far.
LEMMA Continues ==
    ASSUME AdvisoryInv, NEW a \in Actors, adv[a].pc \in {"ask", "call"}, NoRows,
           NEW m \in Advisories, Become(a, m), Honest(m), m.written = 0, m.pc \in Working
    PROVE  AdvisoryInv' /\ (SomeAuthor => SomeAuthor')
  BY Asking, NewPlace, NewPlaceKeeps DEF Working

LEMMA Ends ==
    ASSUME AdvisoryInv, NEW a \in Actors, adv[a].pc \in {"ask", "call"}, NoRows,
           NEW result \in ADVISORY_TERMINAL_STATUSES, Become(a, Ended(adv[a], result)),
           result = "COMPLETED" => adv[a].evidence = AdvisoryReads
    PROVE  AdvisoryInv' /\ (SomeAuthor => SomeAuthor')
<1> DEFINE m == adv[a]
           e == [Ended(m, result) EXCEPT !.made = m.made]
<1>1. /\ m \in Advisories /\ m.made \in Seq(AdvisoryRows)
      /\ Len(m.made) <= Cardinality(AdvisoryReads) /\ OncePerRead(m.made, m.evidence)
  BY Asking
<1>2. result = "COMPLETED" => OncePerRead(m.made, AdvisoryReads)
  BY <1>1
<1>3. /\ e \in Advisories /\ Honest(e) /\ e.written = 0 /\ e.pc = "persist"
      /\ Ended(m, result) = e
  BY <1>1, <1>2, EndedTyped
<1>4. Become(a, e)
  BY <1>3
<1> HIDE DEF e
<1> QED
  BY <1>3, <1>4, Continues DEF Working

LEMMA InvAsk ==
    ASSUME AdvisoryInv, NEW a \in Actors,
           \/ AdvisoryProviderFails(a) \/ AdvisoryGivesUp(a) \/ EmptyMessage(a)
           \/ CallDenied(a)
           \/ \E b \in BOOLEAN : FinalMessage(a, b)
    PROVE  AdvisoryInv' /\ (SomeAuthor => SomeAuthor')
<1> DEFINE m == adv[a]
<1>1. "FAILED" \in ADVISORY_TERMINAL_STATUSES /\ "COMPLETED" \in ADVISORY_TERMINAL_STATUSES
  BY DEF ADVISORY_TERMINAL_STATUSES
<1>2. ASSUME m.pc \in {"ask", "call"}, NoRows, Become(a, Ended(m, "FAILED"))
      PROVE  AdvisoryInv' /\ (SomeAuthor => SomeAuthor')
  BY <1>1, <1>2, Ends
\* Once more round, with the same reads.
<1>3. ASSUME m.pc = "ask", NoRows, NEW again \in Advisories, Become(a, again),
             again.pc = "ask", again.made = m.made, again.evidence = m.evidence,
             again.written = m.written
      PROVE  AdvisoryInv' /\ (SomeAuthor => SomeAuthor')
  <2>1. OncePerRead(m.made, m.evidence) /\ m.written = 0
    BY <1>3, Asking
  <2>2. Honest(again)
    BY <1>3, <2>1 DEF Honest
  <2> QED
    BY <1>3, <2>1, <2>2, Continues DEF Working
<1>4. CASE AdvisoryProviderFails(a)
  <2> DEFINE f == [NoAdvisory EXCEPT !.pc = "ask", !.turn = 1, !.model = "fallback"]
  <2>1. CASE Become(a, f)
    <3>1. f \in Advisories /\ f.pc = "ask" /\ f.made = <<>> /\ f.evidence = {} /\ f.written = 0
      BY NoAdvisoryTyped DEF Advisories, AdvisoryPlaces
    <3>2. m.pc = "ask" /\ NoRows
      BY <1>4 DEF AdvisoryProviderFails, CanAsk
    <3> HIDE DEF f
    <3>3. Honest(f)
      BY <3>1, NoReadYet DEF Honest
    <3> QED
      BY <2>1, <3>1, <3>2, <3>3, Continues DEF Working
  <2>2. CASE Become(a, Ended(m, "FAILED"))
    BY <1>2, <1>4, <2>2 DEF AdvisoryProviderFails, CanAsk
  <2> QED
    BY <1>4, <2>1, <2>2 DEF AdvisoryProviderFails
<1>5. CASE AdvisoryGivesUp(a)
  BY <1>2, <1>5 DEF AdvisoryGivesUp
<1>6. CASE CallDenied(a)
  BY <1>2, <1>6 DEF CallDenied
<1>7. CASE EmptyMessage(a)
  <2> DEFINE turn  == m.turn + 1
             count == m.empty + 1
             again == [m EXCEPT !.empty = count, !.turn = turn]
  <2>1. m.pc = "ask" /\ NoRows
    BY <1>7 DEF EmptyMessage, CanAsk
  <2>2. CASE Become(a, again)
    <3>1. m \in Advisories
      BY <2>1, Asking
    <3>3. turn \in Nat /\ count \in Nat
      BY <3>1 DEF Advisories
    <3> HIDE DEF turn, count
    <3>2. /\ again \in Advisories /\ again.pc = "ask" /\ again.made = m.made
          /\ again.evidence = m.evidence /\ again.written = m.written
      BY <2>1, <3>1, <3>3 DEF Advisories
    <3> HIDE DEF again
    <3> QED
      BY <1>3, <2>1, <2>2, <3>2
  <2>3. CASE Become(a, Ended(m, "FAILED"))
    BY <1>2, <2>1, <2>3
  <2> QED
    BY <1>7, <2>2, <2>3 DEF EmptyMessage
<1>8. ASSUME NEW b \in BOOLEAN, FinalMessage(a, b)
      PROVE  AdvisoryInv' /\ (SomeAuthor => SomeAuthor')
  <2> DEFINE turn  == m.turn + 1
             repairs == m.repairs + 1
             again == [m EXCEPT !.repairs = repairs, !.turn = turn]
  <2>1. m.pc = "ask" /\ NoRows /\ m.evidence = AdvisoryReads
    BY <1>8 DEF FinalMessage, CanAsk, ReadsComplete
  <2>2. CASE Become(a, Ended(m, "COMPLETED"))
    BY <1>1, <2>1, <2>2, Ends
  <2>3. CASE Become(a, Ended(m, "FAILED"))
    BY <1>2, <2>1, <2>3
  <2>4. CASE Become(a, again)
    <3>1. m \in Advisories
      BY <2>1, Asking
    <3>3. turn \in Nat /\ repairs \in Nat
      BY <3>1 DEF Advisories
    <3> HIDE DEF turn, repairs
    <3>2. /\ again \in Advisories /\ again.pc = "ask" /\ again.made = m.made
          /\ again.evidence = m.evidence /\ again.written = m.written
      BY <2>1, <3>1, <3>3 DEF Advisories
    <3> HIDE DEF again
    <3> QED
      BY <1>3, <2>1, <2>4, <3>2
  <2> QED
    BY <1>8, <2>2, <2>3, <2>4 DEF FinalMessage
<1> QED
  BY <1>4, <1>5, <1>6, <1>7, <1>8

LEMMA InvReads ==
    ASSUME AdvisoryInv, NEW a \in Actors,
           \/ \E n \in 1 .. ADVISORY_MAX_TOOL_CALLS + 1 : ReadCalls(a, n)
           \/ \E t \in AdvisoryReads : ReadOnce(a, t) \/ ReadFails(a, t)
    PROVE  AdvisoryInv' /\ (SomeAuthor => SomeAuthor')
<1> DEFINE m == adv[a]
<1>1. ASSUME NEW n \in 1 .. ADVISORY_MAX_TOOL_CALLS + 1, ReadCalls(a, n)
      PROVE  AdvisoryInv' /\ (SomeAuthor => SomeAuthor')
  <2> DEFINE calls == m.calls + n
             more  == [m EXCEPT !.pc = "call", !.queue = n, !.calls = calls]
  <2>1. m.pc = "ask" /\ NoRows
    BY <1>1 DEF ReadCalls, CanAsk
  <2>2. CASE Become(a, Ended(m, "FAILED"))
    BY <2>1, <2>2, Ends DEF ADVISORY_TERMINAL_STATUSES
  <2>3. CASE Become(a, more)
    <3>1. n \in Nat /\ n # 0
      BY ReadsAreFinite DEF ADVISORY_MAX_TOOL_CALLS
    <3>2. m \in Advisories /\ OncePerRead(m.made, m.evidence) /\ m.written = 0
      BY <2>1, Asking
    <3>5. calls \in Nat
      BY <3>1, <3>2 DEF Advisories
    <3> HIDE DEF calls
    <3>3. /\ more \in Advisories /\ more.pc = "call" /\ more.queue = n /\ more.made = m.made
          /\ more.evidence = m.evidence /\ more.written = m.written
      BY <3>1, <3>2, <3>5 DEF Advisories, AdvisoryPlaces
    <3> HIDE DEF more
    <3>4. Honest(more)
      BY <3>1, <3>2, <3>3 DEF Honest
    <3> QED
      BY <2>1, <2>3, <3>2, <3>3, <3>4, Continues DEF Working
  <2> QED
    BY <1>1, <2>2, <2>3 DEF ReadCalls
<1>2. ASSUME NEW t \in AdvisoryReads, ReadOnce(a, t)
      PROVE  AdvisoryInv' /\ (SomeAuthor => SomeAuthor')
  <2> DEFINE made  == Append(m.made, AdvisoryRow(t, "ok"))
             reads == m.evidence \cup {t}
             pc    == IF m.queue = 1 THEN "ask" ELSE "call"
             turn  == IF m.queue = 1 THEN m.turn + 1 ELSE m.turn
             left  == m.queue - 1
             next  == [m EXCEPT !.evidence = reads, !.made = made, !.queue = left,
                                !.pc = pc, !.turn = turn]
  <2>1. m.pc = "call" /\ NoRows /\ t \notin m.evidence
    BY <1>2 DEF ReadOnce
  <2>2. /\ m \in Advisories /\ m.made \in Seq(AdvisoryRows) /\ m.evidence \in SUBSET AdvisoryReads
        /\ OncePerRead(m.made, m.evidence) /\ m.written = 0 /\ m.queue # 0
    BY <2>1, Asking
  <2>3. made \in Seq(AdvisoryRows) /\ OncePerRead(made, reads)
    BY <2>1, <2>2, OneMoreRead
  <2>4. /\ m.queue \in Nat /\ turn \in Nat /\ left \in Nat /\ pc \in {"ask", "call"}
        /\ pc = "call" => left # 0
    BY <2>2 DEF Advisories
  <2>5. Become(a, next)
    BY <1>2 DEF ReadOnce
  <2>6. reads \in SUBSET AdvisoryReads
    BY <2>2
  <2> HIDE DEF made, turn, left, pc, reads
  <2>7. /\ next \in Advisories /\ next.pc = pc /\ next.queue = left /\ next.made = made
        /\ next.evidence = reads /\ next.written = 0
    BY <2>2, <2>3, <2>4, <2>6 DEF Advisories, AdvisoryPlaces
  <2> HIDE DEF next
  <2>8. Honest(next)
    BY <2>3, <2>4, <2>7 DEF Honest
  <2> QED
    BY <2>1, <2>4, <2>5, <2>7, <2>8, Continues DEF Working
<1>3. ASSUME NEW t \in AdvisoryReads, ReadFails(a, t)
      PROVE  AdvisoryInv' /\ (SomeAuthor => SomeAuthor')
  <2> DEFINE made == Append(m.made, AdvisoryRow(t, "error"))
             e    == [Ended(m, "FAILED") EXCEPT !.made = made]
  <2>1. m.pc = "call" /\ NoRows /\ t \notin m.evidence
    BY <1>3 DEF ReadFails
  <2>2. /\ m \in Advisories /\ m.made \in Seq(AdvisoryRows) /\ m.evidence \in SUBSET AdvisoryReads
        /\ Len(m.made) = Cardinality(m.evidence)
    BY <2>1, Asking
  <2>3. AdvisoryRow(t, "error") \in AdvisoryRows
    BY DEF AdvisoryRow, AdvisoryRows
  <2>4. made \in Seq(AdvisoryRows) /\ Len(made) = Len(m.made) + 1
    BY <2>2, <2>3, AppendProperties
  <2>5. Cardinality(m.evidence \cup {t}) = Cardinality(m.evidence) + 1
    BY <2>1, <2>2, ReadsAreFinite, FS_AddElement
  <2>6. Cardinality(m.evidence \cup {t}) <= Cardinality(AdvisoryReads)
    BY <2>2, ReadsAreFinite
  <2>7. Len(made) <= Cardinality(AdvisoryReads)
    BY <2>2, <2>4, <2>5, <2>6
  <2>8. Ended(m, "FAILED").made = m.made
    BY NoAdvisoryTyped DEF Ended, Advisories
  <2>9. Become(a, e)
    BY <1>3, <2>8 DEF ReadFails
  <2> HIDE DEF made
  <2>10. e \in Advisories /\ Honest(e) /\ e.written = 0 /\ e.pc = "persist"
    BY <2>2, <2>4, <2>7, EndedTyped DEF ADVISORY_TERMINAL_STATUSES
  <2> HIDE DEF e
  <2> QED
    BY <2>1, <2>9, <2>10, Continues DEF Working
<1> QED
  BY <1>1, <1>2, <1>3

\* A process outside its conversation takes another place with nothing written.
LEMMA Idle ==
    ASSUME AdvisoryInv, NEW a \in Actors, NoRows, NEW m \in Advisories, Become(a, m),
           m.pc \in {"none", "lookup", "start"}, m.made = <<>>, m.evidence = {}, m.written = 0
    PROVE  AdvisoryInv' /\ (adv[a].pc \notin Working /\ SomeAuthor => SomeAuthor')
<1>1. Honest(m) /\ m.pc \notin Working
  BY DEF Honest, Working
<1>2. AdvisoryInv'
  BY <1>1, NewPlace
<1>3. adv[a].pc \notin Working => adv[a].pc # "persist"
  BY DEF Working
<1> QED
  BY <1>2, <1>3, NewPlaceKeeps

\* The row of the run changes, and one process takes another place.
LEMMA InvStartAdvisory ==
    ASSUME AdvisoryInv, NEW a \in Actors,
           Lookup(a) \/ \E same \in BOOLEAN : StartAdvisory(a, same)
    PROVE  AdvisoryInv' /\ (SomeAuthor => SomeAuthor')
<1> DEFINE m == adv[a]
           asks == [m EXCEPT !.pc = "ask", !.turn = 1]
<1>1. /\ m \in Advisories /\ Honest(m) /\ Written(m)
      /\ adv \in [Actors -> Advisories] /\ advisoryTrace \in Seq(AdvisoryRows)
  BY DEF AdvisoryInv, AdvisoryTypeOK, Advisories
<1>2. m.pc \in {"lookup", "start"} => m.made = <<>> /\ m.evidence = {} /\ m.written = 0
  BY <1>1 DEF Honest
<1>3. ASSUME NoRows, NEW end \in AdvisoryEnds, Leave(a, end), m.pc \in {"lookup", "start"}
      PROVE  AdvisoryInv' /\ (SomeAuthor => SomeAuthor')
  <2> DEFINE e == [NoAdvisory EXCEPT !.end = end]
  <2>1. /\ e \in Advisories /\ e.pc = "none" /\ e.made = <<>> /\ e.evidence = {}
        /\ e.written = 0
    BY NoAdvisoryTyped DEF Advisories
  <2>2. Become(a, e)
    BY <1>3 DEF Leave
  <2> HIDE DEF e
  <2> QED
    BY <1>3, <2>1, <2>2, Idle DEF Working
<1>4. CASE Lookup(a)
  <2> DEFINE s == [m EXCEPT !.pc = "start"]
  <2>1. m.pc = "lookup" /\ NoRows
    BY <1>4 DEF Lookup
  <2>2. CASE Become(a, s)
    <3>1. /\ s \in Advisories /\ s.pc = "start" /\ s.made = <<>> /\ s.evidence = {}
          /\ s.written = 0
      BY <1>1, <1>2, <2>1 DEF Advisories, AdvisoryPlaces
    <3> HIDE DEF s
    <3> QED
      BY <2>1, <2>2, <3>1, Idle DEF Working
  <2>3. CASE Leave(a, "skipped")
    BY <1>3, <2>1, <2>3 DEF AdvisoryEnds
  <2> QED
    BY <1>4, <2>2, <2>3 DEF Lookup
<1>5. ASSUME StartAdvisory(a, FALSE) PROVE AdvisoryInv' /\ (SomeAuthor => SomeAuthor')
  BY <1>3, <1>5 DEF StartAdvisory, NoRows, AdvisoryEnds
<1>6. ASSUME StartAdvisory(a, TRUE) PROVE AdvisoryInv' /\ (SomeAuthor => SomeAuthor')
  <2>1. /\ m.pc = "start" /\ advisoryTrace' = advisoryTrace
        /\ advisoryRun' = (IF advisoryRun = "none" THEN "STARTED" ELSE advisoryRun)
        /\ adv' = [adv EXCEPT ![a] = asks]
    BY <1>6 DEF StartAdvisory, Become
  <2>2. /\ asks \in Advisories /\ asks.pc = "ask" /\ asks.made = <<>> /\ asks.evidence = {}
        /\ asks.written = 0
    BY <1>1, <1>2, <2>1 DEF Advisories, AdvisoryPlaces
  <2> HIDE DEF asks
  <2>3. Honest(asks)
    BY <2>2, NoReadYet DEF Honest
  <2>4. /\ adv' \in [Actors -> Advisories] /\ adv'[a] = asks
        /\ \A b \in Actors : b # a => adv'[b] = adv[b]
    BY <1>1, <2>1, <2>2
  <2>5. AdvisoryTypeOK'
    BY <2>1, <2>4 DEF AdvisoryInv, AdvisoryTypeOK, Advisories
  <2>6. \A b \in Actors : Honest(adv'[b])
    BY <2>3, <2>4 DEF AdvisoryInv
  <2>7. \A b \in Actors : Honest(adv[b])'
    BY <2>6 DEF Honest, OncePerRead
  <2>8. \A b \in Actors : Written(adv[b])'
    <3>1. Written(adv[a])'
      <4>1. Len(asks.made) \in Nat /\ Len(advisoryTrace) \in Nat
        BY <1>1, <2>2, LenProperties DEF Advisories
      <4> QED
        BY <2>1, <2>2, <2>4, <4>1 DEF Written
    <3>2. ASSUME NEW b \in Actors, b # a PROVE Written(adv[b])'
      BY <2>1, <2>4, <3>2 DEF Written, AdvisoryInv
    <3> QED
      BY <3>1, <3>2
  <2>9. /\ advisoryRun' # "none" /\ CompletedReadEverything'
        /\ Len(advisoryTrace') <= Cardinality(AdvisoryReads)
    BY <2>1 DEF AdvisoryInv, CompletedReadEverything
  <2>10. AdvisoryInv'
    BY <2>5, <2>7, <2>8, <2>9 DEF AdvisoryInv
  <2>11. SomeAuthor => SomeAuthor'
    <3>1. CASE advisoryRun = "none"
      <4>1. advisoryTrace' = <<>>
        BY <2>1, <3>1 DEF AdvisoryInv
      <4>2. Author(a)'
        BY <2>2, <2>4, <4>1 DEF Author, Working
      <4> QED
        BY <4>2 DEF SomeAuthor
    <3>2. CASE advisoryRun # "none"
      <4>1. ASSUME NEW b \in Actors, Author(b) PROVE Author(b)'
        <5>1. b # a
          BY <2>1, <4>1 DEF Author, Working
        <5> QED
          BY <2>1, <2>4, <4>1, <5>1 DEF Author
      <4> QED
        BY <2>1, <3>2, <4>1 DEF SomeAuthor
    <3> QED
      BY <3>1, <3>2
  <2> QED
    BY <2>10, <2>11
<1> QED
  BY <1>4, <1>5, <1>6

\* A row is written, or found to be the row another process wrote.
LEMMA InvPersistAdvisory ==
    ASSUME AdvisoryInv, NEW a \in Actors, NEW agrees \in BOOLEAN, PersistAdvisoryRow(a, agrees)
    PROVE  /\ AdvisoryInv' /\ (SomeAuthor => SomeAuthor') /\ advisoryRun' = advisoryRun
           /\ \/ advisoryTrace' = advisoryTrace
              \/ \E row \in AdvisoryRows : advisoryTrace' = Append(advisoryTrace, row)
<1> DEFINE m    == adv[a]
           n    == m.written
           mine == m.made[n + 1]
           free == n = Len(advisoryTrace)
           on   == [m EXCEPT !.written = n + 1]
           e    == [NoAdvisory EXCEPT !.end = "raised"]
<1>1. /\ m.pc = "persist" /\ n < Len(m.made) /\ advisoryRun' = advisoryRun
  BY DEF PersistAdvisoryRow, Unwritten
<1>2. /\ m \in Advisories /\ Honest(m) /\ Written(m)
      /\ adv \in [Actors -> Advisories] /\ advisoryTrace \in Seq(AdvisoryRows)
  BY DEF AdvisoryInv, AdvisoryTypeOK, Advisories
<1>3. /\ n \in Nat /\ m.made \in Seq(AdvisoryRows) /\ Len(m.made) \in Nat
      /\ Len(advisoryTrace) \in Nat /\ n <= Len(advisoryTrace)
      /\ Len(m.made) <= Cardinality(AdvisoryReads) /\ Cardinality(AdvisoryReads) \in Nat
  BY <1>1, <1>2, LenProperties, ReadsAreFinite DEF Advisories, Honest, Written
<1>4. mine \in AdvisoryRows
  BY <1>1, <1>3, ElementOfSeq
<1>5. n + 1 \in Nat
  BY <1>3
<1>6. on \in Advisories /\ on.written = n + 1 /\ on.pc = "persist" /\ on.made = m.made /\ on.result = m.result
  <2> DEFINE k == n + 1
  <2>1. k \in Nat
    BY <1>5
  <2>2. on = [m EXCEPT !.written = k]
    OBVIOUS
  <2> HIDE DEF k
  <2>3. [m EXCEPT !.written = k] \in Advisories
    BY <1>2, <2>1 DEF Advisories
  <2>4. /\ [m EXCEPT !.written = k].written = k /\ [m EXCEPT !.written = k].pc = m.pc
        /\ [m EXCEPT !.written = k].made = m.made /\ [m EXCEPT !.written = k].result = m.result
    BY <1>2 DEF Advisories
  <2> QED
    BY <1>1, <2>2, <2>3, <2>4 DEF k
<1>7. Honest(on)
  BY <1>1, <1>2, <1>6 DEF Honest
<1>8. e \in Advisories /\ e.pc = "none" /\ e.made = <<>> /\ e.evidence = {} /\ e.written = 0
  BY NoAdvisoryTyped DEF Advisories, AdvisoryEnds
<1>9. /\ free => advisoryTrace' = Append(advisoryTrace, mine) /\ adv' = [adv EXCEPT ![a] = on]
      /\ ~free /\ advisoryTrace[n + 1] = mine /\ agrees =>
           advisoryTrace' = advisoryTrace /\ adv' = [adv EXCEPT ![a] = on]
      /\ ~free /\ ~(advisoryTrace[n + 1] = mine /\ agrees) =>
           advisoryTrace' = advisoryTrace /\ Become(a, e)
  BY <1>1 DEF PersistAdvisoryRow, Become, Leave
<1> HIDE DEF on, mine, e
\* The author of the last row is somebody else.
<1>10. ASSUME ~free, NEW b \in Actors, Author(b) PROVE b # a /\ Author(b)'
  <2>1. advisoryTrace # <<>>
    BY <1>3, <1>10, EmptySeq
  <2>2. b # a
    BY <1>10, <2>1 DEF Author
  <2>3. adv'[b] = adv[b] /\ advisoryTrace' = advisoryTrace
    BY <1>2, <1>9, <1>10, <2>2 DEF Become
  <2> QED
    BY <1>10, <2>2, <2>3 DEF Author
<1>11. ~free /\ SomeAuthor => SomeAuthor'
  BY <1>1, <1>10 DEF SomeAuthor
\* The process goes on with the row in the trace.
<1>12. ASSUME adv' = [adv EXCEPT ![a] = on], NEW rows \in Seq(AdvisoryRows), advisoryTrace' = rows,
              Len(rows) >= Len(advisoryTrace), Len(rows) >= n + 1,
              Len(rows) <= Cardinality(AdvisoryReads),
              \A i \in 1 .. Len(advisoryTrace) : rows[i] = advisoryTrace[i], rows[n + 1] = mine,
              advisoryRun = "COMPLETED" => rows = advisoryTrace
       PROVE  AdvisoryInv'
  <2>1. /\ adv' \in [Actors -> Advisories] /\ adv'[a] = on
        /\ \A b \in Actors : b # a => adv'[b] = adv[b]
    BY <1>2, <1>6, <1>12
  <2>2. AdvisoryTypeOK'
    BY <1>1, <1>12, <2>1 DEF AdvisoryInv, AdvisoryTypeOK, Advisories
  <2>3. \A b \in Actors : Honest(adv'[b])
    BY <1>7, <2>1 DEF AdvisoryInv
  <2>4. \A b \in Actors : Honest(adv[b])'
    BY <2>3 DEF Honest, OncePerRead
  <2>5. Len(rows) \in Nat
    BY <1>12, LenProperties
  <2>6. ASSUME NEW b \in Actors PROVE Written(adv[b])'
    <3>1. CASE b = a
      <4>1. ASSUME NEW i \in 1 .. n + 1 PROVE rows[i] = m.made[i]
        <5>1. CASE i = n + 1
          BY <1>12, <5>1 DEF mine
        <5>2. CASE i # n + 1
          <6>1. i \in 1 .. n /\ i \in 1 .. Len(advisoryTrace)
            BY <1>3, <5>2
          <6> QED
            BY <1>2, <1>12, <6>1 DEF Written
        <5> QED
          BY <5>1, <5>2
      <4>2. n + 1 <= Len(m.made)
        BY <1>1, <1>3
      <4> QED
        BY <1>6, <1>12, <2>1, <3>1, <4>1, <4>2 DEF Written
    <3>2. CASE b # a
      <4> DEFINE k == adv[b].written
      <4>1. adv[b] \in Advisories /\ Written(adv[b]) /\ adv'[b] = adv[b] /\ k \in Nat
        BY <1>2, <2>1, <3>2 DEF AdvisoryInv, Advisories
      <4>2. k <= Len(advisoryTrace) /\ k <= Len(rows)
        BY <1>3, <1>12, <2>5, <4>1 DEF Written
      <4>3. \A i \in 1 .. k : rows[i] = adv[b].made[i]
        BY <1>3, <1>12, <4>1, <4>2 DEF Written
      <4> QED
        BY <1>12, <4>1, <4>2, <4>3 DEF Written
    <3> QED
      BY <3>1, <3>2
  <2>7. advisoryRun' # "none"
    BY <1>1 DEF AdvisoryInv, Working
  <2>8. CompletedReadEverything'
    BY <1>1, <1>12 DEF AdvisoryInv, CompletedReadEverything
  <2> QED
    BY <1>12, <2>2, <2>4, <2>6, <2>7, <2>8 DEF AdvisoryInv
<1>13. CASE free
  <2> DEFINE rows == Append(advisoryTrace, mine)
  <2>1. /\ rows \in Seq(AdvisoryRows) /\ Len(rows) = Len(advisoryTrace) + 1
        /\ \A i \in 1 .. Len(advisoryTrace) : rows[i] = advisoryTrace[i]
        /\ rows[Len(advisoryTrace) + 1] = mine
    BY <1>2, <1>4, AppendProperties
  <2>2. advisoryTrace' = rows /\ adv' = [adv EXCEPT ![a] = on]
    BY <1>9, <1>13
  <2> HIDE DEF rows
  <2>3. advisoryRun # "COMPLETED"
    <3>1. advisoryRun = "COMPLETED" => Len(advisoryTrace) = Cardinality(AdvisoryReads)
      BY DEF AdvisoryInv, CompletedReadEverything
    <3> QED
      BY <1>1, <1>3, <1>13, <3>1
  <2>4. AdvisoryInv'
    BY <1>1, <1>3, <1>12, <1>13, <2>1, <2>2, <2>3
  <2>5. Author(a)'
    <3>1. adv'[a] = on
      BY <1>2, <2>2
    <3> QED
      BY <1>6, <1>13, <2>1, <2>2, <3>1 DEF Author, Working
  <2> QED
    BY <1>1, <1>4, <1>9, <1>13, <2>4, <2>5 DEF SomeAuthor
<1>14. CASE ~free /\ advisoryTrace[n + 1] = mine /\ agrees
  <2>1. AdvisoryInv'
    BY <1>2, <1>3, <1>9, <1>12, <1>14 DEF AdvisoryInv
  <2> QED
    BY <1>1, <1>9, <1>11, <1>14, <2>1
<1>15. CASE ~free /\ ~(advisoryTrace[n + 1] = mine /\ agrees)
  <2>1. NoRows /\ Become(a, e)
    BY <1>1, <1>9, <1>15 DEF NoRows
  <2>2. AdvisoryInv'
    BY <1>8, <2>1, Idle
  <2> QED
    BY <1>1, <1>9, <1>11, <1>15, <2>2
<1> QED
  BY <1>13, <1>14, <1>15

\* What a process has completely written is the trace.
LEMMA WrittenTrace ==
    ASSUME AdvisoryInv, NEW a \in Actors, adv[a].pc = "persist", ~Unwritten(adv[a]),
           adv[a].result = "COMPLETED"
    PROVE  OncePerRead(advisoryTrace, AdvisoryReads)
<1> DEFINE m == adv[a]
<1>1. /\ m \in Advisories /\ Honest(m) /\ Written(m) /\ advisoryTrace \in Seq(AdvisoryRows)
      /\ Len(advisoryTrace) <= Cardinality(AdvisoryReads)
  BY DEF AdvisoryInv, AdvisoryTypeOK, Advisories
<1>2. OncePerRead(m.made, AdvisoryReads) /\ Len(m.made) = Cardinality(AdvisoryReads)
  BY <1>1 DEF Honest, OncePerRead
<1>3. m.made \in Seq(AdvisoryRows) /\ m.written \in Nat /\ Len(m.made) \in Nat /\ Len(advisoryTrace) \in Nat
  BY <1>1, LenProperties DEF Advisories
<1>4. m.written = Len(m.made) /\ Len(m.made) = Len(advisoryTrace)
  BY <1>1, <1>2, <1>3 DEF Written, Unwritten
<1>5. \A i \in 1 .. Len(m.made) : m.made[i] = advisoryTrace[i]
  BY <1>1, <1>4 DEF Written
<1>6. m.made = advisoryTrace
  BY <1>1, <1>3, <1>4, <1>5, SeqEqual
<1> QED
  BY <1>2, <1>6

\* The first result closes the run, and every later one leaves it as it is.
LEMMA InvFinishAdvisory ==
    ASSUME AdvisoryInv, NEW a \in Actors, NEW agrees \in BOOLEAN, FinishAdvisory(a, agrees)
    PROVE  /\ AdvisoryInv' /\ (SomeAuthor => SomeAuthor') /\ advisoryTrace' = advisoryTrace
           /\ advisoryRun # "STARTED" => advisoryRun' = advisoryRun
<1> DEFINE m == adv[a]
<1>1. m.pc = "persist" /\ ~Unwritten(m) /\ advisoryTrace' = advisoryTrace
  BY DEF FinishAdvisory
<1>2. m \in Advisories /\ Honest(m) /\ adv \in [Actors -> Advisories] /\ advisoryRun # "none"
  BY <1>1 DEF AdvisoryInv, AdvisoryTypeOK, Advisories, Working
<1>3. m.result \in ADVISORY_TERMINAL_STATUSES
  BY <1>1, <1>2 DEF Advisories, Honest
<1>4. advisoryRun \in ADVISORY_TERMINAL_STATUSES \cup {"STARTED"}
  BY <1>2 DEF AdvisoryInv, AdvisoryTypeOK
<1>5. /\ advisoryRun' = (IF advisoryRun = "STARTED" THEN m.result ELSE advisoryRun)
      /\ \E end \in AdvisoryEnds : Leave(a, end)
  BY <1>1, <1>3, <1>4 DEF FinishAdvisory, AdvisoryEnds, ADVISORY_TERMINAL_STATUSES
<1>6. advisoryRun' \in ADVISORY_TERMINAL_STATUSES
  BY <1>3, <1>4, <1>5
<1>7. PICK end \in AdvisoryEnds : Leave(a, end)
  BY <1>5
<1> DEFINE e == [NoAdvisory EXCEPT !.end = end]
<1>8. /\ e \in Advisories /\ e.pc = "none" /\ e.made = <<>> /\ e.written = 0
  BY NoAdvisoryTyped DEF Advisories
<1>9. adv' = [adv EXCEPT ![a] = e]
  BY <1>7 DEF Leave, Become
<1> HIDE DEF e
<1>10. /\ adv' \in [Actors -> Advisories] /\ adv'[a] = e
       /\ \A b \in Actors : b # a => adv'[b] = adv[b]
  BY <1>2, <1>8, <1>9
<1>11. AdvisoryTypeOK'
  BY <1>1, <1>6, <1>10 DEF AdvisoryInv, AdvisoryTypeOK, Advisories
<1>12. \A b \in Actors : Honest(adv[b])'
  <2>1. Honest(e)
    BY <1>8 DEF Honest
  <2>2. \A b \in Actors : Honest(adv'[b])
    BY <1>10, <2>1 DEF AdvisoryInv
  <2> QED
    BY <2>2 DEF Honest, OncePerRead
<1>13. \A b \in Actors : Written(adv[b])'
  <2>1. Written(adv[a])'
    <3>1. Len(e.made) \in Nat /\ Len(advisoryTrace) \in Nat
      BY <1>8, LenProperties DEF Advisories, AdvisoryInv, AdvisoryTypeOK
    <3> QED
      BY <1>1, <1>8, <1>10, <3>1 DEF Written
  <2>2. ASSUME NEW b \in Actors, b # a PROVE Written(adv[b])'
    BY <1>1, <1>10, <2>2 DEF Written, AdvisoryInv
  <2> QED
    BY <2>1, <2>2
<1>14. CompletedReadEverything'
  <2>1. ASSUME advisoryRun' = "COMPLETED" PROVE OncePerRead(advisoryTrace, AdvisoryReads)
    <3>1. CASE advisoryRun = "STARTED"
      BY <1>1, <1>5, <2>1, <3>1, WrittenTrace
    <3>2. CASE advisoryRun # "STARTED"
      BY <1>5, <2>1, <3>2 DEF AdvisoryInv, CompletedReadEverything, OncePerRead
    <3> QED
      BY <3>1, <3>2
  <2> QED
    BY <1>1, <2>1 DEF CompletedReadEverything, OncePerRead
<1>15. AdvisoryInv'
  BY <1>1, <1>6, <1>11, <1>12, <1>13, <1>14 DEF AdvisoryInv, ADVISORY_TERMINAL_STATUSES
<1>16. SomeAuthor'
  BY <1>6 DEF SomeAuthor, ADVISORY_TERMINAL_STATUSES
<1> QED
  BY <1>1, <1>5, <1>15, <1>16

\* A step changes the rows only where a row is written or the run is closed.
Appends ==
  \/ advisoryTrace' = advisoryTrace
  \/ \E row \in AdvisoryRows : advisoryTrace' = Append(advisoryTrace, row)

Closes == advisoryRun \in ADVISORY_TERMINAL_STATUSES => advisoryRun' = advisoryRun

LEMMA InvAdvisoryStep ==
    ASSUME AdvisoryInv, NEW a \in Actors, AdvisoryStep(a)
    PROVE  AdvisoryInv' /\ (SomeAuthor => SomeAuthor') /\ Appends /\ Closes
<1>1. CASE \/ AdvisoryProviderFails(a) \/ AdvisoryGivesUp(a) \/ EmptyMessage(a) \/ CallDenied(a)
           \/ \E b \in BOOLEAN : FinalMessage(a, b)
  <2>1. NoRows
    BY <1>1 DEF AdvisoryProviderFails, AdvisoryGivesUp, EmptyMessage, CallDenied, FinalMessage
  <2> QED
    BY <1>1, <2>1, InvAsk DEF NoRows, Appends, Closes
<1>2. CASE \/ \E n \in 1 .. ADVISORY_MAX_TOOL_CALLS + 1 : ReadCalls(a, n)
           \/ \E t \in AdvisoryReads : ReadOnce(a, t) \/ ReadFails(a, t)
  <2>1. NoRows
    BY <1>2 DEF ReadCalls, ReadOnce, ReadFails
  <2> QED
    BY <1>2, <2>1, InvReads DEF NoRows, Appends, Closes
<1>3. CASE Lookup(a) \/ \E b \in BOOLEAN : StartAdvisory(a, b)
  <2>1. /\ advisoryTrace' = advisoryTrace
        /\ advisoryRun # "none" => advisoryRun' = advisoryRun
    BY <1>3 DEF Lookup, StartAdvisory, NoRows
  <2> QED
    BY <1>3, <2>1, InvStartAdvisory DEF Appends, Closes, ADVISORY_TERMINAL_STATUSES
<1>4. ASSUME NEW b \in BOOLEAN, PersistAdvisoryRow(a, b)
      PROVE  AdvisoryInv' /\ (SomeAuthor => SomeAuthor') /\ Appends /\ Closes
  BY <1>4, InvPersistAdvisory DEF Appends, Closes
<1>5. ASSUME NEW b \in BOOLEAN, FinishAdvisory(a, b)
      PROVE  AdvisoryInv' /\ (SomeAuthor => SomeAuthor') /\ Appends /\ Closes
  BY <1>5, InvFinishAdvisory DEF Appends, Closes, ADVISORY_TERMINAL_STATUSES
<1> QED
  BY <1>1, <1>2, <1>3, <1>4, <1>5 DEF AdvisoryStep

LEMMA InvAdvisoryStutter ==
    ASSUME AdvisoryInv, UNCHANGED advisoryVars
    PROVE  AdvisoryInv' /\ (SomeAuthor => SomeAuthor') /\ Appends /\ Closes
<1>1. advisoryRun' = advisoryRun /\ advisoryTrace' = advisoryTrace /\ adv' = adv
  BY DEF advisoryVars
<1>2. AdvisoryInv'
  BY <1>1 DEF AdvisoryInv, AdvisoryTypeOK, CompletedReadEverything, Honest, Written, OncePerRead
<1>3. SomeAuthor => SomeAuthor'
  BY <1>1 DEF SomeAuthor, Author
<1> QED
  BY <1>1, <1>2, <1>3 DEF Appends, Closes

\* A process that is not in its conversation, or that dies, leaves the rows alone.
LEMMA InvResetAdvisory ==
    ASSUME AdvisoryInv, NEW a \in Actors, NoRows,
           \/ Become(a, NoAdvisory)
           \/ Become(a, [NoAdvisory EXCEPT !.pc = "lookup"])
    PROVE  /\ AdvisoryInv' /\ Appends /\ Closes
           /\ adv[a].pc = "none" /\ SomeAuthor => SomeAuthor'
<1> DEFINE l == [NoAdvisory EXCEPT !.pc = "lookup"]
<1>1. /\ l \in Advisories /\ l.pc = "lookup" /\ l.made = <<>> /\ l.evidence = {}
      /\ l.written = 0
  BY NoAdvisoryTyped DEF Advisories, AdvisoryPlaces
<1> HIDE DEF l
<1>2. CASE Become(a, NoAdvisory)
  BY <1>2, NoAdvisoryTyped, Idle DEF Working, NoRows, Appends, Closes
<1>3. CASE Become(a, l)
  BY <1>1, <1>3, Idle DEF Working, NoRows, Appends, Closes
<1> QED
  BY <1>2, <1>3 DEF l

\* A process changes no other process's advisory.
LEMMA OnlyItsOwn ==
    ASSUME AdvisoryInv, NEW a \in Actors, NEW b \in Actors, a # b,
           AdvisoryStep(a) \/ \E m : Become(a, m)
    PROVE  adv'[b] = adv[b]
<1>1. \E m : adv' = [adv EXCEPT ![a] = m]
  BY DEF AdvisoryStep, Lookup, AdvisoryProviderFails, AdvisoryGivesUp, EmptyMessage, CallDenied,
         StartAdvisory, FinalMessage, PersistAdvisoryRow, FinishAdvisory, ReadCalls, ReadOnce,
         ReadFails, Leave, Become
<1> QED
  BY <1>1 DEF AdvisoryInv, AdvisoryTypeOK

-----------------------------------------------------------------------------
(* The worker and the operator.                                              *)

ScanTypeOK ==
  /\ run \in PreDispatch \cup {"SUBMITTING", "NO_TRADE"}
  /\ eligible \in BOOLEAN
  /\ intents \in BOOLEAN /\ cycle \in Nat /\ crashes \in Nat
  /\ started \in [Candidates -> Nat]
  /\ queue \in Seq(Candidates)
  /\ wk \in WorkerPlaces
  /\ op \in {"none", "records", "existing", "advise", "done"}

WithCandidate == {"next", "intent", "start", "review", "policy", "back"}

\* Where the worker is tells what it works on and what it knows of it.
WorkerInv ==
  /\ wk \in WithCandidate => queue # <<>>
  /\ rev.pc # "none" => wk = "review"
  /\ wk \in {"review", "policy"} => started[Head(queue)] = cycle
  /\ wk = "review" =>
       /\ rev.cand = Head(queue)
       /\ rev.pc = "none" => agentRun[rev.cand] = StatusOf(rev.verdict)
  /\ wk = "policy" => agentRun[Head(queue)] = "COMPLETED"
  /\ adv["worker"].pc # "none" => wk = "advise"
  /\ adv["operator"].pc # "none" => op = "advise"

Left(c) == agentRun[c] = "STARTED" /\ (wk # "review" \/ c # rev.cand)

ScreeningInv ==
  /\ ScanTypeOK
  /\ ReviewInv
  /\ AdvisoryInv
  /\ WorkerInv
  /\ OpenReviewsWereInterrupted
  /\ crashes = 0 => SomeAuthor

LEMMA InvInit ==
    ASSUME Init
    PROVE  ScreeningInv
<1>1. /\ agentRun = [c \in Candidates |-> "none"] /\ agentTrace = [c \in Candidates |-> <<>>]
      /\ rev = NoReview /\ advisoryRun = "none" /\ advisoryTrace = <<>>
      /\ adv = [a \in Actors |-> NoAdvisory]
  BY DEF Init, ReviewInit, AdvisoryInit
<1>2. <<>> \in Seq(ToolRows) /\ <<>> \in Seq(AdvisoryRows) /\ <<>> \in Seq(Candidates)
  BY EmptySeq
<1>3. NoReview.pc = "none"
  BY DEF NoReview
<1>4. ScanTypeOK
  BY <1>2 DEF Init, ScanTypeOK, PreDispatch, WorkerPlaces
<1>5. ReviewInv
  <2>1. ReviewTypeOK
    BY <1>1, <1>2, NoReviewTyped DEF ReviewTypeOK, Reviews, AgentStatuses
  <2> QED
    BY <1>1, <1>3, <2>1 DEF ReviewInv, Grounded, OnRecord, EvidenceBeforeVerdict
<1>6. AdvisoryInv
  <2>1. AdvisoryTypeOK
    BY <1>1, <1>2, NoAdvisoryTyped DEF AdvisoryTypeOK, Advisories
  <2>2. Len(<<>>) = 0 /\ Cardinality(AdvisoryReads) \in Nat
    BY NoReadYet, ReadsAreFinite
  <2>3. \A a \in Actors : Honest(adv[a]) /\ Written(adv[a])
    BY <1>1, <2>2, NoAdvisoryTyped DEF Honest, Written
  <2> QED
    BY <1>1, <2>1, <2>2, <2>3, NoAdvisoryTyped DEF AdvisoryInv, Working, CompletedReadEverything
<1>7. WorkerInv
  BY <1>1, <1>3, NoAdvisoryTyped, ScreeningConstants DEF WorkerInv, Init, WithCandidate
<1>8. OpenReviewsWereInterrupted
  <2>1. {c \in Candidates : agentRun[c] = "STARTED" /\ (wk # "review" \/ c # rev.cand)} = {}
    BY <1>1
  <2>2. Cardinality({}) = 0 /\ crashes = 0
    BY FS_EmptySet DEF Init
  <2> QED
    BY <2>1, <2>2 DEF OpenReviewsWereInterrupted
<1>9. SomeAuthor
  BY <1>1 DEF SomeAuthor
<1> QED
  BY <1>4, <1>5, <1>6, <1>7, <1>8, <1>9 DEF ScreeningInv

\* No further review is left open.
LEMMA NoneLeft ==
    ASSUME ScreeningInv, crashes' = crashes, \A c \in Candidates : Left(c)' => Left(c)
    PROVE  OpenReviewsWereInterrupted'
<1> DEFINE S == {c \in Candidates : Left(c)}
           T == {c \in Candidates : Left(c)'}
<1>1. IsFiniteSet(S) /\ Cardinality(S) \in Nat /\ S \subseteq Candidates
  BY ReviewConstants, FS_Subset, FS_CardinalityType
<1>2. T \subseteq S
  OBVIOUS
<1>3. Cardinality(T) <= Cardinality(S) /\ Cardinality(T) \in Nat
  BY <1>1, <1>2, FS_Subset, FS_CardinalityType
<1>4. Cardinality(S) <= crashes /\ crashes \in Nat
  BY DEF ScreeningInv, OpenReviewsWereInterrupted, ScanTypeOK, Left
<1>5. Cardinality(T) <= crashes'
  BY <1>1, <1>3, <1>4
<1> QED
  BY <1>5 DEF OpenReviewsWereInterrupted, Left

\* A crash leaves at most the review that was under way.
LEMMA OneLeft ==
    ASSUME ScreeningInv, crashes' = crashes + 1, NEW d \in Candidates,
           \A c \in Candidates : Left(c)' => Left(c) \/ c = d
    PROVE  OpenReviewsWereInterrupted'
<1> DEFINE S == {c \in Candidates : Left(c)}
           T == {c \in Candidates : Left(c)'}
<1>1. IsFiniteSet(S) /\ Cardinality(S) \in Nat
  BY ReviewConstants, FS_Subset, FS_CardinalityType
<1>2. T \subseteq S \cup {d}
  OBVIOUS
<1>3. /\ IsFiniteSet(S \cup {d}) /\ Cardinality(S \cup {d}) \in Nat
      /\ Cardinality(S \cup {d}) <= Cardinality(S) + 1
  <2>1. CASE d \in S
    <3>1. S \cup {d} = S
      BY <2>1
    <3> QED
      BY <1>1, <3>1
  <2>2. CASE d \notin S
    <3>1. IsFiniteSet(S \cup {d}) /\ Cardinality(S \cup {d}) = Cardinality(S) + 1
      BY <1>1, <2>2, FS_AddElement
    <3> QED
      BY <1>1, <3>1
  <2> QED
    BY <2>1, <2>2
<1>4. Cardinality(T) <= Cardinality(S \cup {d}) /\ Cardinality(T) \in Nat
  BY <1>2, <1>3, FS_Subset, FS_CardinalityType
<1>5. Cardinality(S) <= crashes /\ crashes \in Nat
  BY DEF ScreeningInv, OpenReviewsWereInterrupted, ScanTypeOK, Left
<1>6. Cardinality(T) <= crashes'
  BY <1>1, <1>3, <1>4, <1>5
<1> QED
  BY <1>6 DEF OpenReviewsWereInterrupted, Left

\* The candidate the worker holds.
LEMMA HeadTyped ==
    ASSUME ScreeningInv, wk \in WithCandidate
    PROVE  queue # <<>> /\ Head(queue) \in Candidates /\ Tail(queue) \in Seq(Candidates)
  BY HeadTailProperties DEF ScreeningInv, ScanTypeOK, WorkerInv

\* A move of the worker that leaves both reviews alone.
LEMMA Quiet ==
    ASSUME ScreeningInv, UNCHANGED <<reviewVars, advisoryVars, crashes>>,
           wk = "review" => wk' = wk, wk' = "review" => wk = wk',
           ScanTypeOK', WorkerInv'
    PROVE  ScreeningInv'
<1>1. ReviewInv' /\ AdvisoryInv' /\ (SomeAuthor => SomeAuthor')
  BY InvReviewStutter, InvAdvisoryStutter DEF ScreeningInv
<1>2. OpenReviewsWereInterrupted'
  <2>1. \A c \in Candidates : Left(c)' => Left(c)
    BY DEF Left, reviewVars
  <2> QED
    BY <2>1, NoneLeft
<1> QED
  BY <1>1, <1>2 DEF ScreeningInv

LEMMA InvQuietMoves ==
    ASSUME ScreeningInv,
           \/ WindowExpires \/ Observe \/ EnterScan \/ NextCandidate \/ PersistIntent
           \/ PolicyCheck \/ Back \/ OperatorStarts \/ OperatorReadsRecords
    PROVE  ScreeningInv'
<1>1. /\ agentRun' = agentRun /\ rev' = rev /\ adv' = adv /\ started' = started
      /\ cycle' = cycle /\ crashes' = crashes
      /\ UNCHANGED <<reviewVars, advisoryVars, crashes>>
  BY DEF WindowExpires, Observe, EnterScan, NextCandidate, PersistIntent, PolicyCheck, Back,
         OperatorStarts, OperatorReadsRecords, scanVars, reviewVars, advisoryVars
<1>2. WorkerInv /\ ScanTypeOK
  BY DEF ScreeningInv
<1>3. CASE WindowExpires \/ Observe \/ EnterScan
  <2>1. wk \in {"cycle", "idle"} /\ wk' \in {"idle", "scan"} /\ queue' = queue /\ op' = op
    BY <1>3 DEF WindowExpires, Observe, EnterScan
  <2>2. ScanTypeOK'
    BY <1>1, <1>2, <1>3, <2>1 DEF WindowExpires, Observe, EnterScan, ScanTypeOK, WorkerPlaces, PreDispatch
  <2>3. WorkerInv'
    BY <1>1, <1>2, <2>1 DEF WorkerInv, WithCandidate
  <2> QED
    BY <1>1, <2>1, <2>2, <2>3, Quiet
<1>4. CASE NextCandidate \/ PersistIntent
  <2>1. wk \in {"next", "intent"} /\ wk' \in {"intent", "start"} /\ queue' = queue /\ op' = op
    BY <1>4 DEF NextCandidate, PersistIntent
  <2>2. ScanTypeOK'
    BY <1>1, <1>2, <1>4, <2>1 DEF NextCandidate, PersistIntent, ScanTypeOK, WorkerPlaces, PreDispatch
  <2>3. WorkerInv'
    BY <1>1, <1>2, <2>1 DEF WorkerInv, WithCandidate
  <2> QED
    BY <1>1, <2>1, <2>2, <2>3, Quiet
<1>5. CASE PolicyCheck
  <2>1. wk = "policy" /\ wk' \in {"back", "idle"} /\ queue' = queue /\ op' = op
    BY <1>5 DEF PolicyCheck
  <2>2. ScanTypeOK'
    BY <1>1, <1>2, <1>5, <2>1 DEF PolicyCheck, ScanTypeOK, WorkerPlaces, PreDispatch
  <2>3. WorkerInv'
    BY <1>1, <1>2, <2>1 DEF WorkerInv, WithCandidate
  <2> QED
    BY <1>1, <2>1, <2>2, <2>3, Quiet
<1>6. CASE Back
  <2>1. /\ wk = "back" /\ queue' = Tail(queue) /\ op' = op /\ eligible' = eligible
        /\ intents' = intents
        /\ IF Len(queue) > 1 THEN run' = "SCREENING" /\ wk' = "next"
                             ELSE run' \in {"SCREENING", "NO_TRADE"} /\ wk' = "idle"
    BY <1>6 DEF Back
  <2>2. queue \in Seq(Candidates) /\ queue # <<>> /\ Tail(queue) \in Seq(Candidates)
    BY <2>1, HeadTyped DEF ScreeningInv, ScanTypeOK, WithCandidate
  <2>3. ScanTypeOK'
    BY <1>1, <1>2, <2>1, <2>2 DEF ScanTypeOK, WorkerPlaces, PreDispatch
  <2>4. wk' = "next" => Tail(queue) # <<>>
    <3>1. Len(Tail(queue)) = Len(queue) - 1 /\ Len(queue) \in Nat
      BY <2>2, HeadTailProperties, LenProperties
    <3> SUFFICES ASSUME wk' = "next", Tail(queue) = <<>> PROVE FALSE
      OBVIOUS
    <3>2. Len(Tail(queue)) # 0
      BY <2>1, <3>1
    <3>3. Len(Tail(queue)) = 0
      BY NoReadYet
    <3> QED
      BY <3>2, <3>3
  <2>5. WorkerInv'
    BY <1>1, <1>2, <2>1, <2>4 DEF WorkerInv, WithCandidate
  <2> QED
    BY <1>1, <2>1, <2>3, <2>5, Quiet
<1>7. CASE OperatorStarts \/ OperatorReadsRecords
  <2>1. /\ UNCHANGED scanVars /\ op \in {"none", "records"}
        /\ op' \in {"records", "existing", "done"}
    BY <1>7 DEF OperatorStarts, OperatorReadsRecords
  <2>2. ScanTypeOK' /\ wk' = wk /\ queue' = queue
    BY <1>2, <2>1 DEF ScanTypeOK, scanVars
  <2>3. WorkerInv'
    BY <1>1, <1>2, <2>1, <2>2 DEF WorkerInv
  <2> QED
    BY <1>1, <2>2, <2>3, Quiet
<1> QED
  BY <1>3, <1>4, <1>5, <1>6, <1>7

LEMMA InvBeginCycle ==
    ASSUME ScreeningInv, BeginCycle
    PROVE  ScreeningInv'
<1>1. /\ wk = "idle" /\ wk' = "cycle" /\ cycle' = cycle + 1 /\ op' = op /\ queue' = queue
      /\ started' = started /\ crashes' = crashes /\ run' = run /\ eligible' = eligible
      /\ intents' = intents /\ UNCHANGED advisoryVars
      /\ UNCHANGED reviewVars \/ \E c \in LatestReviews : CloseInterrupted(c)
  BY DEF BeginCycle
<1>2. ScanTypeOK /\ WorkerInv /\ ReviewInv /\ AdvisoryInv /\ rev.pc = "none"
  BY <1>1 DEF ScreeningInv, WorkerInv
<1>3. ReviewInv' /\ rev' = rev
  BY <1>1, <1>2, InvReviewStutter, InvCloseInterrupted DEF LatestReviews, CloseInterrupted, reviewVars
<1>4. AdvisoryInv' /\ (SomeAuthor => SomeAuthor') /\ adv' = adv
  BY <1>1, <1>2, InvAdvisoryStutter DEF advisoryVars
<1>5. ScanTypeOK'
  BY <1>1, <1>2 DEF ScanTypeOK, WorkerPlaces
<1>6. WorkerInv'
  BY <1>1, <1>2, <1>3, <1>4 DEF WorkerInv, WithCandidate
<1>7. \A c \in Candidates : agentRun'[c] = "STARTED" => agentRun[c] = "STARTED"
  BY <1>1, <1>2 DEF CloseInterrupted, reviewVars, ReviewInv, ReviewTypeOK
<1>8. OpenReviewsWereInterrupted'
  BY <1>1, <1>7, NoneLeft DEF Left
<1> QED
  BY <1>1, <1>3, <1>4, <1>5, <1>6, <1>8 DEF ScreeningInv

LEMMA InvCollect ==
    ASSUME ScreeningInv, NEW n \in Nat, NEW ranked \in [1 .. n -> Candidates], Collect(ranked)
    PROVE  ScreeningInv'
<1>1. /\ wk = "scan" /\ queue' = ranked /\ eligible' = (eligible \/ ranked # <<>>)
      /\ wk' \in {"advise", "next", "idle"} /\ (wk' = "next" => ranked # <<>>)
      /\ UNCHANGED reviewVars /\ NoRows /\ run' = run /\ intents' = intents /\ cycle' = cycle
      /\ started' = started /\ crashes' = crashes /\ op' = op
      /\ \/ adv' = adv
         \/ wk' = "advise" /\ Become("worker", [NoAdvisory EXCEPT !.pc = "lookup"])
  BY DEF Collect, NoRows, Become
<1>2. /\ ScanTypeOK /\ WorkerInv /\ ReviewInv /\ AdvisoryInv /\ adv["worker"].pc = "none"
      /\ rev.pc = "none"
  BY <1>1 DEF ScreeningInv, WorkerInv
<1>3. ranked \in Seq(Candidates)
  OBVIOUS
<1>4. ReviewInv' /\ rev' = rev /\ agentRun' = agentRun
  BY <1>1, <1>2, InvReviewStutter DEF reviewVars
<1>5. /\ AdvisoryInv' /\ (SomeAuthor => SomeAuthor')
      /\ adv'["operator"] = adv["operator"] /\ (adv'["worker"].pc # "none" => wk' = "advise")
  <2>1. CASE adv' = adv
    BY <1>1, <1>2, <2>1, InvAdvisoryStutter DEF NoRows, advisoryVars
  <2>2. CASE wk' = "advise" /\ Become("worker", [NoAdvisory EXCEPT !.pc = "lookup"])
    <3>1. AdvisoryInv' /\ (SomeAuthor => SomeAuthor')
      BY <1>1, <1>2, <2>2, InvResetAdvisory, ScreeningConstants
    <3>2. adv'["operator"] = adv["operator"]
      BY <1>2, <2>2, OnlyItsOwn, ScreeningConstants
    <3> QED
      BY <2>2, <3>1, <3>2
  <2> QED
    BY <1>1, <2>1, <2>2
<1>6. ScanTypeOK'
  BY <1>1, <1>2, <1>3 DEF ScanTypeOK, WorkerPlaces
<1>7. WorkerInv'
  BY <1>1, <1>2, <1>4, <1>5 DEF WorkerInv, WithCandidate
<1>8. OpenReviewsWereInterrupted'
  BY <1>1, <1>4, NoneLeft DEF Left
<1> QED
  BY <1>1, <1>4, <1>5, <1>6, <1>7, <1>8 DEF ScreeningInv

LEMMA InvBeginReview ==
    ASSUME ScreeningInv, BeginReview
    PROVE  ScreeningInv'
<1> DEFINE c == Head(queue)
<1>1. /\ wk = "start" /\ wk' = "review" /\ StartReview(c)
      /\ started' = [started EXCEPT ![c] = cycle] /\ UNCHANGED advisoryVars
      /\ run' = run /\ eligible' = eligible /\ intents' = intents /\ cycle' = cycle
      /\ queue' = queue /\ crashes' = crashes /\ op' = op
  BY DEF BeginReview
<1>2. ScanTypeOK /\ WorkerInv /\ ReviewInv /\ AdvisoryInv
  BY DEF ScreeningInv
<1>3. c \in Candidates /\ queue # <<>>
  BY <1>1, HeadTyped DEF WithCandidate
<1>4. ReviewInv'
  BY <1>1, <1>2, <1>3, InvStartReview
<1>5. rev'.cand = c /\ rev'.pc = "ask"
  BY <1>1, <1>3, NoReviewTyped DEF StartReview, Reviews
<1>6. \A d \in Candidates : d # c => agentRun'[d] = agentRun[d]
  BY <1>1, <1>2 DEF StartReview, ReviewInv, ReviewTypeOK
<1>7. AdvisoryInv' /\ (SomeAuthor => SomeAuthor') /\ adv' = adv
  BY <1>1, <1>2, InvAdvisoryStutter DEF advisoryVars
<1>8. ScanTypeOK' /\ started'[c] = cycle
  BY <1>1, <1>2, <1>3 DEF ScanTypeOK, WorkerPlaces
<1>9. WorkerInv'
  BY <1>1, <1>2, <1>3, <1>5, <1>7, <1>8 DEF WorkerInv, WithCandidate
<1>10. OpenReviewsWereInterrupted'
  BY <1>1, <1>5, <1>6, NoneLeft DEF Left
<1> QED
  BY <1>1, <1>4, <1>7, <1>8, <1>9, <1>10 DEF ScreeningInv

LEMMA InvReview ==
    ASSUME ScreeningInv, Review
    PROVE  ScreeningInv'
<1>1. /\ wk = "review" /\ ReviewStep /\ UNCHANGED advisoryVars /\ wk' = wk /\ queue' = queue
      /\ started' = started /\ cycle' = cycle /\ crashes' = crashes /\ op' = op
      /\ run' = run /\ eligible' = eligible /\ intents' = intents
  BY DEF Review, scanVars
<1>2. ScanTypeOK /\ WorkerInv /\ ReviewInv /\ AdvisoryInv /\ rev.cand = Head(queue)
  BY <1>1 DEF ScreeningInv, WorkerInv
<1>3. /\ ReviewInv' /\ rev'.cand = rev.cand
      /\ rev'.pc = "none" => agentRun'[rev.cand] = StatusOf(rev'.verdict)
      /\ \A d \in Candidates : d # rev.cand => agentRun'[d] = agentRun[d]
  BY <1>1, <1>2, InvReviewStep
<1>4. AdvisoryInv' /\ (SomeAuthor => SomeAuthor') /\ adv' = adv
  BY <1>1, <1>2, InvAdvisoryStutter DEF advisoryVars
<1>5. ScanTypeOK'
  BY <1>1, <1>2 DEF ScanTypeOK
<1>6. WorkerInv'
  <2>1. StatusOf(rev.verdict)' = StatusOf(rev'.verdict)
    BY DEF StatusOf
  <2> QED
    BY <1>1, <1>2, <1>3, <1>4, <2>1 DEF WorkerInv, WithCandidate
<1>7. OpenReviewsWereInterrupted'
  BY <1>1, <1>3, NoneLeft DEF Left
<1> QED
  BY <1>1, <1>3, <1>4, <1>5, <1>6, <1>7 DEF ScreeningInv

LEMMA InvReviewed ==
    ASSUME ScreeningInv, Reviewed
    PROVE  ScreeningInv'
<1>1. /\ wk = "review" /\ rev.pc = "none" /\ CrashReview /\ UNCHANGED advisoryVars
      /\ queue' = queue /\ started' = started /\ cycle' = cycle /\ crashes' = crashes
      /\ op' = op /\ eligible' = eligible /\ intents' = intents
      /\ \/ rev.verdict = "allow" /\ run' = "POLICY_CHECK" /\ wk' = "policy"
         \/ run' = run /\ wk' = "back"
  BY DEF Reviewed
<1>2. /\ ScanTypeOK /\ WorkerInv /\ ReviewInv /\ AdvisoryInv /\ rev.cand = Head(queue)
      /\ agentRun[rev.cand] = StatusOf(rev.verdict)
  BY <1>1 DEF ScreeningInv, WorkerInv
<1>3. ReviewInv' /\ agentRun' = agentRun /\ rev'.pc = "none"
  BY <1>1, <1>2, InvCrashReview DEF CrashReview, NoReview
<1>4. AdvisoryInv' /\ (SomeAuthor => SomeAuthor') /\ adv' = adv
  BY <1>1, <1>2, InvAdvisoryStutter DEF advisoryVars
<1>5. ScanTypeOK'
  BY <1>1, <1>2 DEF ScanTypeOK, WorkerPlaces, PreDispatch
<1>6. wk' = "policy" => agentRun[Head(queue)] = "COMPLETED"
  BY <1>1, <1>2, StatusIsTerminal
<1>7. WorkerInv'
  BY <1>1, <1>2, <1>3, <1>4, <1>6 DEF WorkerInv, WithCandidate
<1>8. OpenReviewsWereInterrupted'
  <2>1. agentRun[rev.cand] # "STARTED"
    BY <1>2, StatusIsTerminal DEF AGENT_TERMINAL_STATUSES
  <2>2. \A c \in Candidates : Left(c)' => Left(c)
    BY <1>1, <1>3, <2>1 DEF Left
  <2> QED
    BY <1>1, <2>2, NoneLeft
<1> QED
  BY <1>1, <1>3, <1>4, <1>5, <1>7, <1>8 DEF ScreeningInv

\* The advisory of the worker or of the operator takes a step.
LEMMA InvAdvises ==
    ASSUME ScreeningInv,
           \/ WorkerAdvises \/ WorkerAdvised \/ OperatorLooks \/ OperatorAdvises \/ OperatorReports
    PROVE  ScreeningInv'
<1>1. ScanTypeOK /\ WorkerInv /\ ReviewInv /\ AdvisoryInv
  BY DEF ScreeningInv
<1>2. "worker" \in Actors /\ "operator" \in Actors /\ "worker" # "operator"
  BY ScreeningConstants
<1>3. /\ UNCHANGED reviewVars /\ run' = run /\ eligible' = eligible /\ intents' = intents
      /\ cycle' = cycle /\ started' = started /\ queue' = queue /\ crashes' = crashes
  BY DEF WorkerAdvises, WorkerAdvised, OperatorLooks, OperatorAdvises, OperatorReports, scanVars
<1>4. ReviewInv' /\ agentRun' = agentRun /\ rev' = rev
  BY <1>1, <1>3, InvReviewStutter DEF reviewVars
<1>5. ASSUME wk # "review", wk' # "review" \/ wk' = wk,
             ScanTypeOK', WorkerInv', AdvisoryInv', SomeAuthor => SomeAuthor'
      PROVE  ScreeningInv'
  <2>1. OpenReviewsWereInterrupted'
    BY <1>3, <1>4, <1>5, NoneLeft DEF Left
  <2> QED
    BY <1>3, <1>4, <1>5, <2>1 DEF ScreeningInv
<1>6. ASSUME wk' = wk, ScanTypeOK', WorkerInv', AdvisoryInv', SomeAuthor => SomeAuthor'
      PROVE  ScreeningInv'
  <2>1. OpenReviewsWereInterrupted'
    BY <1>3, <1>4, <1>6, NoneLeft DEF Left
  <2> QED
    BY <1>3, <1>4, <1>6, <2>1 DEF ScreeningInv
<1>7. CASE WorkerAdvises
  <2>1. wk = "advise" /\ wk' = wk /\ op' = op /\ AdvisoryStep("worker")
    BY <1>7 DEF WorkerAdvises, scanVars
  <2>2. AdvisoryInv' /\ (SomeAuthor => SomeAuthor') /\ adv'["operator"] = adv["operator"]
    BY <1>1, <1>2, <2>1, InvAdvisoryStep, OnlyItsOwn
  <2>3. ScanTypeOK' /\ WorkerInv'
    BY <1>1, <1>3, <1>4, <2>1, <2>2 DEF ScanTypeOK, WorkerInv, WithCandidate
  <2> QED
    BY <1>6, <2>1, <2>2, <2>3
<1>8. CASE WorkerAdvised
  <2>1. /\ wk = "advise" /\ wk' = "idle" /\ op' = op /\ adv["worker"].pc = "none"
        /\ NoRows /\ Become("worker", NoAdvisory)
    BY <1>8 DEF WorkerAdvised, CrashAdvisory
  <2>2. AdvisoryInv' /\ (SomeAuthor => SomeAuthor') /\ adv'["operator"] = adv["operator"]
    BY <1>1, <1>2, <2>1, InvResetAdvisory, OnlyItsOwn
  <2>3. adv'["worker"].pc = "none"
    BY <1>1, <1>2, <2>1, NoAdvisoryTyped DEF Become, AdvisoryInv, AdvisoryTypeOK
  <2>4. ScanTypeOK'
    BY <1>1, <1>3, <2>1 DEF ScanTypeOK, WorkerPlaces
  <2>5. WorkerInv'
    BY <1>1, <1>3, <1>4, <2>1, <2>2, <2>3 DEF WorkerInv, WithCandidate
  <2> QED
    BY <1>5, <2>1, <2>2, <2>4, <2>5
<1>9. CASE OperatorLooks
  <2>1. /\ op = "existing" /\ wk' = wk /\ NoRows /\ op' \in {"done", "advise"}
        /\ adv' = adv \/ (op' = "advise" /\ Become("operator", [NoAdvisory EXCEPT !.pc = "lookup"]))
    BY <1>9 DEF OperatorLooks, scanVars, NoRows, Become
  <2>2. adv["operator"].pc = "none"
    BY <1>1, <2>1 DEF WorkerInv
  <2>3. AdvisoryInv' /\ (SomeAuthor => SomeAuthor') /\ adv'["worker"] = adv["worker"]
    <3>1. CASE adv' = adv
      BY <1>1, <2>1, <3>1, InvAdvisoryStutter DEF NoRows, advisoryVars
    <3>2. CASE Become("operator", [NoAdvisory EXCEPT !.pc = "lookup"])
      <4>1. AdvisoryInv' /\ (SomeAuthor => SomeAuthor')
        BY <1>1, <1>2, <2>1, <2>2, <3>2, InvResetAdvisory
      <4>2. adv'["worker"] = adv["worker"]
        BY <1>1, <1>2, <3>2, OnlyItsOwn
      <4> QED
        BY <4>1, <4>2
    <3> QED
      BY <2>1, <3>1, <3>2
  <2>4. ScanTypeOK' /\ WorkerInv'
    BY <1>1, <1>3, <1>4, <2>1, <2>2, <2>3 DEF ScanTypeOK, WorkerInv, WithCandidate
  <2> QED
    BY <1>6, <2>1, <2>3, <2>4
<1>10. CASE OperatorAdvises
  <2>1. op = "advise" /\ op' = op /\ wk' = wk /\ AdvisoryStep("operator")
    BY <1>10 DEF OperatorAdvises, scanVars
  <2>2. AdvisoryInv' /\ (SomeAuthor => SomeAuthor') /\ adv'["worker"] = adv["worker"]
    BY <1>1, <1>2, <2>1, InvAdvisoryStep, OnlyItsOwn
  <2>3. ScanTypeOK' /\ WorkerInv'
    BY <1>1, <1>3, <1>4, <2>1, <2>2 DEF ScanTypeOK, WorkerInv, WithCandidate
  <2> QED
    BY <1>6, <2>1, <2>2, <2>3
<1>11. CASE OperatorReports
  <2>1. /\ op = "advise" /\ op' = "done" /\ wk' = wk /\ adv["operator"].pc = "none"
        /\ NoRows /\ Become("operator", NoAdvisory)
    BY <1>11 DEF OperatorReports, CrashAdvisory, scanVars
  <2>2. AdvisoryInv' /\ (SomeAuthor => SomeAuthor') /\ adv'["worker"] = adv["worker"]
    BY <1>1, <1>2, <2>1, InvResetAdvisory, OnlyItsOwn
  <2>3. adv'["operator"].pc = "none"
    BY <1>1, <1>2, <2>1, NoAdvisoryTyped DEF Become, AdvisoryInv, AdvisoryTypeOK
  <2>4. ScanTypeOK' /\ WorkerInv'
    BY <1>1, <1>3, <1>4, <2>1, <2>2, <2>3 DEF ScanTypeOK, WorkerInv, WithCandidate
  <2> QED
    BY <1>6, <2>1, <2>2, <2>4
<1> QED
  BY <1>7, <1>8, <1>9, <1>10, <1>11

LEMMA InvCrash ==
    ASSUME ScreeningInv, WorkerCrash \/ OperatorCrash
    PROVE  ScreeningInv'
<1>1. ScanTypeOK /\ WorkerInv /\ ReviewInv /\ AdvisoryInv
  BY DEF ScreeningInv
<1>2. /\ crashes' = crashes + 1 /\ crashes' \in Nat /\ crashes' # 0
      /\ run' = run /\ eligible' = eligible /\ intents' = intents /\ cycle' = cycle
      /\ started' = started
  BY <1>1 DEF WorkerCrash, OperatorCrash, ScanTypeOK
<1>3. "worker" \in Actors /\ "operator" \in Actors /\ "worker" # "operator"
  BY ScreeningConstants
<1>4. rev.cand \in Candidates
  BY <1>1 DEF ReviewInv, ReviewTypeOK
<1>5. CASE WorkerCrash
  <2>1. /\ wk # "idle" /\ wk' = "idle" /\ queue' = <<>> /\ CrashReview /\ op' = op /\ NoRows
        /\ Become("worker", NoAdvisory)
    BY <1>5 DEF WorkerCrash, NoRows, Become
  <2>2. ReviewInv' /\ agentRun' = agentRun /\ rev'.pc = "none"
    BY <1>1, <2>1, InvCrashReview DEF CrashReview, NoReview
  <2>3. AdvisoryInv' /\ adv'["operator"] = adv["operator"]
    BY <1>1, <1>3, <2>1, InvResetAdvisory, OnlyItsOwn
  <2>4. adv'["worker"].pc = "none"
    BY <1>1, <1>3, <2>1, NoAdvisoryTyped DEF Become, AdvisoryInv, AdvisoryTypeOK
  <2>5. ScanTypeOK'
    BY <1>1, <1>2, <2>1, EmptySeq DEF ScanTypeOK, WorkerPlaces
  <2>6. WorkerInv'
    BY <1>1, <2>1, <2>2, <2>3, <2>4 DEF WorkerInv, WithCandidate
  <2>7. OpenReviewsWereInterrupted'
    BY <1>2, <1>4, <2>2, OneLeft DEF Left
  <2> QED
    BY <1>2, <2>2, <2>3, <2>5, <2>6, <2>7 DEF ScreeningInv
<1>6. CASE OperatorCrash
  <2>1. /\ op = "advise" /\ op' = "done" /\ UNCHANGED reviewVars /\ wk' = wk /\ queue' = queue
        /\ NoRows /\ Become("operator", NoAdvisory)
    BY <1>6 DEF OperatorCrash, CrashAdvisory
  <2>2. ReviewInv' /\ agentRun' = agentRun /\ rev' = rev
    BY <1>1, <2>1, InvReviewStutter DEF reviewVars
  <2>3. AdvisoryInv' /\ adv'["worker"] = adv["worker"]
    BY <1>1, <1>3, <2>1, InvResetAdvisory, OnlyItsOwn
  <2>4. adv'["operator"].pc = "none"
    BY <1>1, <1>3, <2>1, NoAdvisoryTyped DEF Become, AdvisoryInv, AdvisoryTypeOK
  <2>5. ScanTypeOK'
    BY <1>1, <1>2, <2>1 DEF ScanTypeOK
  <2>6. WorkerInv'
    BY <1>1, <1>2, <2>1, <2>2, <2>3, <2>4 DEF WorkerInv, WithCandidate
  <2>7. OpenReviewsWereInterrupted'
    BY <1>2, <1>4, <2>1, <2>2, OneLeft DEF Left
  <2> QED
    BY <1>2, <2>2, <2>3, <2>5, <2>6, <2>7 DEF ScreeningInv
<1> QED
  BY <1>5, <1>6

LEMMA InvStutter ==
    ASSUME ScreeningInv, UNCHANGED vars
    PROVE  ScreeningInv'
<1>1. UNCHANGED <<reviewVars, advisoryVars, crashes>> /\ wk' = wk
  BY DEF vars, scanVars
<1>2. ScanTypeOK'
  BY DEF ScreeningInv, ScanTypeOK, vars, scanVars
<1>3. WorkerInv'
  BY DEF ScreeningInv, WorkerInv, vars, scanVars, reviewVars, advisoryVars, StatusOf
<1> QED
  BY <1>1, <1>2, <1>3, Quiet

LEMMA InvNext ==
    ASSUME ScreeningInv, [Next]_vars
    PROVE  ScreeningInv'
<1>1. CASE Worker
  <2>1. ASSUME NEW n \in 0 .. Cardinality(Candidates), NEW ranked \in [1 .. n -> Candidates],
               Collect(ranked)
        PROVE  ScreeningInv'
    BY <2>1, InvCollect
  <2> QED
    BY <1>1, <2>1, InvQuietMoves, InvBeginCycle, InvBeginReview, InvReview, InvReviewed, InvAdvises
       DEF Worker
<1>2. CASE Operator
  BY <1>2, InvQuietMoves, InvAdvises DEF Operator
<1>3. CASE WorkerCrash \/ OperatorCrash
  BY <1>3, InvCrash
<1>4. CASE UNCHANGED vars
  BY <1>4, InvStutter
<1> QED
  BY <1>1, <1>2, <1>3, <1>4 DEF Next, WorkerMoves, OperatorMoves

LEMMA Invariance == Spec => []ScreeningInv
  BY InvInit, InvNext, PTL DEF Spec

-----------------------------------------------------------------------------
(* The theorems.                                                             *)

\* Every variable of the composition keeps its type, whatever dies and however the
\* two processes interleave.
THEOREM ScreeningTypes == Spec => []ScreeningTypeOK
<1>1. ScreeningInv => ScreeningTypeOK
  BY DEF ScreeningInv, ReviewInv, AdvisoryInv, ScanTypeOK, ScreeningTypeOK
<1> QED
  BY <1>1, Invariance, PTL

\* A COMPLETED or VETOED review rests on every mandatory read, made by the model that
\* decided (agent.py 225-234, 270-300).
THEOREM GroundedVerdicts == Spec => []EvidenceBeforeVerdict
<1>1. ScreeningInv => EvidenceBeforeVerdict
  BY DEF ScreeningInv, ReviewInv
<1> QED
  BY <1>1, Invariance, PTL

\* The audit trace of a review under way is a prefix of the calls made, and the run
\* is open until the last of them is on record (runtime.py 1080-1113).
THEOREM TraceFollows == Spec => []AuditFollowsCalls
<1>1. ASSUME ScreeningInv PROVE AuditFollowsCalls
  <2>1. ReviewInv
    BY <1>1 DEF ScreeningInv
  <2>2. rev \in Reviews /\ rev.cand \in Candidates
    BY <2>1 DEF ReviewInv, ReviewTypeOK, Reviews
  <2>3. FullTrace \in Seq(ToolRows) /\ agentTrace[rev.cand] \in Seq(ToolRows)
    BY <2>1, <2>2, FullTraceTyped DEF ReviewInv, ReviewTypeOK
  <2>4. ASSUME rev.pc # "none"
        PROVE  agentTrace[rev.cand] = SubSeq(FullTrace, 1, Len(agentTrace[rev.cand]))
    BY <2>1, <2>3, <2>4, PrefixIsSubSeq DEF ReviewInv, OnRecord
  <2> QED
    BY <2>1, <2>4 DEF AuditFollowsCalls, ReviewInv, OnRecord
<1> QED
  BY <1>1, Invariance, PTL

\* Nothing changes a closed agent run or adds to its trace (storage.py 1866-1892).
ReviewsStay ==
  \A c \in Candidates : agentRun[c] \in AGENT_TERMINAL_STATUSES =>
     agentRun'[c] = agentRun[c] /\ agentTrace'[c] = agentTrace[c]

LEMMA StepKeepsReviews ==
    ASSUME ScreeningInv, [Next]_vars
    PROVE  ReviewsStay
<1>1. /\ agentRun \in [Candidates -> AgentStatuses] /\ agentTrace \in [Candidates -> Seq(ToolRows)]
      /\ rev.pc # "none" => agentRun[rev.cand] = "STARTED"
  BY DEF ScreeningInv, ReviewInv, ReviewTypeOK, OnRecord
<1>2. ASSUME agentRun' = agentRun /\ agentTrace' = agentTrace PROVE ReviewsStay
  BY <1>2 DEF ReviewsStay
<1>3. CASE Review
  <2>1. CASE PersistRow \/ FinishReview
    BY <1>1, <2>1 DEF PersistRow, FinishReview, ReviewsStay, AGENT_TERMINAL_STATUSES
  <2>2. CASE ~(PersistRow \/ FinishReview)
    <3>1. InMemory
      BY <1>3, <2>2 DEF Review, ReviewStep, ProviderFails, GiveUp, NoToolCall, ToolCalls,
                        EntryCall, Read, CallFails, Garbled, Rejection
    <3> QED
      BY <1>2, <3>1 DEF InMemory
  <2> QED
    BY <2>1, <2>2
<1>4. CASE BeginCycle
  BY <1>1, <1>2, <1>4 DEF BeginCycle, CloseInterrupted, ReviewsStay, reviewVars,
                          AGENT_TERMINAL_STATUSES
<1>5. CASE BeginReview
  BY <1>1, <1>5 DEF BeginReview, StartReview, ReviewsStay, AGENT_TERMINAL_STATUSES
<1>6. CASE Reviewed \/ WorkerCrash
  BY <1>2, <1>6 DEF Reviewed, WorkerCrash, CrashReview
<1>7. CASE \/ WindowExpires \/ Observe \/ EnterScan \/ NextCandidate \/ PersistIntent
           \/ PolicyCheck \/ Back \/ WorkerAdvises \/ WorkerAdvised
           \/ \E n \in 0 .. Cardinality(Candidates) :
                \E ranked \in [1 .. n -> Candidates] : Collect(ranked)
  BY <1>2, <1>7 DEF WindowExpires, Observe, EnterScan, NextCandidate, PersistIntent,
       PolicyCheck, Back, WorkerAdvises, WorkerAdvised, Collect, reviewVars
<1>8. CASE Operator \/ OperatorCrash
  BY <1>2, <1>8 DEF Operator, OperatorCrash, OperatorStarts, OperatorReadsRecords,
       OperatorLooks, OperatorAdvises, OperatorReports, reviewVars
<1>9. CASE UNCHANGED vars
  BY <1>2, <1>9 DEF vars, reviewVars
<1> QED
  BY <1>3, <1>4, <1>5, <1>6, <1>7, <1>8, <1>9 DEF Next, WorkerMoves, OperatorMoves, Worker

\* A closed review is never reopened, by recovery either (storage.py 1866-1892).
THEOREM ReviewsAreFinal == Spec => ClosedReviewIsFinal
<1>1. ScreeningInv /\ [Next]_vars => [ReviewsStay]_reviewVars
  BY StepKeepsReviews
<1> QED
  BY <1>1, Invariance, PTL DEF Spec, ClosedReviewIsFinal, ReviewsStay

\* A COMPLETED advisory has every read in its trace, once and answered, also when two
\* processes wrote the rows (advisory.py 405-443, storage.py 2139-2147).
THEOREM CompletedAdvisories == Spec => []CompletedReadEverything
<1>1. ScreeningInv => CompletedReadEverything
  BY DEF ScreeningInv, AdvisoryInv
<1> QED
  BY <1>1, Invariance, PTL

\* Without a death somebody is always at work on an open advisory, after a conflict of
\* two processes over its rows too (advisory.py 514-555, storage.py 2066-2090).
THEOREM AdvisoriesAreWorkedOn == Spec => []OpenAdvisoryIsUnderWay
<1>1. ASSUME ScreeningInv PROVE OpenAdvisoryIsUnderWay
  <2>1. crashes \in Nat /\ (crashes = 0 => SomeAuthor)
    BY <1>1 DEF ScreeningInv, ScanTypeOK
  <2> QED
    BY <2>1 DEF OpenAdvisoryIsUnderWay, SomeAuthor, Author, Working
<1> QED
  BY <1>1, Invariance, PTL

\* As many reviews are left open as processes died, at most (runtime.py 1080-1204).
THEOREM ReviewsAreClosed == Spec => []OpenReviewsWereInterrupted
<1>1. ScreeningInv => OpenReviewsWereInterrupted
  BY DEF ScreeningInv
<1> QED
  BY <1>1, Invariance, PTL

\* The trace of the advisory grows by a row, and a closed advisory stays.
AdvisoryGrows ==
  /\ advisoryRun \in ADVISORY_TERMINAL_STATUSES => advisoryRun' = advisoryRun
  /\ Len(advisoryTrace') >= Len(advisoryTrace)
  /\ SubSeq(advisoryTrace', 1, Len(advisoryTrace)) = advisoryTrace

LEMMA StepKeepsAdvisory ==
    ASSUME ScreeningInv, [Next]_vars
    PROVE  AdvisoryGrows
<1>1. AdvisoryInv /\ "worker" \in Actors /\ "operator" \in Actors
  BY ScreeningConstants DEF ScreeningInv
<1>2. Appends /\ Closes
  <2>1. ASSUME NoRows PROVE Appends /\ Closes
    BY <2>1 DEF NoRows, Appends, Closes
  <2>2. CASE WorkerAdvises \/ OperatorAdvises
    BY <1>1, <2>2, InvAdvisoryStep DEF WorkerAdvises, OperatorAdvises
  <2>3. CASE WorkerAdvised \/ OperatorReports \/ OperatorCrash
    BY <2>1, <2>3 DEF WorkerAdvised, OperatorReports, OperatorCrash, CrashAdvisory
  <2>4. CASE WorkerCrash \/ OperatorLooks
    BY <2>1, <2>4 DEF WorkerCrash, OperatorLooks, NoRows
  <2>5. CASE \/ BeginCycle \/ WindowExpires \/ Observe \/ EnterScan \/ NextCandidate
             \/ PersistIntent \/ BeginReview \/ Review \/ Reviewed \/ PolicyCheck \/ Back
             \/ OperatorStarts \/ OperatorReadsRecords \/ UNCHANGED vars
             \/ \E n \in 0 .. Cardinality(Candidates) :
                  \E ranked \in [1 .. n -> Candidates] : Collect(ranked)
    BY <2>1, <2>5 DEF BeginCycle, WindowExpires, Observe, EnterScan, NextCandidate, PersistIntent,
         BeginReview, Review, Reviewed, PolicyCheck, Back, OperatorStarts, OperatorReadsRecords,
         Collect, vars, advisoryVars, NoRows
  <2> QED
    BY <2>2, <2>3, <2>4, <2>5 DEF Next, WorkerMoves, OperatorMoves, Worker, Operator
<1>3. advisoryTrace \in Seq(AdvisoryRows) /\ Len(advisoryTrace) \in Nat
  BY <1>1, LenProperties DEF AdvisoryInv, AdvisoryTypeOK
<1>4. CASE advisoryTrace' = advisoryTrace
  <2>1. Prefix(advisoryTrace, advisoryTrace)
    BY <1>3 DEF Prefix
  <2>2. advisoryTrace = SubSeq(advisoryTrace, 1, Len(advisoryTrace))
    BY <1>3, <2>1, PrefixIsSubSeq
  <2> QED
    BY <1>2, <1>3, <1>4, <2>2 DEF AdvisoryGrows, Closes
<1>5. ASSUME NEW row \in AdvisoryRows, advisoryTrace' = Append(advisoryTrace, row)
      PROVE  AdvisoryGrows
  <2>1. /\ advisoryTrace' \in Seq(AdvisoryRows) /\ Len(advisoryTrace') = Len(advisoryTrace) + 1
        /\ \A i \in 1 .. Len(advisoryTrace) : advisoryTrace'[i] = advisoryTrace[i]
    BY <1>3, <1>5, AppendProperties
  <2>2. Prefix(advisoryTrace, advisoryTrace')
    BY <1>3, <2>1 DEF Prefix
  <2>3. advisoryTrace = SubSeq(advisoryTrace', 1, Len(advisoryTrace))
    BY <1>3, <2>1, <2>2, PrefixIsSubSeq
  <2> QED
    BY <1>2, <1>3, <2>1, <2>3 DEF AdvisoryGrows, Closes
<1> QED
  BY <1>2, <1>4, <1>5 DEF Appends

\* A closed advisory stays closed with its first result, and its trace only grows
\* (storage.py 2066-2090 and the append-only triggers 715-724).
THEOREM AdvisoriesAreFinal == Spec => AdvisoryIsFinal
<1>1. ScreeningInv /\ [Next]_vars => [AdvisoryGrows]_advisoryVars
  BY StepKeepsAdvisory
<1> QED
  BY <1>1, Invariance, PTL DEF Spec, AdvisoryIsFinal, AdvisoryGrows

\* Only a candidate of this cycle whose review ended with ALLOW is submitted
\* (runtime.py 404-488, 1115-1205).
Submits ==
  run # "SUBMITTING" /\ run' = "SUBMITTING" =>
    /\ queue # <<>> /\ started[Head(queue)] = cycle /\ agentRun[Head(queue)] = "COMPLETED"

THEOREM OnlyAllowedIsSubmitted == Spec => SubmitsWhatWasAllowed
<1>1. ASSUME ScreeningInv, [Next]_vars PROVE Submits
  <2>1. CASE PolicyCheck
    <3>1. wk = "policy" /\ WorkerInv
      BY <1>1, <2>1 DEF PolicyCheck, ScreeningInv
    <3> QED
      BY <3>1 DEF WorkerInv, WithCandidate, Submits
  <2>2. CASE ~PolicyCheck
    <3>1. run' # "SUBMITTING" \/ run' = run
      BY <1>1, <2>2 DEF Next, WorkerMoves, OperatorMoves, Worker, Operator, WorkerCrash,
           OperatorCrash, BeginCycle, WindowExpires, Observe, EnterScan, Collect, NextCandidate,
           PersistIntent, BeginReview, Review, Reviewed, Back, WorkerAdvises, WorkerAdvised,
           OperatorStarts, OperatorReadsRecords, OperatorLooks, OperatorAdvises, OperatorReports,
           vars, scanVars
    <3> QED
      BY <3>1 DEF Submits
  <2> QED
    BY <2>1, <2>2
<1>2. ScreeningInv /\ [Next]_vars => [Submits]_vars
  BY <1>1
<1> QED
  BY <1>2, Invariance, PTL DEF Spec, SubmitsWhatWasAllowed, Submits
=============================================================================
