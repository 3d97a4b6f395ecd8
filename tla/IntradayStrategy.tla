------------------------- MODULE IntradayStrategy -------------------------
(***************************************************************************)
(* The Sep 3 intraday canary (intraday.py): the best iron condor with      *)
(* wings of exactly one dollar around spot, and the structure-bound check  *)
(* of a chosen condor against a fresh snapshot.  Markets and snapshots are *)
(* those of Strategy, whose rounding the program imports.                  *)
(***************************************************************************)
EXTENDS Strategy

CONSTANT ACCEPTED_OPEN_INTEREST_DATES   \* the sessions T-1 to T-3

WING_WIDTH == DOLLAR
MINIMUM_PROPOSED_CREDIT == 20 * CENT
MAXIMUM_LOSS == 80 * CENT               \* eighty dollars for one contract

CanaryUnderlyingOk(u) == Quoted(u) /\ Fresh(u, 10) /\ 500 * Spread(u) <= Mid(u)

CanaryLegOk(s, short) ==
  /\ s.eligible /\ s.exp = TRADE_EXPIRATION
  /\ s.oi >= (IF short THEN 500 ELSE 100) /\ s.oiDate \in ACCEPTED_OPEN_INTEREST_DATES
  /\ Quoted(s) /\ Fresh(s, 60)
  /\ IF short THEN Tight(s, DOLLAR, 1, 4) ELSE Tight(s, DOLLAR, 1, 2)

\* Short strikes on both sides of spot, wings one dollar away.
CanaryStructures(m) ==
  LET chain == Expiring(m.front, TRADE_EXPIRATION)
      spot  == Mid(m.under)
      puts  == {s \in chain : s.right = "put"}
      calls == {s \in chain : s.right = "call"}
  IN
  {st \in [sp : {s \in puts : s.strike < spot}, sc : {s \in calls : s.strike > spot},
           lp : puts, lc : calls] :
     st.lp.strike = st.sp.strike - WING_WIDTH /\ st.lc.strike = st.sc.strike + WING_WIDTH}

\* The credit of a structure without a positive midpoint rounds to nothing.
CanaryCandidate(st) ==
  LET mid    == Greater(MidpointCredit(st), 0)
      credit == round_credit_down(mid, PennyCombination(st))
  IN [legs |-> st, width |-> WING_WIDTH, natural_credit |-> NaturalCredit(st),
      midpoint_credit |-> MidpointCredit(st), proposed_credit |-> credit,
      tick_size |-> option_tick_size(mid, PennyCombination(st)),
      maximum_loss |-> WING_WIDTH - credit, risk_budget |-> MAXIMUM_LOSS]

CanaryStructureOk(st, m) ==
  LET c == CanaryCandidate(st) IN
  /\ CanaryLegOk(st.lp, FALSE) /\ CanaryLegOk(st.sp, TRUE)
  /\ CanaryLegOk(st.sc, TRUE) /\ CanaryLegOk(st.lc, FALSE)
  /\ c.natural_credit > 0 /\ c.midpoint_credit > 0
  /\ MINIMUM_PROPOSED_CREDIT <= c.proposed_credit /\ c.proposed_credit < c.width
  /\ c.midpoint_credit - c.natural_credit <= DOLLAR
  /\ 0 < c.maximum_loss /\ c.maximum_loss <= MAXIMUM_LOSS
  /\ m.buyingPower >= c.maximum_loss

SpreadSum(st) == Spread(st.lp) + Spread(st.sp) + Spread(st.sc) + Spread(st.lc)
MidSum(st)    == Mid(st.lp) + Mid(st.sp) + Mid(st.sc) + Mid(st.lc)

\* Is the relative spread of a below that of b?
Tighter(a, b) == SpreadSum(a) * MidSum(b) < SpreadSum(b) * MidSum(a)

\* Among equally tight ones, the highest natural credit, then the nearest to spot.
NearKey(st, spot) ==
  LET put  == spot - st.sp.strike
      call == st.sc.strike - spot
  IN  <<0 - NaturalCredit(st), Greater(put, call), put + call, 0 - st.sp.strike, st.sc.strike>>

\* rank_intraday_candidates
RanksBefore(a, b, spot) ==
  \/ Tighter(a, b)
  \/ ~Tighter(b, a) /\ LexLess(NearKey(a, spot), NearKey(b, spot))

evaluate_intraday_symbol(m) ==
  LET valid == {st \in CanaryStructures(m) : CanaryStructureOk(st, m)}
      best  == {st \in valid : \A other \in valid : ~RanksBefore(other, st, Mid(m.under))}
  IN  IF CanaryUnderlyingOk(m.under) THEN {CanaryCandidate(st) : st \in best} ELSE {}

\* evaluate_intraday_candidate_structure: the same four contracts, each listed once in
\* the fresh chain, around the fresh spot, and every gate again.
evaluate_intraday_candidate_structure(original, m) ==
  LET spot == Mid(m.under)
      Same(leg) == {s \in m.front : s.right = leg.right /\ s.strike = leg.strike /\ s.exp = leg.exp}
      legs == original.legs
      listed == \A r \in DOMAIN legs : Cardinality(Same(legs[r])) = 1
      fresh == [r \in DOMAIN legs |-> CHOOSE s \in Same(legs[r]) : TRUE]
  IN
  IF /\ CanaryUnderlyingOk(m.under)
     /\ listed
     /\ legs.sp.strike < spot /\ spot < legs.sc.strike
     /\ fresh.sp.strike - fresh.lp.strike = WING_WIDTH
     /\ fresh.lc.strike - fresh.sc.strike = WING_WIDTH
     /\ CanaryStructureOk(fresh, m)
    THEN {CanaryCandidate(fresh)} ELSE {}
=============================================================================
