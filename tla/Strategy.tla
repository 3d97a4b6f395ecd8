----------------------------- MODULE Strategy -----------------------------
(***************************************************************************)
(* The earnings iron condor (strategy.py): the ticks of option prices, the *)
(* gates on quotes and contracts, and the search for the first structure   *)
(* that passes all of them.  Pure operators on a market snapshot.          *)
(*                                                                         *)
(* Prices are per share, in half-cents, so that the midpoint of a quote in *)
(* whole cents is an integer; ratios are compared by cross-multiplication. *)
(* A snapshot is the record of a listed contract and its quote,            *)
(*   [right, strike, exp, eligible, oi, oiDate, penny,                     *)
(*    bid, ask, age, iv, delta],                                           *)
(* eligible standing for active, tradable and standard, age for the seconds *)
(* between the quote and the observation, and oi = 0, iv = 0 and a delta    *)
(* beyond +-100 hundredths for a value the broker omits.  A chain holds at  *)
(* most one snapshot per right, strike and expiration.  A market is         *)
(*   [under, front, back, prevDay, equity, buyingPower], the equity in      *)
(* hundreds of dollars: 0.5 % of it is a price per share in half-cents.     *)
(***************************************************************************)
EXTENDS EventConfig, Sequences, FiniteSets

CENT   == 2
DOLLAR == 100 * CENT

Lesser(a, b)  == IF a <= b THEN a ELSE b
Greater(a, b) == IF a >= b THEN a ELSE b
Distance(a, b) == Greater(a, b) - Lesser(a, b)

\* The elements of S whose key comes first: one at most where no two have the same key.
LexLess(a, b) == \E i \in DOMAIN a : a[i] < b[i] /\ \A j \in 1 .. i - 1 : a[j] = b[j]
First(S, key) == {s \in S : \A t \in S : ~LexLess(key[t], key[s])}

----------------------------------------------------------------------------
(* Quotes.                                                                 *)

Mid(q)    == (q.bid + q.ask) \div 2
Spread(q) == q.ask - q.bid
Quoted(q) == 0 < q.bid /\ q.bid < q.ask
Fresh(q, limit) == -2 <= q.age /\ q.age <= limit

\* A spread within the absolute limit and within num/den of the midpoint.
Tight(q, limit, num, den) == Spread(q) <= limit /\ den * Spread(q) <= num * Mid(q)

UnderlyingOk(u) == Quoted(u) /\ Fresh(u, 10) /\ 1000 * Spread(u) <= 2 * Mid(u)

----------------------------------------------------------------------------
(* Ticks of net option prices.                                             *)

\* ppind is TRUE for the penny programme; unknown counts as FALSE.
option_tick_size(price, ppind) ==
  IF ppind THEN (IF price < 3 * DOLLAR THEN CENT ELSE 5 * CENT)
           ELSE (IF price < 3 * DOLLAR THEN 5 * CENT ELSE 10 * CENT)

round_credit_down(price, ppind) ==
  LET tick == option_tick_size(price, ppind) IN (price \div tick) * tick

\* Mutant: the debit is rounded to a cent.
round_debit_up_ToCent(price, ppind) == ((price + CENT - 1) \div CENT) * CENT

round_debit_up(price, ppind) ==
  LET tick == option_tick_size(price, ppind) IN ((price + tick - 1) \div tick) * tick

----------------------------------------------------------------------------
(* The expected move.                                                      *)

Of(chain, right, strike) == CHOOSE s \in chain : s.right = right /\ s.strike = strike
Expiring(chain, exp) == {s \in chain : s.exp = exp}
Strikes(chain, right) == {s.strike : s \in {t \in chain : t.right = right}}

\* Strikes of the expiration that list both rights.
AtmStrikes(chain) == Strikes(chain, "call") \cap Strikes(chain, "put")

\* The call and put nearest to spot, the lower strike winning a tie.
select_atm_pair(chain, spot) ==
  LET key    == [k \in AtmStrikes(chain) |-> <<Distance(k, spot), k>>]
      strike == CHOOSE k \in First(AtmStrikes(chain), key) : TRUE
  IN  [call |-> Of(chain, "call", strike), put |-> Of(chain, "put", strike)]

AtmLegOk(s) == s.eligible /\ Quoted(s) /\ Fresh(s, 60) /\ 4 * Spread(s) <= Mid(s) /\ s.iv > 0
AtmPairOk(pair) == AtmLegOk(pair.call) /\ AtmLegOk(pair.put)
AtmIv(pair) == pair.call.iv + pair.put.iv
ExpectedMove(pair) == Mid(pair.call) + Mid(pair.put)

\* Everything up to the structures: the gates on the underlying, on both expirations'
\* at-the-money pairs, their volatility ratio and the expected move.
EarningsOk(m) ==
  LET front == Expiring(m.front, TRADE_EXPIRATION)
      back  == Expiring(m.back, TERM_EXPIRATION)
      spot  == Mid(m.under)
      atm   == select_atm_pair(front, spot)
      far   == select_atm_pair(back, spot)
  IN
  /\ UnderlyingOk(m.under)
  /\ AtmStrikes(front) # {} /\ AtmStrikes(back) # {}
  /\ AtmPairOk(atm) /\ AtmPairOk(far)
  /\ 10 * AtmIv(atm) >= 11 * AtmIv(far)
  /\ 5 * spot <= 100 * ExpectedMove(atm) /\ 100 * ExpectedMove(atm) <= 18 * spot

----------------------------------------------------------------------------
(* Structures.                                                             *)

EarningsLegOk(s, short, prevDay) ==
  /\ s.eligible
  /\ s.oi >= (IF short THEN 50 ELSE 10) /\ s.oiDate >= prevDay
  /\ Quoted(s) /\ Fresh(s, 60)
  /\ IF short THEN Tight(s, DOLLAR, 1, 4) ELSE Tight(s, DOLLAR, 1, 2)

\* Equal wings, none wider than the limit, around short strikes beyond the expected move.
Structures(m) ==
  LET chain == Expiring(m.front, TRADE_EXPIRATION)
      spot  == Mid(m.under)
      move  == ExpectedMove(select_atm_pair(chain, spot))
      puts  == {s \in chain : s.right = "put"}
      calls == {s \in chain : s.right = "call"}
  IN
  {st \in [sp : {s \in puts : s.strike <= spot - move}, sc : {s \in calls : s.strike >= spot + move},
           lp : puts, lc : calls] :
     LET width == st.sp.strike - st.lp.strike IN
     0 < width /\ width <= 5 * DOLLAR /\ st.lc.strike - st.sc.strike = width}

\* Nearest short strikes first, most balanced pairs before others, narrow wings first.
SearchKey(st, below, above) ==
  LET put  == below - st.sp.strike
      call == st.sc.strike - above
  IN  <<Greater(put, call), Distance(put, call), put + call,
        0 - st.sp.strike, st.sc.strike, st.sp.strike - st.lp.strike>>

NaturalCredit(st) == st.sp.bid + st.sc.bid - st.lp.ask - st.lc.ask
MidpointCredit(st) == Mid(st.sp) + Mid(st.sc) - Mid(st.lp) - Mid(st.lc)
PennyCombination(st) == \A leg \in {st.lp, st.sp, st.sc, st.lc} : leg.penny

NetDelta(st) == st.lp.delta + st.lc.delta - st.sp.delta - st.sc.delta
DeltaKnown(st) == \A leg \in {st.lp, st.sp, st.sc, st.lc} : -100 <= leg.delta /\ leg.delta <= 100

\* The candidate of a structure with a midpoint credit that is not negative.
Candidate(st, budget) ==
  LET width  == st.sp.strike - st.lp.strike
      credit == round_credit_down(MidpointCredit(st), PennyCombination(st))
  IN [legs |-> st, width |-> width, natural_credit |-> NaturalCredit(st),
      midpoint_credit |-> MidpointCredit(st), proposed_credit |-> credit,
      tick_size |-> option_tick_size(MidpointCredit(st), PennyCombination(st)),
      maximum_loss |-> width - credit, risk_budget |-> budget]

\* Mutant: the budget grows with the account.
RiskBudget_Uncapped(equity) == Greater(0, equity)

RiskBudget(equity) == Lesser(5 * DOLLAR, Greater(0, equity))

EarningsStructureOk(st, m) ==
  LET c == Candidate(st, RiskBudget(m.equity))
      minimum == Greater(20 * CENT, c.width \div 10)
  IN
  /\ EarningsLegOk(st.sp, TRUE, m.prevDay) /\ EarningsLegOk(st.sc, TRUE, m.prevDay)
  /\ EarningsLegOk(st.lp, FALSE, m.prevDay) /\ EarningsLegOk(st.lc, FALSE, m.prevDay)
  /\ MidpointCredit(st) >= 0
  /\ c.natural_credit >= minimum /\ c.proposed_credit >= minimum
  /\ c.proposed_credit < c.width
  /\ c.midpoint_credit - c.natural_credit <= DOLLAR
  /\ DeltaKnown(st) => Distance(NetDelta(st), 0) <= 15
  /\ 0 < c.maximum_loss /\ c.maximum_loss <= c.risk_budget
  /\ m.buyingPower >= c.maximum_loss

\* evaluate_symbol: at most one candidate.
evaluate_symbol(m) ==
  IF ~EarningsOk(m) THEN {}
  ELSE LET spot  == Mid(m.under)
           move  == ExpectedMove(select_atm_pair(Expiring(m.front, TRADE_EXPIRATION), spot))
           valid == {st \in Structures(m) : EarningsStructureOk(st, m)}
       IN  {Candidate(st, RiskBudget(m.equity)) :
              st \in First(valid, [s \in valid |-> SearchKey(s, spot - move, spot + move)])}
=============================================================================
