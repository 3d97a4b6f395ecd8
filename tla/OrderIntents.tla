--------------------------- MODULE OrderIntents ---------------------------
(***************************************************************************)
(* From a candidate to a call of the broker: the immutable four-leg        *)
(* payloads (orders.py), their validation and the permits for one exact    *)
(* call (policy.py), and the gateway every call goes through               *)
(* (mcp/client.py, mcp/contract.py).                                       *)
(*                                                                         *)
(* A payload keeps what the checks tell apart: the signed price and the    *)
(* legs [right, strike, exp, side, intent] in the order of the candidate.  *)
(* The frozen fields, identifiers and hashes have one value each here; a   *)
(* permit holds the payload itself where the program holds its hash.       *)
(***************************************************************************)
EXTENDS IntradayStrategy

PERMIT_TTL == 60    \* seconds

----------------------------------------------------------------------------
(* Building.                                                               *)

Symbol(s) == [right |-> s.right, strike |-> s.strike, exp |-> s.exp]
Leg(s, side, intent) ==
  [right |-> s.right, strike |-> s.strike, exp |-> s.exp, side |-> side, intent |-> intent]

\* _validate_candidate
CandidateIsSound(c) ==
  LET st == c.legs
      legs == {st.lp, st.sp, st.sc, st.lc}
      put_width  == st.sp.strike - st.lp.strike
      call_width == st.lc.strike - st.sc.strike
  IN
  /\ st.lp.right = "put" /\ st.sp.right = "put" /\ st.sc.right = "call" /\ st.lc.right = "call"
  /\ \A s \in legs : s.eligible
  /\ Cardinality({s.exp : s \in legs}) = 1 /\ Cardinality({Symbol(s) : s \in legs}) = 4
  /\ st.lp.strike < st.sp.strike /\ st.sp.strike < st.sc.strike /\ st.sc.strike < st.lc.strike
  /\ put_width = call_width /\ c.width = put_width /\ c.width <= 5 * DOLLAR
  /\ c.proposed_credit > 0 /\ c.proposed_credit % c.tick_size = 0
  /\ c.maximum_loss = c.width - c.proposed_credit
  /\ 0 < c.maximum_loss /\ c.maximum_loss <= 5 * DOLLAR /\ c.maximum_loss <= c.risk_budget

EntryArguments(c) ==
  [price |-> 0 - c.proposed_credit,
   legs  |-> <<Leg(c.legs.lp, "buy", "buy_to_open"), Leg(c.legs.sp, "sell", "sell_to_open"),
               Leg(c.legs.sc, "sell", "sell_to_open"), Leg(c.legs.lc, "buy", "buy_to_open")>>]

\* _wing_width and build_exit_from_entry_arguments: the opposite of the durable entry,
\* at no more than the width of its wings.
WingWidth(entry) == entry.legs[2].strike - entry.legs[1].strike
Closing(leg) ==
  IF leg.side = "buy" THEN [leg EXCEPT !.side = "sell", !.intent = "sell_to_close"]
                      ELSE [leg EXCEPT !.side = "buy", !.intent = "buy_to_close"]
ExitArguments(entry, debit) ==
  [price |-> Lesser(debit, WingWidth(entry)), legs |-> [i \in 1 .. 4 |-> Closing(entry.legs[i])]]

ExitIsBuildable(entry, debit) ==
  /\ debit > 0
  /\ WingWidth(entry) > 0
  /\ entry.legs[4].strike - entry.legs[3].strike = WingWidth(entry)

----------------------------------------------------------------------------
(* validate_mleg_arguments.                                                *)

Strands(args, right) == {l \in {args.legs[i] : i \in 1 .. 4} : l.right = right}
Low(legs)  == CHOOSE l \in legs : \A k \in legs : l.strike <= k.strike
High(legs) == CHOOSE l \in legs : \A k \in legs : l.strike >= k.strike

Is(leg, side, intent) == leg.side = side /\ leg.intent = intent

ValidPrice(price, width, action) ==
  IF action = "entry"
    THEN /\ price < 0
         /\ Greater(20 * CENT, width \div 10) <= 0 - price /\ 0 - price < width
         /\ width + price <= 5 * DOLLAR
    ELSE 0 < price /\ price <= width

ValidMleg(args, action) ==
  LET puts  == Strands(args, "put")
      calls == Strands(args, "call")
      width == High(puts).strike - Low(puts).strike
  IN
  /\ Cardinality({Symbol(args.legs[i]) : i \in 1 .. 4}) = 4
  /\ Cardinality({args.legs[i].exp : i \in 1 .. 4}) = 1
  /\ Cardinality(puts) = 2 /\ Cardinality(calls) = 2
  /\ High(puts).strike < Low(calls).strike
  /\ 0 < width /\ width <= 5 * DOLLAR /\ High(calls).strike - Low(calls).strike = width
  /\ IF action = "entry"
       THEN /\ Is(Low(puts), "buy", "buy_to_open") /\ Is(High(puts), "sell", "sell_to_open")
            /\ Is(Low(calls), "sell", "sell_to_open") /\ Is(High(calls), "buy", "buy_to_open")
       ELSE /\ Is(Low(puts), "sell", "sell_to_close") /\ Is(High(puts), "buy", "buy_to_close")
            /\ Is(Low(calls), "buy", "buy_to_close") /\ Is(High(calls), "sell", "sell_to_close")
  /\ ValidPrice(args.price, width, action)

----------------------------------------------------------------------------
(* Permits and the gateway.                                                *)

AGENT_MUTATION_TOOLS  == {"place_option_order"}
SYSTEM_MUTATION_TOOLS == {"place_option_order", "replace_order_by_id", "cancel_order_by_id"}
SYSTEM_MUTATION_PURPOSES == {"reprice", "cancel", "exit", "kill_switch"}

\* make_entry_permit and make_system_permit raise unless their guard holds.
EntryPermitIssued(args) == ValidMleg(args, "entry")
EntryPermit(args) ==
  [tool |-> "place_option_order", principal |-> "agent", purpose |-> "entry", args |-> args]

SystemPermitIssued(tool, purpose, args) ==
  /\ purpose \in SYSTEM_MUTATION_PURPOSES
  /\ tool = "place_option_order" => ValidMleg(args, "exit")
SystemPermit(tool, purpose, args) ==
  [tool |-> tool, principal |-> "system", purpose |-> purpose, args |-> args]

\* MutationPermit.assert_call, age seconds after it was issued.
PermitCovers(permit, tool, principal, args, age) ==
  /\ age <= PERMIT_TTL
  /\ permit.tool = tool /\ permit.principal = principal /\ permit.args = args

\* call_mutation dispatches the call.
Dispatched(permit, tool, principal, args, age) ==
  /\ IF principal = "agent"
       THEN tool \in AGENT_MUTATION_TOOLS /\ permit.purpose = "entry"
       ELSE tool \in SYSTEM_MUTATION_TOOLS /\ permit.purpose # "entry"
  /\ tool = "place_option_order" =>
       ValidMleg(args, IF principal = "agent" THEN "entry" ELSE "exit")
  /\ PermitCovers(permit, tool, principal, args, age)
=============================================================================
