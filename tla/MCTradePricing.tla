-------------------------- MODULE MCTradePricing --------------------------
(***************************************************************************)
(* Small markets for TradePricing: one stock around a hundred dollars, one *)
(* condor for each strategy and the ways its quotes can move between the   *)
(* scan, the fresh check and the exit.  Quotes are given in cents.         *)
(***************************************************************************)
EXTENDS TradePricing

Listed(right, dollars, exp, bid, ask, penny, age, iv) ==
  [right |-> right, strike |-> dollars * DOLLAR, exp |-> exp, eligible |-> TRUE,
   oi |-> 600, oiDate |-> 2, penny |-> penny, bid |-> bid * CENT, ask |-> ask * CENT,
   age |-> age, iv |-> iv, delta |-> IF right = "call" THEN 20 ELSE -20]

\* A condor with its quotes in the order lp, sp, sc, lc.
Condor(strikes, quotes, penny, age) ==
  {Listed(<<"put", "put", "call", "call">>[i], strikes[i], TRADE_EXPIRATION,
          quotes[i][1], quotes[i][2], penny, age, 60) : i \in 1 .. 4}

\* The at-the-money pair, with an expected move of six dollars.
Straddle(exp, iv) ==
  {Listed(right, 100, exp, 290, 310, TRUE, 1, iv) : right \in {"call", "put"}}

Market(spot, front, back, equity, power) ==
  [under |-> [bid |-> spot - 8, ask |-> spot + 8, age |-> 1], front |-> front, back |-> back,
   prevDay |-> 1, equity |-> equity, buyingPower |-> power]

EarningsMarket(quotes, penny, age, equity) ==
  Market(100 * DOLLAR,
         Condor(<<90, 94, 106, 110>>, quotes, penny, age) \cup Straddle(TRADE_EXPIRATION, 60),
         Straddle(TERM_EXPIRATION, 50), equity, 50 * DOLLAR)

CanaryMarket(spot, quotes, penny, age, power) ==
  Market(spot, Condor(<<98, 99, 101, 102>>, quotes, penny, age), {}, 1000, power)

Earnings ==
  LET plain == << <<30, 34>>, <<100, 106>>, <<100, 105>>, <<31, 35>> >>
      wide  == << <<29, 37>>, <<98, 108>>, <<98, 108>>, <<29, 39>> >>
      tight == << <<31, 32>>, <<100, 101>>, <<101, 102>>, <<32, 33>> >>
      moved == << <<40, 60>>, <<310, 330>>, <<5, 10>>, <<0, 5>> >>
      far   == << <<55, 65>>, <<390, 410>>, <<2, 6>>, <<0, 4>> >>
  IN {EarningsMarket(plain, TRUE, 5, 1000), EarningsMarket(wide, TRUE, 5, 991),
      EarningsMarket(plain, FALSE, 5, 985), EarningsMarket(tight, FALSE, 5, 1040),
      EarningsMarket(moved, FALSE, 0, 1000), EarningsMarket(far, FALSE, 5, 1000)}

Canary ==
  LET plain == << <<22, 26>>, <<40, 44>>, <<41, 45>>, <<23, 27>> >>
      thin  == << <<27, 33>>, <<37, 43>>, <<38, 44>>, <<27, 33>> >>
      moved == << <<120, 130>>, <<200, 220>>, <<10, 12>>, <<0, 5>> >>
      cheap == << <<0, 1>>, <<2, 4>>, <<1, 3>>, <<0, 5>> >>
      money == 100 * DOLLAR
  IN {CanaryMarket(money, plain, TRUE, 5, 50 * DOLLAR),
      CanaryMarket(money, plain, FALSE, 5, DOLLAR \div 2),
      CanaryMarket(money, plain, FALSE, 5, 50 * DOLLAR),
      CanaryMarket(money, thin, TRUE, 0, 50 * DOLLAR),
      CanaryMarket(money - 2 * DOLLAR, moved, FALSE, 5, 50 * DOLLAR),
      CanaryMarket(money, cheap, FALSE, 62, 50 * DOLLAR)}

AllMarkets == Earnings \cup Canary

\* Two earnings markets that lead an exit to three dollars: a condor sold on cent quotes in
\* the penny programme, and the quotes it may meet at its exit, one short leg far in the
\* money.  The entry stays on its cent tick, and no replacement of the exit is capped at a
\* natural debit that is off the five-cent tick: what is left is the ten-cent tick.
ThreeDollars ==
  {EarningsMarket(<< <<30, 34>>, <<100, 106>>, <<100, 105>>, <<31, 35>> >>, TRUE, 5, 1000),
   EarningsMarket(<< <<55, 65>>, <<390, 410>>, <<2, 6>>, <<0, 4>> >>, FALSE, 5, 1000)}

\* What OrdersStartWell in PricingProofs asks of the markets.
ASSUME MarketsOnDimes == StrikesOnDimes
=============================================================================
