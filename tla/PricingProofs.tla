--------------------------- MODULE PricingProofs ---------------------------
(* Proofs about TradePricing, for every set of markets that the program's   *)
(* parsers can let through, every calendar, and every number of repricings, *)
(* of exit chains and of days.                                              *)
EXTENDS TradePricing, FiniteSetTheorems, WellFoundedInduction, TLAPS

-----------------------------------------------------------------------------
(* Ticks and rounding.                                                       *)

LEMMA TickIsPositive ==
    ASSUME NEW p \in Int, NEW penny \in BOOLEAN
    PROVE  option_tick_size(p, penny) \in {2, 10, 20}
  BY DEF option_tick_size, CENT, DOLLAR

LEMMA RoundCreditDown ==
    ASSUME NEW p \in Int, NEW penny \in BOOLEAN
    PROVE  /\ round_credit_down(p, penny) \in Int
           /\ round_credit_down(p, penny) <= p
           /\ p >= 0 => round_credit_down(p, penny) >= 0
           /\ round_credit_down(p, penny) % option_tick_size(p, penny) = 0
<1>1. CASE option_tick_size(p, penny) = 2
  BY <1>1 DEF round_credit_down
<1>2. CASE option_tick_size(p, penny) = 10
  BY <1>2 DEF round_credit_down
<1>3. CASE option_tick_size(p, penny) = 20
  BY <1>3 DEF round_credit_down
<1> QED
  BY <1>1, <1>2, <1>3, TickIsPositive

LEMMA RoundDebitUp ==
    ASSUME NEW p \in Int
    PROVE  /\ round_debit_up(p, FALSE) \in Int
           /\ 0 < p => 0 < round_debit_up(p, FALSE)
<1>1. CASE p < 3 * DOLLAR
  BY <1>1 DEF round_debit_up, option_tick_size, DOLLAR, CENT
<1>2. CASE ~(p < 3 * DOLLAR)
  BY <1>2 DEF round_debit_up, option_tick_size, DOLLAR, CENT
<1> QED
  BY <1>1, <1>2

-----------------------------------------------------------------------------
(* Payloads.                                                                 *)

Legs ==
  [right : {"put", "call"}, strike : Int, exp : {TRADE_EXPIRATION}, side : {"buy", "sell"},
   intent : {"buy_to_open", "sell_to_open", "buy_to_close", "sell_to_close"}]
Payloads == [price : Int, legs : [1 .. 4 -> Legs]]

\* The four legs of an iron condor with equal wings, in the order of the candidate.
Condor(args) ==
  /\ args.legs[1].right = "put" /\ args.legs[2].right = "put"
  /\ args.legs[3].right = "call" /\ args.legs[4].right = "call"
  /\ args.legs[1].strike < args.legs[2].strike
  /\ args.legs[2].strike < args.legs[3].strike
  /\ args.legs[3].strike < args.legs[4].strike
  /\ args.legs[4].strike - args.legs[3].strike = WingWidth(args)
  /\ WingWidth(args) <= 5 * DOLLAR

Opens(args) ==
  /\ Is(args.legs[1], "buy", "buy_to_open") /\ Is(args.legs[2], "sell", "sell_to_open")
  /\ Is(args.legs[3], "sell", "sell_to_open") /\ Is(args.legs[4], "buy", "buy_to_open")

Closes(args) ==
  /\ Is(args.legs[1], "sell", "sell_to_close") /\ Is(args.legs[2], "buy", "buy_to_close")
  /\ Is(args.legs[3], "buy", "buy_to_close") /\ Is(args.legs[4], "sell", "sell_to_close")

LEMMA CardinalityOfTwo ==
    ASSUME NEW a, NEW b, a # b
    PROVE  IsFiniteSet({a, b}) /\ Cardinality({a, b}) = 2
<1>1. IsFiniteSet({a}) /\ Cardinality({a}) = 1
  BY FS_Singleton
<1>2. {a} \cup {b} = {a, b}
  OBVIOUS
<1> QED
  BY <1>1, <1>2, FS_AddElement

LEMMA CardinalityOfFour ==
    ASSUME NEW a, NEW b, NEW c, NEW d, a # b, a # c, a # d, b # c, b # d, c # d
    PROVE  Cardinality({a, b, c, d}) = 4
<1>1. IsFiniteSet({a, b}) /\ Cardinality({a, b}) = 2
  BY CardinalityOfTwo
<1>2. IsFiniteSet({a, b, c}) /\ Cardinality({a, b, c}) = 3
  <2>1. {a, b} \cup {c} = {a, b, c}
    OBVIOUS
  <2> QED
    BY <1>1, <2>1, FS_AddElement
<1>3. {a, b, c} \cup {d} = {a, b, c, d}
  OBVIOUS
<1> QED
  BY <1>2, <1>3, FS_AddElement

\* The contracts of a condor sorted by strike are its legs in order.
LEMMA SortedLegs ==
    ASSUME NEW args \in Payloads, Condor(args)
    PROVE  /\ Strands(args, "put") = {args.legs[1], args.legs[2]}
           /\ Strands(args, "call") = {args.legs[3], args.legs[4]}
           /\ Low(Strands(args, "put")) = args.legs[1]
           /\ High(Strands(args, "put")) = args.legs[2]
           /\ Low(Strands(args, "call")) = args.legs[3]
           /\ High(Strands(args, "call")) = args.legs[4]
<1>1. /\ \A i \in 1 .. 4 : args.legs[i] \in Legs
      /\ \A i \in 1 .. 4 : args.legs[i].strike \in Int
  BY DEF Payloads, Legs
<1>2. 1 .. 4 = {1, 2, 3, 4}
  OBVIOUS
<1>3. /\ Strands(args, "put") = {args.legs[1], args.legs[2]}
      /\ Strands(args, "call") = {args.legs[3], args.legs[4]}
  BY <1>2 DEF Condor, Strands
<1>4. ASSUME NEW a, NEW b, a.strike \in Int, b.strike \in Int, a.strike < b.strike
      PROVE  Low({a, b}) = a /\ High({a, b}) = b
  <2>1. \A l \in {a, b} : (\A k \in {a, b} : l.strike <= k.strike) <=> l = a
    BY <1>4
  <2>2. \A l \in {a, b} : (\A k \in {a, b} : l.strike >= k.strike) <=> l = b
    BY <1>4
  <2> QED
    BY <2>1, <2>2 DEF Low, High
<1>5. /\ args.legs[1].strike \in Int /\ args.legs[2].strike \in Int
      /\ args.legs[3].strike \in Int /\ args.legs[4].strike \in Int
  BY <1>1
<1>6. args.legs[1].strike < args.legs[2].strike /\ args.legs[3].strike < args.legs[4].strike
  BY DEF Condor
<1>7. /\ Low({args.legs[1], args.legs[2]}) = args.legs[1]
      /\ High({args.legs[1], args.legs[2]}) = args.legs[2]
      /\ Low({args.legs[3], args.legs[4]}) = args.legs[3]
      /\ High({args.legs[3], args.legs[4]}) = args.legs[4]
  BY <1>4, <1>5, <1>6, Zenon
<1> QED
  BY <1>3, <1>7

\* What the validation accepts of a condor: the right sides and a price in range.
LEMMA CondorIsValid ==
    ASSUME NEW args \in Payloads, Condor(args), NEW action \in {"entry", "exit"},
           IF action = "entry" THEN Opens(args) ELSE Closes(args),
           ValidPrice(args.price, WingWidth(args), action)
    PROVE  ValidMleg(args, action)
<1>1. \A i \in 1 .. 4 : /\ args.legs[i].strike \in Int
                        /\ args.legs[i].exp = TRADE_EXPIRATION
  BY DEF Payloads, Legs
<1>2. 1 .. 4 = {1, 2, 3, 4}
  OBVIOUS
<1>3. {args.legs[i].exp : i \in 1 .. 4} = {TRADE_EXPIRATION}
  BY <1>1
<1>4. Cardinality({args.legs[i].exp : i \in 1 .. 4}) = 1
  BY <1>3, FS_Singleton
<1>5. {Symbol(args.legs[i]) : i \in 1 .. 4} =
        {Symbol(args.legs[1]), Symbol(args.legs[2]), Symbol(args.legs[3]), Symbol(args.legs[4])}
  BY <1>2
<1>6. /\ Symbol(args.legs[1]) # Symbol(args.legs[2]) /\ Symbol(args.legs[3]) # Symbol(args.legs[4])
      /\ Symbol(args.legs[1]) # Symbol(args.legs[3]) /\ Symbol(args.legs[1]) # Symbol(args.legs[4])
      /\ Symbol(args.legs[2]) # Symbol(args.legs[3]) /\ Symbol(args.legs[2]) # Symbol(args.legs[4])
  <2>1. ASSUME NEW k \in Legs, NEW l \in Legs,
               k.right # l.right \/ k.strike # l.strike
        PROVE  Symbol(k) # Symbol(l)
    BY <2>1 DEF Symbol
  <2>2. \A i \in 1 .. 4 : args.legs[i] \in Legs
    BY DEF Payloads
  <2> QED
    BY <1>1, <2>1, <2>2 DEF Condor
<1>7. Cardinality({Symbol(args.legs[i]) : i \in 1 .. 4}) = 4
  <2>1. PICK a, b, c, d : /\ a = Symbol(args.legs[1]) /\ b = Symbol(args.legs[2])
                          /\ c = Symbol(args.legs[3]) /\ d = Symbol(args.legs[4])
    OBVIOUS
  <2>2. a # b /\ a # c /\ a # d /\ b # c /\ b # d /\ c # d
    BY <1>6, <2>1
  <2>3. Cardinality({a, b, c, d}) = 4
    BY <2>2, CardinalityOfFour, ZenonT(30)
  <2> QED
    BY <1>5, <2>1, <2>3
<1>8. args.legs[1] # args.legs[2] /\ args.legs[3] # args.legs[4]
  BY <1>6
<1>9. Cardinality(Strands(args, "put")) = 2 /\ Cardinality(Strands(args, "call")) = 2
  <2>1. /\ Cardinality({args.legs[1], args.legs[2]}) = 2
        /\ Cardinality({args.legs[3], args.legs[4]}) = 2
    BY <1>8, CardinalityOfTwo, Zenon
  <2> QED
    BY <2>1, SortedLegs, Zenon
<1>10. /\ 0 < WingWidth(args) /\ WingWidth(args) \in Int
       /\ args.legs[2].strike - args.legs[1].strike = WingWidth(args)
  BY <1>1 DEF WingWidth, Condor
<1> QED
  BY <1>4, <1>7, <1>9, <1>10, SortedLegs DEF ValidMleg, Condor, Opens, Closes

\* The exit of a condor is the condor's legs the other way round.
LEMMA ExitOfCondor ==
    ASSUME NEW args \in Payloads, Condor(args), Opens(args), NEW debit \in Int
    PROVE  /\ ExitArguments(args, debit) \in Payloads
           /\ Condor(ExitArguments(args, debit)) /\ Closes(ExitArguments(args, debit))
           /\ WingWidth(ExitArguments(args, debit)) = WingWidth(args)
           /\ ExitArguments(args, debit).price = Lesser(debit, WingWidth(args))
           /\ WingWidth(args) \in Int /\ 0 < WingWidth(args)
<1> DEFINE out == ExitArguments(args, debit)
<1>1. ASSUME NEW leg \in Legs
      PROVE  /\ Closing(leg) \in Legs
             /\ Closing(leg).right = leg.right /\ Closing(leg).strike = leg.strike
             /\ Is(leg, "buy", "buy_to_open") => Is(Closing(leg), "sell", "sell_to_close")
             /\ Is(leg, "sell", "sell_to_open") => Is(Closing(leg), "buy", "buy_to_close")
  BY DEF Closing, Legs, Is
<1>2. \A i \in 1 .. 4 : args.legs[i] \in Legs /\ args.legs[i].strike \in Int
  BY DEF Payloads, Legs
<1>3. WingWidth(args) \in Int /\ 0 < WingWidth(args)
  BY <1>2 DEF WingWidth, Condor
<1>4. /\ out.legs = [i \in 1 .. 4 |-> Closing(args.legs[i])]
      /\ out.price = Lesser(debit, WingWidth(args))
      /\ DOMAIN out = {"price", "legs"}
  BY DEF ExitArguments
<1>5. \A i \in 1 .. 4 : out.legs[i] = Closing(args.legs[i])
  BY <1>4
<1>6. out \in Payloads
  <2>1. Lesser(debit, WingWidth(args)) \in Int
    BY <1>3 DEF Lesser
  <2>2. [i \in 1 .. 4 |-> Closing(args.legs[i])] \in [1 .. 4 -> Legs]
    BY <1>1, <1>2
  <2> QED
    BY <2>1, <2>2 DEF ExitArguments, Payloads
<1>7. WingWidth(out) = WingWidth(args)
  <2>1. /\ out.legs[1].strike = args.legs[1].strike
        /\ out.legs[2].strike = args.legs[2].strike
    BY <1>1, <1>2, <1>5
  <2> QED
    BY <2>1 DEF WingWidth
<1>8. \A i \in 1 .. 4 : /\ out.legs[i].right = args.legs[i].right
                        /\ out.legs[i].strike = args.legs[i].strike
  BY <1>1, <1>2, <1>5
<1>9. Condor(out)
  <2> HIDE DEF out
  <2> QED
    BY <1>7, <1>8 DEF Condor
<1>10. Closes(out)
  <2> HIDE DEF out
  <2>1. \A i \in 1 .. 4 :
          /\ Is(args.legs[i], "buy", "buy_to_open") => Is(out.legs[i], "sell", "sell_to_close")
          /\ Is(args.legs[i], "sell", "sell_to_open") => Is(out.legs[i], "buy", "buy_to_close")
    BY <1>1, <1>2, <1>5
  <2> QED
    BY <2>1 DEF Closes, Opens
<1> QED
  BY <1>3, <1>4, <1>6, <1>7, <1>9, <1>10

-----------------------------------------------------------------------------
(* Candidates.                                                               *)

Minimum(width) == Greater(20 * CENT, width \div 10)

\* What either strategy lets through.
Sound(c) ==
  /\ c.legs.lp.right = "put" /\ c.legs.sp.right = "put"
  /\ c.legs.sc.right = "call" /\ c.legs.lc.right = "call"
  /\ \A s \in {c.legs.lp, c.legs.sp, c.legs.sc, c.legs.lc} :
       s.eligible /\ s.exp = TRADE_EXPIRATION /\ s.strike \in Int
  /\ c.legs.lp.strike < c.legs.sp.strike /\ c.legs.sp.strike < c.legs.sc.strike
  /\ c.legs.sc.strike < c.legs.lc.strike
  /\ c.width = c.legs.sp.strike - c.legs.lp.strike
  /\ c.width = c.legs.lc.strike - c.legs.sc.strike
  /\ c.width <= 5 * DOLLAR
  /\ c.natural_credit \in Int
  /\ c.proposed_credit \in Int /\ c.proposed_credit % c.tick_size = 0
  /\ Minimum(c.width) <= c.proposed_credit /\ c.proposed_credit < c.width
  /\ c.maximum_loss = c.width - c.proposed_credit
  /\ c.risk_budget \in 0 .. 5 * DOLLAR /\ c.maximum_loss <= c.risk_budget

LEMMA SoundCandidate ==
    ASSUME NEW c, Sound(c)
    PROVE  /\ CandidateIsSound(c)
           /\ EntryArguments(c) \in Payloads
           /\ Condor(EntryArguments(c)) /\ Opens(EntryArguments(c))
           /\ WingWidth(EntryArguments(c)) = c.width
           /\ Credit(EntryArguments(c)) = c.proposed_credit
           /\ ValidPrice(EntryArguments(c).price, c.width, "entry")
<1> DEFINE st == c.legs
           args == EntryArguments(c)
<1>1. /\ st.lp.strike \in Int /\ st.sp.strike \in Int
      /\ st.sc.strike \in Int /\ st.lc.strike \in Int
      /\ c.width \in Int /\ 0 < c.width
  BY DEF Sound
<1>2. /\ 0 < c.proposed_credit /\ 0 < c.maximum_loss /\ c.maximum_loss <= 5 * DOLLAR
  BY <1>1 DEF Sound, Minimum, Greater, CENT, DOLLAR
<1>3. \A s \in {st.lp, st.sp, st.sc, st.lc} : s.exp = TRADE_EXPIRATION
  BY DEF Sound
<1>4. {s.exp : s \in {st.lp, st.sp, st.sc, st.lc}} = {TRADE_EXPIRATION}
  BY <1>3
<1>5. Cardinality({s.exp : s \in {st.lp, st.sp, st.sc, st.lc}}) = 1
  BY <1>4, FS_Singleton
<1>6. Cardinality({Symbol(s) : s \in {st.lp, st.sp, st.sc, st.lc}}) = 4
  <2>1. {Symbol(s) : s \in {st.lp, st.sp, st.sc, st.lc}} =
          {Symbol(st.lp), Symbol(st.sp), Symbol(st.sc), Symbol(st.lc)}
    OBVIOUS
  <2>2. PICK a, b, d, e : /\ a = Symbol(st.lp) /\ b = Symbol(st.sp)
                          /\ d = Symbol(st.sc) /\ e = Symbol(st.lc)
    OBVIOUS
  <2>3. \A s, t : s.right # t.right \/ s.strike # t.strike => Symbol(s) # Symbol(t)
    BY DEF Symbol
  <2>4. a # b /\ a # d /\ a # e /\ b # d /\ b # e /\ d # e
    BY <1>1, <2>2, <2>3 DEF Sound
  <2>5. Cardinality({a, b, d, e}) = 4
    BY <2>4, CardinalityOfFour, ZenonT(30)
  <2> QED
    BY <2>1, <2>2, <2>5
<1>7. CandidateIsSound(c)
  BY <1>1, <1>2, <1>5, <1>6 DEF CandidateIsSound, Sound
<1>8. /\ args.legs[1] = Leg(st.lp, "buy", "buy_to_open")
      /\ args.legs[2] = Leg(st.sp, "sell", "sell_to_open")
      /\ args.legs[3] = Leg(st.sc, "sell", "sell_to_open")
      /\ args.legs[4] = Leg(st.lc, "buy", "buy_to_open")
      /\ args.price = 0 - c.proposed_credit
  BY DEF EntryArguments
<1>9. args \in Payloads
  <2>1. ASSUME NEW s \in {st.lp, st.sp, st.sc, st.lc},
               NEW side \in {"buy", "sell"}, NEW intent \in {"buy_to_open", "sell_to_open"}
        PROVE  Leg(s, side, intent) \in Legs
    BY DEF Leg, Legs, Sound
  <2>2. <<Leg(st.lp, "buy", "buy_to_open"), Leg(st.sp, "sell", "sell_to_open"),
          Leg(st.sc, "sell", "sell_to_open"), Leg(st.lc, "buy", "buy_to_open")>>
            \in [1 .. 4 -> Legs]
    BY <2>1
  <2>3. 0 - c.proposed_credit \in Int
    BY DEF Sound
  <2> QED
    BY <2>2, <2>3 DEF EntryArguments, Payloads
<1>10. /\ args.legs[1].right = st.lp.right /\ args.legs[1].strike = st.lp.strike
       /\ args.legs[2].right = st.sp.right /\ args.legs[2].strike = st.sp.strike
       /\ args.legs[3].right = st.sc.right /\ args.legs[3].strike = st.sc.strike
       /\ args.legs[4].right = st.lc.right /\ args.legs[4].strike = st.lc.strike
  BY <1>8 DEF Leg
<1>11. Opens(args)
  BY <1>8 DEF Opens, Is, Leg
<1>12. WingWidth(args) = c.width
  BY <1>10 DEF WingWidth, Sound
<1>13. Condor(args)
  <2> HIDE DEF args
  <2> QED
    BY <1>1, <1>10, <1>12 DEF Condor, Sound
<1>14. Credit(args) = c.proposed_credit /\ ValidPrice(args.price, c.width, "entry")
  BY <1>1, <1>2, <1>8 DEF Credit, ValidPrice, Sound, Minimum
<1> QED
  BY <1>7, <1>9, <1>11, <1>12, <1>13, <1>14

LEMMA SnapshotTypes ==
    ASSUME NEW m \in Markets
    PROVE  /\ \A s \in m.front :
                /\ s.right \in {"call", "put"} /\ s.eligible \in BOOLEAN /\ s.penny \in BOOLEAN
                /\ s.strike \in Int /\ s.bid \in Int /\ s.ask \in Int /\ s.age \in Int
                /\ Mid(s) \in Int
           /\ Mid(m.under) \in Int /\ m.equity \in Int /\ m.buyingPower \in Int
<1>1. \A s \in m.front :
        /\ s.right \in {"call", "put"} /\ s.eligible \in BOOLEAN /\ s.penny \in BOOLEAN
        /\ s.strike \in Int /\ s.bid \in Int /\ s.ask \in Int /\ s.age \in Int
  BY MarketTypes
<1>2. m.under.bid \in Int /\ m.under.ask \in Int /\ m.equity \in Int /\ m.buyingPower \in Int
  BY MarketTypes
<1> QED
  BY <1>1, <1>2 DEF Mid

LEMMA SmallestOfNaturals ==
    ASSUME NEW S, S \subseteq Nat, S # {}
    PROVE  \E s \in S : \A t \in S : s <= t
<1>1. PICK s \in S : \A t \in S : ~(<<t, s>> \in OpToRel(<, Nat))
  BY WFMin, NatLessThanWellFounded
<1>2. \A t \in S : ~(t < s)
  BY <1>1 DEF OpToRel
<1> QED
  BY <1>2

\* Of a set of strikes one is nearest to spot, the lower one of two.
LEMMA NearestStrike ==
    ASSUME NEW K, K \subseteq Int, K # {}, NEW spot \in Int
    PROVE  First(K, [k \in K |-> <<Distance(k, spot), k>>]) # {}
<1> DEFINE key == [k \in K |-> <<Distance(k, spot), k>>]
           D   == {Distance(k, spot) : k \in K}
<1>1. \A k \in K : k \in Int /\ Distance(k, spot) \in Nat
  BY DEF Distance, Greater, Lesser
<1>2. D \in SUBSET Nat /\ D # {}
  BY <1>1
<1>3. PICK d \in D : \A e \in D : d <= e
  <2> HIDE DEF D
  <2> QED
    BY <1>2, SmallestOfNaturals
<1>4. PICK near \in K : Distance(near, spot) = d /\ (spot - d \in K => near = spot - d)
  <2>1. CASE spot - d \in K
    BY <1>2, <2>1 DEF Distance, Greater, Lesser
  <2>2. CASE spot - d \notin K
    BY <1>3, <2>2
  <2> QED
    BY <2>1, <2>2
<1>5. ASSUME NEW t \in K, LexLess(key[t], key[near])
      PROVE  FALSE
  <2>1. key[t] = <<Distance(t, spot), t>> /\ key[near] = <<d, near>>
    BY <1>4
  <2>2. d \in Nat /\ Distance(t, spot) \in Nat /\ d <= Distance(t, spot)
    BY <1>1, <1>2, <1>3
  <2>3. PICK i \in DOMAIN key[t] : key[t][i] < key[near][i] /\ \A j \in 1 .. i - 1 : key[t][j] = key[near][j]
    BY <1>5 DEF LexLess
  <2>4. i \in {1, 2}
    BY <2>1
  <2>5. i = 2
    BY <2>1, <2>2, <2>3, <2>4
  <2>6. Distance(t, spot) = d /\ t < near
    BY <2>1, <2>3, <2>5
  <2> QED
    BY <1>1, <1>4, <2>2, <2>6 DEF Distance, Greater, Lesser
<1>6. near \in First(K, key)
  BY <1>5 DEF First
<1> QED
  BY <1>6

LEMMA AtmPair ==
    ASSUME NEW m \in Markets, NEW chain, chain \subseteq m.front,
           AtmStrikes(chain) # {}, NEW spot \in Int
    PROVE  /\ select_atm_pair(chain, spot).call \in chain
           /\ select_atm_pair(chain, spot).put \in chain
<1> DEFINE K      == AtmStrikes(chain)
           key    == [k \in K |-> <<Distance(k, spot), k>>]
           strike == CHOOSE k \in First(K, key) : TRUE
<1>1. K \subseteq Int
  BY SnapshotTypes DEF AtmStrikes, Strikes
<1>2. strike \in K
  <2>1. First(K, key) # {}
    BY <1>1, NearestStrike
  <2> QED
    BY <2>1 DEF First
<1>3. /\ Of(chain, "call", strike) \in chain
      /\ Of(chain, "put", strike) \in chain
  <2> HIDE DEF strike
  <2> QED
    BY <1>2 DEF Of, AtmStrikes, Strikes
<1> QED
  BY <1>3 DEF select_atm_pair

\* The quotes of four contracts of one snapshot, and what is computed from them.
Four(st, m) ==
  /\ st \in [sp : m.front, sc : m.front, lp : m.front, lc : m.front]
  /\ st.sp.right = "put" /\ st.lp.right = "put" /\ st.sc.right = "call" /\ st.lc.right = "call"
  /\ \A s \in {st.lp, st.sp, st.sc, st.lc} : s.exp = TRADE_EXPIRATION

LEMMA FourTypes ==
    ASSUME NEW m \in Markets, NEW st, Four(st, m)
    PROVE  /\ NaturalCredit(st) \in Int /\ MidpointCredit(st) \in Int
           /\ PennyCombination(st) \in BOOLEAN
           /\ st.sp.strike \in Int /\ st.lp.strike \in Int
           /\ st.sc.strike \in Int /\ st.lc.strike \in Int
<1>1. /\ st.sp \in m.front /\ st.lp \in m.front
      /\ st.sc \in m.front /\ st.lc \in m.front
  BY DEF Four
<1>2. /\ NaturalCredit(st) \in Int /\ MidpointCredit(st) \in Int
  BY <1>1, SnapshotTypes DEF NaturalCredit, MidpointCredit
<1>3. PennyCombination(st) \in BOOLEAN
  BY DEF PennyCombination
<1> QED
  BY <1>1, <1>2, <1>3, SnapshotTypes

\* The search of the earnings strategy ends with a structure that passed every gate.
LEMMA EarningsCandidate ==
    ASSUME NEW m \in Markets, NEW c \in evaluate_symbol(m)
    PROVE  \E st : /\ c = Candidate(st, RiskBudget(m.equity))
                   /\ EarningsOk(m) /\ st \in Structures(m) /\ EarningsStructureOk(st, m)
                   /\ Four(st, m)
<1> DEFINE valid == {st \in Structures(m) : EarningsStructureOk(st, m)}
<1>1. EarningsOk(m)
  BY DEF evaluate_symbol
<1>2. PICK st \in valid : c = Candidate(st, RiskBudget(m.equity))
  BY <1>1 DEF evaluate_symbol, First
<1>3. Four(st, m)
  BY <1>2 DEF Structures, Expiring, Four
<1> QED
  BY <1>1, <1>2, <1>3

LEMMA EarningsIsSound ==
    ASSUME NEW m \in Markets, NEW c \in evaluate_symbol(m), m.equity > KILL_EQUITY
    PROVE  /\ Sound(c) /\ Minimum(c.width) <= c.natural_credit
           /\ c.risk_budget > KILL_EQUITY
<1>1. PICK st : /\ c = Candidate(st, RiskBudget(m.equity))
                /\ EarningsOk(m) /\ st \in Structures(m) /\ EarningsStructureOk(st, m)
                /\ Four(st, m)
  BY EarningsCandidate
<1> DEFINE spot  == Mid(m.under)
           front == Expiring(m.front, TRADE_EXPIRATION)
           move  == ExpectedMove(select_atm_pair(front, spot))
           mid   == MidpointCredit(st)
           penny == PennyCombination(st)
<1>2. /\ mid \in Int /\ penny \in BOOLEAN /\ NaturalCredit(st) \in Int
      /\ st.sp.strike \in Int /\ st.lp.strike \in Int
      /\ st.sc.strike \in Int /\ st.lc.strike \in Int
      /\ spot \in Int /\ m.equity \in Int
  BY <1>1, FourTypes, SnapshotTypes
<1>3. move \in Int /\ 0 < move
  <2>1. AtmStrikes(front) # {} /\ AtmPairOk(select_atm_pair(front, spot))
    BY <1>1 DEF EarningsOk
  <2>2. front \subseteq m.front
    BY DEF Expiring
  <2> DEFINE pair == select_atm_pair(front, spot)
  <2>3. pair.call \in m.front /\ pair.put \in m.front
    BY <1>2, <2>1, <2>2, AtmPair
  <2>4. /\ pair.call.bid \in Int /\ pair.call.ask \in Int
        /\ pair.put.bid \in Int /\ pair.put.ask \in Int
    BY <2>3, SnapshotTypes
  <2>5. /\ 0 < pair.call.bid /\ pair.call.bid < pair.call.ask
        /\ 0 < pair.put.bid /\ pair.put.bid < pair.put.ask
    BY <2>1 DEF AtmPairOk, AtmLegOk, Quoted
  <2> QED
    BY <2>4, <2>5 DEF ExpectedMove, Mid
<1>4. /\ st.lp.strike < st.sp.strike /\ st.sp.strike < st.sc.strike
      /\ st.sc.strike < st.lc.strike
      /\ st.sp.strike - st.lp.strike = st.lc.strike - st.sc.strike
      /\ st.sp.strike - st.lp.strike <= 5 * DOLLAR
  <2>1. /\ st.sp.strike <= spot - move /\ spot + move <= st.sc.strike
        /\ 0 < st.sp.strike - st.lp.strike /\ st.sp.strike - st.lp.strike <= 5 * DOLLAR
        /\ st.lc.strike - st.sc.strike = st.sp.strike - st.lp.strike
    BY <1>1, <1>2 DEF Structures
  <2> QED
    BY <1>2, <1>3, <2>1
<1>5. /\ c.legs = st /\ c.width = st.sp.strike - st.lp.strike
      /\ c.natural_credit = NaturalCredit(st) /\ c.midpoint_credit = mid
      /\ c.proposed_credit = round_credit_down(mid, penny)
      /\ c.tick_size = option_tick_size(mid, penny)
      /\ c.maximum_loss = c.width - c.proposed_credit
      /\ c.risk_budget = RiskBudget(m.equity)
  BY <1>1 DEF Candidate
<1>6. /\ st.lp.eligible /\ st.sp.eligible /\ st.sc.eligible /\ st.lc.eligible
      /\ c.natural_credit >= Minimum(c.width) /\ c.proposed_credit >= Minimum(c.width)
      /\ c.proposed_credit < c.width /\ c.maximum_loss <= c.risk_budget
  BY <1>1 DEF EarningsStructureOk, EarningsLegOk, Minimum
<1>7. c.proposed_credit \in Int /\ c.proposed_credit % c.tick_size = 0
  BY <1>2, <1>5, RoundCreditDown
<1>8. c.risk_budget \in 0 .. 5 * DOLLAR /\ c.risk_budget > KILL_EQUITY
  BY <1>2, <1>5 DEF RiskBudget, Lesser, Greater, KILL_EQUITY, DOLLAR, CENT
<1>9. Sound(c)
  <2>1. Minimum(c.width) \in Int
    BY <1>2, <1>5 DEF Minimum, Greater, CENT
  <2>2. \A s \in {st.lp, st.sp, st.sc, st.lc} :
          s.eligible /\ s.exp = TRADE_EXPIRATION /\ s.strike \in Int
    BY <1>1, <1>2, <1>6 DEF Four
  <2> QED
    BY <1>1, <1>2, <1>4, <1>5, <1>6, <1>7, <1>8, <2>1, <2>2 DEF Sound, Four
<1> QED
  <2>1. Minimum(c.width) \in Int
    BY <1>2, <1>5 DEF Minimum, Greater, CENT
  <2> QED
    BY <1>2, <1>5, <1>6, <1>8, <1>9, <2>1

LEMMA CanaryCandidateIs ==
    ASSUME NEW m \in Markets, NEW c \in evaluate_intraday_symbol(m)
    PROVE  \E st : /\ c = CanaryCandidate(st) /\ CanaryUnderlyingOk(m.under)
                   /\ st \in CanaryStructures(m) /\ CanaryStructureOk(st, m)
                   /\ Four(st, m)
<1>1. CanaryUnderlyingOk(m.under)
  BY DEF evaluate_intraday_symbol
<1>2. PICK st \in CanaryStructures(m) : CanaryStructureOk(st, m) /\ c = CanaryCandidate(st)
  BY <1>1 DEF evaluate_intraday_symbol
<1>3. Four(st, m)
  BY <1>2 DEF CanaryStructures, Expiring, Four
<1> QED
  BY <1>1, <1>2, <1>3

LEMMA CanaryIsSound ==
    ASSUME NEW m \in Markets, NEW c \in evaluate_intraday_symbol(m)
    PROVE  Sound(c) /\ c.width = WING_WIDTH /\ c.risk_budget = MAXIMUM_LOSS
<1>1. PICK st : /\ c = CanaryCandidate(st) /\ CanaryUnderlyingOk(m.under)
                /\ st \in CanaryStructures(m) /\ CanaryStructureOk(st, m)
                /\ Four(st, m)
  BY CanaryCandidateIs
<1> DEFINE mid   == Greater(MidpointCredit(st), 0)
           penny == PennyCombination(st)
<1>2. /\ mid \in Int /\ penny \in BOOLEAN /\ NaturalCredit(st) \in Int
      /\ st.sp.strike \in Int /\ st.lp.strike \in Int
      /\ st.sc.strike \in Int /\ st.lc.strike \in Int
      /\ Mid(m.under) \in Int
  BY <1>1, FourTypes, SnapshotTypes DEF Greater
<1>3. /\ st.sp.strike - st.lp.strike = 200 /\ st.lc.strike - st.sc.strike = 200
      /\ st.sp.strike < st.sc.strike
  BY <1>1, <1>2 DEF CanaryStructures, WING_WIDTH, DOLLAR, CENT
<1>4. /\ c.legs = st /\ c.width = 200
      /\ c.natural_credit = NaturalCredit(st)
      /\ c.proposed_credit = round_credit_down(mid, penny)
      /\ c.tick_size = option_tick_size(mid, penny)
      /\ c.maximum_loss = c.width - c.proposed_credit
      /\ c.risk_budget = 160
  BY <1>1 DEF CanaryCandidate, WING_WIDTH, MAXIMUM_LOSS, DOLLAR, CENT
<1>5. /\ st.lp.eligible /\ st.sp.eligible /\ st.sc.eligible /\ st.lc.eligible
      /\ 40 <= c.proposed_credit /\ c.proposed_credit < c.width /\ c.maximum_loss <= 160
  BY <1>1 DEF CanaryStructureOk, CanaryLegOk, MINIMUM_PROPOSED_CREDIT, MAXIMUM_LOSS, CENT
<1>6. c.proposed_credit \in Int /\ c.proposed_credit % c.tick_size = 0
  BY <1>2, <1>4, RoundCreditDown
<1>7. Minimum(c.width) = 40
  BY <1>4 DEF Minimum, Greater, CENT
<1>8. \A s \in {st.lp, st.sp, st.sc, st.lc} :
        s.eligible /\ s.exp = TRADE_EXPIRATION /\ s.strike \in Int
  BY <1>1, <1>2, <1>5 DEF Four
<1>9. Sound(c)
  BY <1>1, <1>2, <1>3, <1>4, <1>5, <1>6, <1>7, <1>8 DEF Sound, Four, DOLLAR, CENT
<1> QED
  BY <1>4, <1>9 DEF WING_WIDTH, MAXIMUM_LOSS, DOLLAR, CENT

-----------------------------------------------------------------------------
(* The inductive invariant.  The payload of the entry, fixed with the        *)
(* candidate, stays a condor whose price is within the limits its validation *)
(* puts on an entry; those limits and the equity at which the program stops  *)
(* leave no room for a loss beyond the budget.                               *)

EntryInv ==
  phase \in {"candidate", "entry", "open", "exit", "flat"} =>
    /\ entry \in Payloads /\ Condor(entry) /\ Opens(entry)
    /\ ValidPrice(entry.price, WingWidth(entry), "entry")
    /\ profile = "canary" => WingWidth(entry) = WING_WIDTH /\ budget = MAXIMUM_LOSS
    /\ profile = "earnings" => budget > KILL_EQUITY

CandInv ==
  /\ phase \in {"candidate", "entry"} =>
       /\ cand.natural_credit \in Int
       /\ profile = "earnings" => Minimum(WingWidth(entry)) <= cand.natural_credit
  /\ phase = "candidate" =>
       cand \in Evaluate(seen) /\ entry = EntryArguments(cand) /\ seen.equity > KILL_EQUITY

ExitInv ==
  phase \in {"exit", "flat"} => exit \in Payloads /\ exit.price <= WingWidth(entry)

DateInv ==
  phase \in {"candidate", "entry", "open", "exit"} =>
    /\ date <= day
    /\ profile = "canary" => date = CANARY_DATE
    /\ profile = "earnings" => date \in EVENT_DAYS

PricingInv ==
  PricingTypeOK /\ NothingIsRefusedLate /\ EntryInv /\ CandInv /\ ExitInv /\ DateInv

LEMMA NoneIsNoRecord ==
    /\ \A args \in Payloads : args # None
    /\ \A m \in Markets : \A c \in evaluate_symbol(m) \cup evaluate_intraday_symbol(m) : c # None
<1>1. DOMAIN None = {"none"}
  BY DEF None
<1>2. \A args \in Payloads : DOMAIN args = {"price", "legs"}
  BY DEF Payloads
<1>3. ASSUME NEW st, NEW b PROVE "legs" \in DOMAIN Candidate(st, b)
  BY DEF Candidate
<1>4. ASSUME NEW st PROVE "legs" \in DOMAIN CanaryCandidate(st)
  BY DEF CanaryCandidate
<1>5. "legs" \notin {"none"}
  OBVIOUS
<1> QED
  BY <1>1, <1>2, <1>3, <1>4, <1>5, EarningsCandidate, CanaryCandidateIs

\* A replacement changes nothing but the price.
LEMMA Replaced ==
    ASSUME NEW args \in Payloads, NEW p \in Int
    PROVE  LET new == [args EXCEPT !.price = p] IN
           /\ new \in Payloads /\ new.price = p /\ new.legs = args.legs
           /\ WingWidth(new) = WingWidth(args)
           /\ Condor(args) => Condor(new)
           /\ Opens(args) => Opens(new)
<1> DEFINE new == [args EXCEPT !.price = p]
<1>1. new \in Payloads /\ new.price = p /\ new.legs = args.legs
  BY DEF Payloads
<1> HIDE DEF new
<1>2. WingWidth(new) = WingWidth(args)
  BY <1>1 DEF WingWidth
<1>3. /\ Condor(args) => Condor(new)
      /\ Opens(args) => Opens(new)
  BY <1>1, <1>2 DEF Condor, Opens
<1> QED
  BY <1>1, <1>2, <1>3 DEF new

LEMMA WidthIsInteger ==
    ASSUME NEW args \in Payloads, Condor(args)
    PROVE  WingWidth(args) \in Int /\ 0 < WingWidth(args) /\ WingWidth(args) <= 5 * DOLLAR
<1>1. args.legs[1].strike \in Int /\ args.legs[2].strike \in Int
  BY DEF Payloads, Legs
<1> QED
  BY <1>1 DEF WingWidth, Condor

LEMMA DebitsAreIntegers ==
    ASSUME NEW m \in Markets, NEW lag, ExitQuoted(m, lag)
    PROVE  /\ NaturalDebit(m) \in Int /\ MidpointDebit(m) \in Int
           /\ ProposedDebit(m) \in Int /\ 0 < ProposedDebit(m)
<1>1. \A i \in 1 .. 4 : LegQuote(m, i) \in m.front
  BY DEF ExitQuoted, LegQuote, LegQuotes
<1>2. \A i \in 1 .. 4 : /\ LegQuote(m, i).bid \in Int /\ LegQuote(m, i).ask \in Int
                        /\ Mid(LegQuote(m, i)) \in Int
  BY <1>1, SnapshotTypes
<1>3. \A i \in 1 .. 4 :
        /\ Signed(i, Mid(LegQuote(m, i)), Mid(LegQuote(m, i))) \in Int
        /\ Signed(i, LegQuote(m, i).ask, LegQuote(m, i).bid) \in Int
  BY <1>2 DEF Signed
<1>4. ASSUME NEW v, \A i \in 1 .. 4 : v[i] \in Int
      PROVE  Sum4(v) \in Int
  BY <1>4 DEF Sum4
<1>5. MidpointDebit(m) \in Int
  <2> DEFINE v == [i \in 1 .. 4 |-> Signed(i, Mid(LegQuote(m, i)), Mid(LegQuote(m, i)))]
  <2>1. \A i \in 1 .. 4 : v[i] \in Int
    BY <1>3
  <2> HIDE DEF v
  <2>2. Sum4(v) \in Int
    BY <1>4, <2>1
  <2> QED
    BY <2>2 DEF MidpointDebit, v
<1>6. NaturalDebit(m) \in Int
  <2> DEFINE v == [i \in 1 .. 4 |-> Signed(i, LegQuote(m, i).ask, LegQuote(m, i).bid)]
  <2>1. \A i \in 1 .. 4 : v[i] \in Int
    BY <1>3
  <2> HIDE DEF v
  <2>2. Greater(0, Sum4(v)) \in Int
    BY <1>4, <2>1 DEF Greater
  <2> QED
    BY <2>2 DEF NaturalDebit, v
<1>7. ProposedDebit(m) \in Int /\ 0 < ProposedDebit(m)
  <2> DEFINE p == Greater(MidpointDebit(m), 5 * CENT)
  <2>1. p \in Int /\ 0 < p
    BY <1>5 DEF Greater, CENT
  <2> HIDE DEF p
  <2>2. round_debit_up(p, FALSE) \in Int /\ 0 < round_debit_up(p, FALSE)
    BY <2>1, RoundDebitUp
  <2> QED
    BY <2>2, Zenon DEF ProposedDebit, p
<1> QED
  BY <1>5, <1>6, <1>7

LEMMA FirstMomentIsAMoment == FirstMoment(Moments) \in Moments
<1>1. \E s \in Moments : \A t \in Moments : s <= t
  BY PricingConstants, SmallestOfNaturals
<1> QED
  BY <1>1 DEF FirstMoment

LEMMA InvInit == Init => PricingInv
<1> SUFFICES ASSUME Init PROVE PricingInv
  OBVIOUS
<1>1. PricingTypeOK
  <2>1. kill \in BOOLEAN
    BY DEF Init
  <2>2. day \in FirstDay .. LastDay /\ 0 \in 0 .. LastDay
    BY PricingConstants DEF Init
  <2>3. 0 \in 0 .. 5 * DOLLAR /\ 0 \in 0 .. MaxReprices /\ 0 \in 0 .. MAX_EXIT_ORDER_CHAINS
    BY PricingConstants DEF DOLLAR, CENT
  <2> QED
    BY <2>1, <2>2, <2>3, FirstMomentIsAMoment DEF Init, PricingTypeOK, Phases, NoDate
<1> QED
  BY <1>1 DEF Init, PricingInv, NothingIsRefusedLate, EntryInv, CandInv, ExitInv, DateInv

\* What the schedule says of the day of a scan.
LEMMA ScanDay ==
    ASSUME PricingTypeOK, phase = "screening", Due("entry_scan")
    PROVE  /\ profile = "canary" => day = CANARY_DATE
           /\ profile = "earnings" => day \in EVENT_DAYS
<1>1. Scheduled = "entry_scan"
  BY DEF Due, Positions
<1>2. OpenDate = NoDate
  BY DEF OpenDate
<1>3. CASE profile = "canary"
  BY <1>1, <1>2, <1>3 DEF Scheduled, action_for_time, CanaryAction, OtherDayAction
<1>4. CASE profile # "canary"
  BY <1>1, <1>2, <1>4 DEF Scheduled, action_for_time, EarningsAction
<1> QED
  BY <1>3, <1>4

LEMMA InvScan ==
    ASSUME PricingInv, NEW m \in Markets, Scan(m)
    PROVE  PricingInv'
<1>1. PICK c \in Evaluate(m) :
        /\ cand' = c /\ seen' = m /\ budget' = c.risk_budget
        /\ entry' = EntryArguments(c)
        /\ phase' = IF CandidateIsSound(c) /\ ValidMleg(EntryArguments(c), "entry")
                      THEN "candidate" ELSE "refused"
  BY DEF Scan
<1>2. /\ phase = "screening" /\ Due("entry_scan") /\ m.equity > KILL_EQUITY /\ date' = day
      /\ profile' = profile /\ day' = day /\ clock' = clock /\ kill' = kill
      /\ exit' = exit /\ reprices' = reprices /\ exits' = exits
  BY DEF Scan, time
<1>3. PricingTypeOK
  BY DEF PricingInv
<1>4. /\ profile = "canary" => c \in evaluate_intraday_symbol(m)
      /\ profile = "earnings" => c \in evaluate_symbol(m)
      /\ profile \in {"earnings", "canary"}
  BY <1>1, <1>3 DEF Evaluate, PricingTypeOK
<1>5. /\ Sound(c)
      /\ profile = "canary" => c.width = WING_WIDTH /\ c.risk_budget = MAXIMUM_LOSS
      /\ profile = "earnings" => Minimum(c.width) <= c.natural_credit /\ c.risk_budget > KILL_EQUITY
  BY <1>2, <1>4, EarningsIsSound, CanaryIsSound
<1> DEFINE args == EntryArguments(c)
<1>6. /\ CandidateIsSound(c) /\ args \in Payloads /\ Condor(args) /\ Opens(args)
      /\ WingWidth(args) = c.width /\ ValidPrice(args.price, WingWidth(args), "entry")
  BY <1>5, SoundCandidate
<1>7. ValidMleg(args, "entry")
  <2> HIDE DEF args
  <2> QED
    BY <1>6, CondorIsValid
<1>8. phase' = "candidate"
  BY <1>1, <1>6, <1>7
<1>9. c # None /\ entry' # None
  BY <1>1, <1>4, <1>6, NoneIsNoRecord
<1>10. day \in FirstDay .. LastDay /\ day \in Nat /\ day # NoDate
  BY <1>3, PricingConstants DEF PricingTypeOK, NoDate
<1>11. PricingTypeOK'
  BY <1>1, <1>2, <1>3, <1>5, <1>8, <1>9, <1>10 DEF PricingTypeOK, Phases, Sound, NoDate
<1>12. EntryInv'
  <2> HIDE DEF args
  <2>1. entry' = args
    BY <1>1 DEF args
  <2> QED
    BY <1>1, <1>2, <1>5, <1>6, <2>1 DEF EntryInv
<1>13. CandInv'
  <2>1. (cand \in Evaluate(seen))'
    BY <1>1, <1>2 DEF Evaluate
  <2> QED
    BY <1>1, <1>2, <1>5, <1>6, <2>1 DEF CandInv, Sound
<1>14. ExitInv' /\ NothingIsRefusedLate'
  BY <1>8 DEF ExitInv, NothingIsRefusedLate
<1>15. DateInv'
  BY <1>2, <1>3, <1>10, ScanDay DEF DateInv
<1> QED
  BY <1>11, <1>12, <1>13, <1>14, <1>15 DEF PricingInv

LEMMA InvSubmitEntry ==
    ASSUME PricingInv, NEW m \in Markets, NEW lag \in Lags, NEW equity, SubmitEntry(m, equity, lag)
    PROVE  PricingInv'
<1>1. /\ phase = "candidate"
      /\ entry \in Payloads /\ Condor(entry) /\ Opens(entry)
      /\ ValidPrice(entry.price, WingWidth(entry), "entry")
  BY DEF SubmitEntry, PricingInv, EntryInv
<1>2. ValidMleg(entry, "entry")
  BY <1>1, CondorIsValid
<1>3. lag <= PERMIT_TTL
  BY PricingConstants DEF PERMIT_TTL
<1>4. phase' = "entry"
  BY <1>2, <1>3 DEF SubmitEntry, EntryPermitIssued, Dispatched, EntryPermit, PermitCovers,
     AGENT_MUTATION_TOOLS
<1>5. /\ reprices' = 0 /\ seen' = None
      /\ UNCHANGED <<time, kill, trade, cand, entry, exit, exits>>
  BY DEF SubmitEntry
<1>6. PricingTypeOK'
  <2>1. kill' \in BOOLEAN /\ reprices' \in 0 .. MaxReprices /\ entry' # None
    BY <1>1, <1>5, PricingConstants, NoneIsNoRecord DEF PricingInv, PricingTypeOK
  <2> QED
    BY <1>1, <1>4, <1>5, <2>1 DEF PricingInv, PricingTypeOK, Phases, time, trade
<1>7. EntryInv' /\ CandInv' /\ ExitInv' /\ DateInv' /\ NothingIsRefusedLate'
  BY <1>1, <1>4, <1>5
  DEF PricingInv, EntryInv, CandInv, ExitInv, DateInv, NothingIsRefusedLate, time, trade
<1> QED
  BY <1>6, <1>7 DEF PricingInv

\* The price of a replacement stays within the limits of an entry.
LEMMA RepricedEntry ==
    ASSUME PricingInv, phase = "entry"
    PROVE  LET credit == Greater(EntryFloor, Credit(entry) - 5 * CENT) IN
           /\ credit \in Int /\ Credit(entry) \in Int /\ EntryFloor <= credit
           /\ credit < Credit(entry) =>
                ValidPrice(0 - credit, WingWidth(entry), "entry")
<1>1. /\ entry \in Payloads /\ Condor(entry)
      /\ ValidPrice(entry.price, WingWidth(entry), "entry")
      /\ profile = "canary" => WingWidth(entry) = WING_WIDTH
      /\ cand.natural_credit \in Int
      /\ profile = "earnings" => Minimum(WingWidth(entry)) <= cand.natural_credit
      /\ profile \in {"earnings", "canary"}
  BY DEF PricingInv, PricingTypeOK, EntryInv, CandInv
<1>2. /\ WingWidth(entry) \in Int /\ WingWidth(entry) <= 1000 /\ Credit(entry) \in Int
      /\ Credit(entry) = 0 - entry.price /\ entry.price \in Int
  BY <1>1, WidthIsInteger DEF Credit, Payloads, DOLLAR, CENT
<1>3. EntryFloor \in Int /\ Minimum(WingWidth(entry)) <= EntryFloor /\ 40 <= EntryFloor
  <2>1. CASE profile = "canary"
    BY <1>1, <2>1
    DEF EntryFloor, Minimum, Greater, WING_WIDTH, MINIMUM_PROPOSED_CREDIT, DOLLAR, CENT
  <2>2. CASE profile = "earnings"
    BY <1>1, <1>2, <2>2 DEF EntryFloor, Minimum, Greater, CENT
  <2> QED
    BY <1>1, <2>1, <2>2
<1> DEFINE credit == Greater(EntryFloor, Credit(entry) - 5 * CENT)
<1>4. credit \in Int /\ EntryFloor <= credit
  BY <1>2, <1>3 DEF Greater, CENT
<1>5. ASSUME credit < Credit(entry)
      PROVE  ValidPrice(0 - credit, WingWidth(entry), "entry")
  <2>1. Credit(entry) < WingWidth(entry)
    BY <1>1, <1>2 DEF ValidPrice
  <2>2. Minimum(WingWidth(entry)) \in Int
    BY <1>2 DEF Minimum, Greater, CENT
  <2> HIDE DEF credit
  <2>3. Minimum(WingWidth(entry)) <= credit /\ 40 <= credit /\ credit < WingWidth(entry)
    BY <1>2, <1>3, <1>4, <1>5, <2>1, <2>2
  <2> QED
    BY <1>2, <1>4, <2>3 DEF ValidPrice, Minimum, DOLLAR, CENT
<1> QED
  BY <1>2, <1>4, <1>5

LEMMA InvRepriceEntry ==
    ASSUME PricingInv, RepriceEntry
    PROVE  PricingInv'
<1> DEFINE credit == Greater(EntryFloor, Credit(entry) - 5 * CENT)
           args   == [entry EXCEPT !.price = 0 - credit]
<1>1. /\ phase = "entry" /\ credit < Credit(entry) /\ reprices < MaxReprices
      /\ reprices' = reprices + 1
      /\ UNCHANGED <<time, kill, trade, seen, cand, exit, exits>>
      /\ IF ValidMleg(args, "entry") /\ ReplacementGoesOut(args)
           THEN entry' = args /\ UNCHANGED phase
           ELSE phase' = "refused" /\ UNCHANGED entry
  BY DEF RepriceEntry
<1>2. credit \in Int /\ ValidPrice(0 - credit, WingWidth(entry), "entry")
  BY <1>1, RepricedEntry
<1>3. entry \in Payloads /\ Condor(entry) /\ Opens(entry)
  BY <1>1 DEF PricingInv, EntryInv
<1> HIDE DEF credit
<1>4. /\ args \in Payloads /\ args.price = 0 - credit
      /\ WingWidth(args) = WingWidth(entry) /\ Condor(args) /\ Opens(args)
  BY <1>2, <1>3, Replaced
<1> HIDE DEF args
<1>5. ValidMleg(args, "entry")
  BY <1>2, <1>4, CondorIsValid
<1>6. ReplacementGoesOut(args)
  BY DEF ReplacementGoesOut, Dispatched, SystemPermit, PermitCovers, SYSTEM_MUTATION_TOOLS,
     PERMIT_TTL
<1>7. entry' = args /\ phase' = "entry"
  BY <1>1, <1>5, <1>6
<1>8. PricingTypeOK'
  <2>1. reprices' \in 0 .. MaxReprices
    BY <1>1, PricingConstants DEF PricingInv, PricingTypeOK
  <2>2. entry' # None
    BY <1>4, <1>7, NoneIsNoRecord
  <2> QED
    BY <1>1, <1>7, <2>1, <2>2 DEF PricingInv, PricingTypeOK, Phases, time, trade
<1>9. EntryInv' /\ CandInv'
  BY <1>1, <1>2, <1>4, <1>7 DEF PricingInv, EntryInv, CandInv, time, trade
<1>10. ExitInv' /\ DateInv' /\ NothingIsRefusedLate'
  BY <1>1, <1>7 DEF PricingInv, ExitInv, DateInv, NothingIsRefusedLate, time, trade
<1> QED
  BY <1>8, <1>9, <1>10 DEF PricingInv

LEMMA InvStartExit ==
    ASSUME PricingInv, NEW m \in Markets, NEW lag \in Lags, StartExit(m, lag)
    PROVE  PricingInv'
<1> DEFINE aggressive == profile = "canary" /\ Aggressive
           debit == IF aggressive THEN WingWidth(entry) ELSE ProposedDebit(m)
           args  == ExitArguments(entry, debit)
<1>1. /\ phase = "open" /\ exits < MAX_EXIT_ORDER_CHAINS
      /\ aggressive \/ ExitQuoted(m, lag)
      /\ phase' = IF /\ ExitIsBuildable(entry, debit)
                     /\ ValidMleg(args, "exit")
                     /\ SystemPermitIssued("place_option_order", "exit", args)
                     /\ Dispatched(SystemPermit("place_option_order", "exit", args),
                                   "place_option_order", "system", args, lag)
                    THEN "exit" ELSE "refused"
      /\ exit' = args /\ exits' = exits + 1 /\ reprices' = 0
      /\ UNCHANGED <<time, kill, trade, seen, cand, entry>>
  BY DEF StartExit
<1>2. entry \in Payloads /\ Condor(entry) /\ Opens(entry)
  BY <1>1 DEF PricingInv, EntryInv
<1>3. debit \in Int /\ 0 < debit
  BY <1>1, <1>2, WidthIsInteger, DebitsAreIntegers
<1> HIDE DEF debit
<1>4. /\ args \in Payloads /\ Condor(args) /\ Closes(args)
      /\ WingWidth(args) = WingWidth(entry)
      /\ args.price = Lesser(debit, WingWidth(entry))
      /\ WingWidth(entry) \in Int /\ 0 < WingWidth(entry)
  BY <1>2, <1>3, ExitOfCondor
<1>5. ExitIsBuildable(entry, debit)
  BY <1>2, <1>3, <1>4 DEF ExitIsBuildable, Condor
<1> HIDE DEF args
<1>6. ValidMleg(args, "exit")
  <2>1. ValidPrice(args.price, WingWidth(args), "exit")
    BY <1>3, <1>4 DEF ValidPrice, Lesser
  <2> QED
    BY <1>4, <2>1, CondorIsValid
<1>7. lag <= PERMIT_TTL
  BY PricingConstants DEF PERMIT_TTL
<1>8. phase' = "exit"
  BY <1>1, <1>5, <1>6, <1>7 DEF SystemPermitIssued, Dispatched, SystemPermit, PermitCovers,
     SYSTEM_MUTATION_PURPOSES, SYSTEM_MUTATION_TOOLS
<1>9. PricingTypeOK'
  <2>1. kill' \in BOOLEAN /\ reprices' \in 0 .. MaxReprices /\ exit' # None /\ entry' # None
    BY <1>1, <1>2, <1>4, PricingConstants, NoneIsNoRecord DEF PricingInv, PricingTypeOK
  <2>2. exits' \in 0 .. MAX_EXIT_ORDER_CHAINS /\ exits' > 0
    BY <1>1, PricingConstants DEF PricingInv, PricingTypeOK
  <2> QED
    BY <1>1, <1>8, <2>1, <2>2 DEF PricingInv, PricingTypeOK, Phases, time, trade
<1>10. ExitInv'
  BY <1>1, <1>3, <1>4 DEF ExitInv, Lesser
<1>11. EntryInv' /\ CandInv' /\ DateInv' /\ NothingIsRefusedLate'
  BY <1>1, <1>8 DEF PricingInv, EntryInv, CandInv, DateInv, NothingIsRefusedLate, time, trade
<1> QED
  BY <1>9, <1>10, <1>11 DEF PricingInv

\* A repriced exit stays within the width.
LEMMA RepricedExit ==
    ASSUME PricingInv, NEW m \in Markets, NEW lag, RepriceExit(m, lag)
    PROVE  /\ exit' \in Payloads /\ exit.price < exit'.price /\ exit'.price <= WingWidth(entry)
           /\ phase = "exit" /\ reprices < MaxReprices /\ reprices' = reprices + 1
           /\ UNCHANGED <<time, kill, phase, trade, seen, cand, entry, exits>>
<1> DEFINE target == Lesser(WingWidth(entry), NaturalDebit(m))
           debit  == IF Aggressive THEN WingWidth(entry)
                                   ELSE Lesser(target, exit.price + 5 * CENT)
           args   == [exit EXCEPT !.price = debit]
<1>1. /\ phase = "exit" /\ reprices < MaxReprices
      /\ Aggressive \/ ExitQuoted(m, lag)
      /\ debit > exit.price
      /\ exit' = args /\ reprices' = reprices + 1
      /\ UNCHANGED <<time, kill, phase, trade, seen, cand, entry, exits>>
  BY DEF RepriceExit
<1>2. /\ entry \in Payloads /\ Condor(entry) /\ exit \in Payloads /\ exit.price \in Int
  BY <1>1 DEF PricingInv, EntryInv, ExitInv, Payloads
<1>3. WingWidth(entry) \in Int
  BY <1>2, WidthIsInteger
<1>4. debit \in Int /\ debit <= WingWidth(entry)
  <2>1. CASE Aggressive
    BY <1>3, <2>1
  <2>2. CASE ~Aggressive
    <3>1. NaturalDebit(m) \in Int
      BY <1>1, <2>2, DebitsAreIntegers
    <3> QED
      BY <1>2, <1>3, <2>2, <3>1 DEF Lesser, CENT
  <2> QED
    BY <2>1, <2>2
<1> HIDE DEF debit
<1>5. args \in Payloads /\ args.price = debit
  BY <1>2, <1>4, Replaced
<1> QED
  BY <1>1, <1>2, <1>4, <1>5

LEMMA InvRepriceExit ==
    ASSUME PricingInv, NEW m \in Markets, NEW lag, RepriceExit(m, lag)
    PROVE  PricingInv'
<1>1. /\ exit' \in Payloads /\ exit'.price <= WingWidth(entry)
      /\ phase = "exit" /\ reprices < MaxReprices /\ reprices' = reprices + 1
      /\ UNCHANGED <<time, kill, phase, trade, seen, cand, entry, exits>>
  BY RepricedExit
<1>2. PricingTypeOK'
  <2>1. kill' \in BOOLEAN /\ reprices' \in 0 .. MaxReprices /\ exit' # None
    BY <1>1, PricingConstants, NoneIsNoRecord DEF PricingInv, PricingTypeOK
  <2> QED
    BY <1>1, <2>1 DEF PricingInv, PricingTypeOK, time, trade
<1>3. EntryInv' /\ CandInv' /\ ExitInv' /\ DateInv' /\ NothingIsRefusedLate'
  BY <1>1 DEF PricingInv, EntryInv, CandInv, ExitInv, DateInv, NothingIsRefusedLate, time, trade
<1> QED
  BY <1>2, <1>3 DEF PricingInv

LEMMA InvAdvance ==
    ASSUME PricingInv, Advance
    PROVE  PricingInv'
<1>1. /\ UNCHANGED <<profile, kill, phase, date, seen, cand, entry, exit, budget, reprices, exits>>
      /\ \/ day' = day /\ clock' \in {t \in Moments : t > clock}
         \/ day < LastDay /\ day' = day + 1 /\ clock' = FirstMoment(Moments)
  BY DEF Advance
<1>2. /\ day' \in FirstDay .. LastDay /\ day' >= day /\ clock' \in Moments
      /\ day \in Int /\ day' \in Int /\ date \in Int
  BY <1>1, PricingConstants, FirstMomentIsAMoment DEF PricingInv, PricingTypeOK
<1>3. PricingTypeOK'
  <2>1. kill' \in BOOLEAN
    BY <1>1 DEF PricingInv, PricingTypeOK
  <2> QED
    BY <1>1, <1>2, <2>1 DEF PricingInv, PricingTypeOK
<1>4. EntryInv' /\ CandInv' /\ ExitInv' /\ NothingIsRefusedLate'
  <2>1. (cand \in Evaluate(seen))' <=> cand \in Evaluate(seen)
    BY <1>1 DEF Evaluate
  <2> QED
    BY <1>1, <2>1 DEF PricingInv, EntryInv, CandInv, ExitInv, NothingIsRefusedLate
<1>5. DateInv'
  BY <1>1, <1>2 DEF PricingInv, DateInv
<1> QED
  BY <1>3, <1>4, <1>5 DEF PricingInv

\* The steps that only move the run on.
LEMMA InvOtherSteps ==
    ASSUME PricingInv,
           \/ Kill \/ RejectCandidate \/ CancelEntry \/ FillEntry
           \/ ExhaustExits \/ ExitDies \/ FillExit
    PROVE  PricingInv'
<1> USE DEF PricingInv, PricingTypeOK, Phases, NothingIsRefusedLate, EntryInv, CandInv, ExitInv,
            DateInv, time, trade
<1>0. 0 \in 0 .. LastDay /\ 0 \in 0 .. 5 * DOLLAR /\ 0 \in 0 .. MaxReprices
  BY PricingConstants DEF DOLLAR, CENT
<1>1. CASE Kill
  <2>1. kill' \in BOOLEAN
    BY <1>1 DEF Kill
  <2>2. /\ UNCHANGED <<time, date, seen, cand, entry, exit, budget, reprices, exits>>
        /\ phase' \in {"no_trade", phase} /\ phase' # "candidate"
    BY <1>1 DEF Kill
  <2> QED
    BY <2>1, <2>2
<1>2. CASE RejectCandidate
  <2>1. kill' \in BOOLEAN
    BY <1>2 DEF RejectCandidate
  <2> QED
    BY <1>0, <1>2, <2>1 DEF RejectCandidate, NoDate
<1>3. CASE CancelEntry
  <2>1. kill' \in BOOLEAN
    BY <1>3 DEF CancelEntry
  <2> QED
    BY <1>3, <2>1 DEF CancelEntry
<1>4. CASE FillEntry
  <2>1. kill' \in BOOLEAN
    BY <1>4 DEF FillEntry
  <2> QED
    BY <1>0, <1>4, <2>1 DEF FillEntry
<1>5. CASE ExhaustExits
  <2>1. kill' \in BOOLEAN
    BY <1>5 DEF ExhaustExits
  <2> QED
    BY <1>5, <2>1 DEF ExhaustExits
<1>6. CASE ExitDies
  <2>1. kill' \in BOOLEAN
    BY <1>6 DEF ExitDies
  <2> QED
    BY <1>6, <2>1 DEF ExitDies
<1>7. CASE FillExit
  <2>1. kill' \in BOOLEAN
    BY <1>7 DEF FillExit
  <2> QED
    BY <1>7, <2>1 DEF FillExit
<1> QED
  BY <1>1, <1>2, <1>3, <1>4, <1>5, <1>6, <1>7

LEMMA InvStutter == PricingInv /\ UNCHANGED vars => PricingInv'
<1> SUFFICES ASSUME PricingInv, UNCHANGED vars PROVE PricingInv'
  OBVIOUS
<1>1. kill' \in BOOLEAN
  BY DEF vars, PricingInv, PricingTypeOK
<1>2. (cand \in Evaluate(seen))' <=> cand \in Evaluate(seen)
  BY DEF vars, Evaluate
<1> QED
  BY <1>1, <1>2 DEF vars, PricingInv, PricingTypeOK, NothingIsRefusedLate, EntryInv, CandInv,
     ExitInv, DateInv

LEMMA InvNext == PricingInv /\ [Next]_vars => PricingInv'
<1> SUFFICES ASSUME PricingInv, Next PROVE PricingInv'
  BY InvStutter
<1>1. CASE Advance
  BY <1>1, InvAdvance
<1>2. CASE \E m \in Markets : Scan(m)
  BY <1>2, InvScan
<1>3. CASE \E m \in Markets : \E lag \in Lags : Cycle(m, lag)
  BY <1>3, InvSubmitEntry, InvStartExit, InvRepriceExit DEF Cycle
<1>4. CASE RepriceEntry
  BY <1>4, InvRepriceEntry
<1>5. CASE \/ Kill \/ RejectCandidate \/ CancelEntry \/ FillEntry
           \/ ExhaustExits \/ ExitDies \/ FillExit
  BY <1>5, InvOtherSteps
<1> QED
  BY <1>1, <1>2, <1>3, <1>4, <1>5 DEF Next

LEMMA Invariant == Spec => []PricingInv
  BY InvInit, InvNext, PTL DEF Spec

-----------------------------------------------------------------------------
(* The properties.                                                           *)

\* The loss is bounded by the limits on the price: for the canary one dollar of wing less
\* twenty cents of credit, for an earnings trade nine tenths of at most five dollars of
\* wing, and the budget of an account that may still trade is larger.
LEMMA LossIsBounded == PricingInv => LossWithinBudget
<1> SUFFICES ASSUME PricingInv PROVE LossWithinBudget
  OBVIOUS
<1>1. budget \in Int /\ profile \in {"earnings", "canary"}
  BY DEF PricingInv, PricingTypeOK
<1>2. ASSUME phase \in {"entry", "open", "exit", "flat"}
      PROVE  /\ WingWidth(entry) \in Int /\ Credit(entry) \in Int
             /\ WingWidth(entry) - Credit(entry) <= budget
             /\ profile = "canary" => WingWidth(entry) - Credit(entry) <= MAXIMUM_LOSS
  <2>1. /\ entry \in Payloads /\ Condor(entry)
        /\ ValidPrice(entry.price, WingWidth(entry), "entry")
        /\ profile = "canary" => WingWidth(entry) = WING_WIDTH /\ budget = MAXIMUM_LOSS
        /\ profile = "earnings" => budget > KILL_EQUITY
    BY <1>2 DEF PricingInv, EntryInv
  <2>2. /\ WingWidth(entry) \in Int /\ WingWidth(entry) <= 1000
        /\ entry.price \in Int /\ Credit(entry) = 0 - entry.price
    BY <2>1, WidthIsInteger DEF Payloads, Credit, DOLLAR, CENT
  <2>3. Minimum(WingWidth(entry)) <= Credit(entry)
    BY <2>1, <2>2 DEF ValidPrice, Minimum
  <2>4. CASE profile = "canary"
    <3>1. WingWidth(entry) = 200 /\ budget = 160 /\ MAXIMUM_LOSS = 160
      BY <2>1, <2>4 DEF WING_WIDTH, MAXIMUM_LOSS, DOLLAR, CENT
    <3> QED
      BY <2>2, <2>3, <3>1 DEF Minimum, Greater, CENT
  <2>5. CASE profile = "earnings"
    <3>1. budget > 990
      BY <2>1, <2>5 DEF KILL_EQUITY
    <3>2. Credit(entry) >= WingWidth(entry) \div 10 /\ Credit(entry) >= 40
      BY <2>2, <2>3 DEF Minimum, Greater, CENT
    <3> QED
      BY <1>1, <2>2, <2>5, <3>1, <3>2
  <2> QED
    BY <1>1, <2>2, <2>4, <2>5
<1>3. ASSUME phase \in {"exit", "flat"}
      PROVE  exit.price - Credit(entry) <= budget
  <2>1. exit.price \in Int /\ exit.price <= WingWidth(entry)
    BY <1>3 DEF PricingInv, ExitInv, Payloads
  <2> QED
    BY <1>1, <1>2, <1>3, <2>1
<1> QED
  BY <1>2, <1>3 DEF LossWithinBudget

\* On the market it was found in, a canary candidate is found again: each of its
\* contracts is listed once, as itself.
LEMMA CanaryPassesAgain ==
    ASSUME NEW m \in Markets, NEW c \in evaluate_intraday_symbol(m)
    PROVE  c \in evaluate_intraday_candidate_structure(c, m)
<1>1. PICK st : /\ c = CanaryCandidate(st) /\ CanaryUnderlyingOk(m.under)
                /\ st \in CanaryStructures(m) /\ CanaryStructureOk(st, m)
                /\ Four(st, m)
  BY CanaryCandidateIs
<1>2. c.legs = st
  BY <1>1 DEF CanaryCandidate
<1> DEFINE Same(leg) == {s \in m.front : s.right = leg.right /\ s.strike = leg.strike /\ s.exp = leg.exp}
           fresh == [r \in DOMAIN st |-> CHOOSE s \in Same(st[r]) : TRUE]
<1>3. /\ DOMAIN st = {"sp", "sc", "lp", "lc"}
      /\ \A r \in DOMAIN st : st[r] \in m.front
  BY <1>1 DEF Four
<1>4. \A r \in DOMAIN st : Same(st[r]) = {st[r]}
  <2>1. ASSUME NEW r \in DOMAIN st, NEW s \in m.front,
               s.right = st[r].right, s.strike = st[r].strike, s.exp = st[r].exp
        PROVE  s = st[r]
    <3>1. Symbol(s) = Symbol(st[r])
      BY <2>1 DEF Symbol
    <3> QED
      BY <1>3, <3>1, MarketTypes
  <2> QED
    BY <1>3, <2>1
<1>5. \A r \in DOMAIN st : Cardinality(Same(st[r])) = 1
  BY <1>4, FS_Singleton
<1>6. fresh = st
  <2>1. \A r \in DOMAIN st : (CHOOSE s \in Same(st[r]) : TRUE) = st[r]
    BY <1>4
  <2>2. st = [r \in DOMAIN st |-> st[r]]
    BY <1>1 DEF Four
  <2> QED
    BY <2>1, <2>2
<1>7. /\ st.sp.strike < Mid(m.under) /\ Mid(m.under) < st.sc.strike
      /\ st.sp.strike - st.lp.strike = WING_WIDTH
      /\ st.lc.strike - st.sc.strike = WING_WIDTH
  <2>1. /\ st.sp.strike \in Int /\ st.lp.strike \in Int
        /\ st.sc.strike \in Int /\ st.lc.strike \in Int /\ Mid(m.under) \in Int
    BY <1>1, FourTypes, SnapshotTypes
  <2> QED
    BY <1>1, <2>1 DEF CanaryStructures, WING_WIDTH, DOLLAR, CENT
<1> DEFINE again == [r \in DOMAIN c.legs |-> CHOOSE s \in Same(c.legs[r]) : TRUE]
<1>8. again = st /\ \A r \in DOMAIN c.legs : Cardinality(Same(c.legs[r])) = 1
  BY <1>2, <1>5, <1>6
<1>9. /\ c.legs.sp.strike < Mid(m.under) /\ Mid(m.under) < c.legs.sc.strike
      /\ again.sp.strike - again.lp.strike = WING_WIDTH
      /\ again.lc.strike - again.sc.strike = WING_WIDTH
      /\ CanaryStructureOk(again, m) /\ CanaryCandidate(again) = c
  <2> HIDE DEF again
  <2> QED
    BY <1>1, <1>2, <1>7, <1>8
<1>10. evaluate_intraday_candidate_structure(c, m) = {CanaryCandidate(again)}
  BY <1>1, <1>8, <1>9, Zenon DEF evaluate_intraday_candidate_structure
<1> HIDE DEF again
<1> QED
  BY <1>9, <1>10

\* Each contract of a market is listed once: two of its structures on the same contracts
\* are the same, and so are the natural credits.
LEMMA SameLegs ==
    ASSUME NEW m \in Markets, NEW st, NEW other, Four(st, m), Four(other, m),
           \A r \in DOMAIN other : Symbol(other[r]) = Symbol(st[r])
    PROVE  NaturalCredit(other) = NaturalCredit(st)
<1>1. /\ DOMAIN other = {"sp", "sc", "lp", "lc"}
      /\ {st.sp, st.sc, st.lp, st.lc} \subseteq m.front
      /\ {other.sp, other.sc, other.lp, other.lc} \subseteq m.front
  BY DEF Four
<1>2. /\ Symbol(other.sp) = Symbol(st.sp) /\ Symbol(other.sc) = Symbol(st.sc)
      /\ Symbol(other.lp) = Symbol(st.lp) /\ Symbol(other.lc) = Symbol(st.lc)
  BY <1>1
<1>3. other.sp = st.sp /\ other.sc = st.sc /\ other.lp = st.lp /\ other.lc = st.lc
  BY <1>1, <1>2, MarketTypes
<1> QED
  BY <1>3 DEF NaturalCredit

\* So an earnings candidate below its natural credit is below that of every candidate on
\* the same contracts, and the fresh check turns it away.
LEMMA BelowNaturalIsRefused ==
    ASSUME NEW st, Four(st, seen), seen \in Markets,
           cand.legs = st, cand.natural_credit = NaturalCredit(st),
           Credit(entry) \in Int, Credit(entry) < NaturalCredit(st)
    PROVE  ~FreshEarnings(seen)
<1> SUFFICES ASSUME NEW fresh \in evaluate_symbol(seen),
                    \A r \in DOMAIN fresh.legs : Symbol(fresh.legs[r]) = Symbol(cand.legs[r]),
                    fresh.natural_credit <= Credit(entry)
             PROVE  FALSE
  BY DEF FreshEarnings
<1>1. PICK other : /\ fresh = Candidate(other, RiskBudget(seen.equity)) /\ Four(other, seen)
  BY EarningsCandidate
<1>2. fresh.legs = other /\ fresh.natural_credit = NaturalCredit(other)
  BY <1>1 DEF Candidate
<1>3. NaturalCredit(other) = NaturalCredit(st)
  BY <1>1, <1>2, SameLegs
<1>4. NaturalCredit(st) \in Int
  BY FourTypes
<1> QED
  BY <1>2, <1>3, <1>4

LEMMA FreshCheckAgrees == PricingInv => UnchangedMarketPasses
<1> SUFFICES ASSUME PricingInv, phase = "candidate"
             PROVE  FreshRevalidate(seen)
                      <=> ~(profile = "earnings" /\ Credit(entry) < cand.natural_credit)
  BY DEF UnchangedMarketPasses
<1>1. /\ seen \in Markets /\ cand \in Evaluate(seen) /\ entry = EntryArguments(cand)
      /\ seen.equity > KILL_EQUITY /\ profile \in {"earnings", "canary"}
  BY DEF PricingInv, PricingTypeOK, CandInv
<1>2. Credit(entry) = 0 - (0 - cand.proposed_credit)
  BY <1>1 DEF Credit, EntryArguments
<1>3. CASE profile = "canary"
  <2>1. cand \in evaluate_intraday_symbol(seen)
    BY <1>1, <1>3 DEF Evaluate
  <2>2. PICK st : /\ cand = CanaryCandidate(st) /\ CanaryStructureOk(st, seen) /\ Four(st, seen)
    BY <1>1, <2>1, CanaryCandidateIs
  <2>3. MidpointCredit(st) \in Int /\ PennyCombination(st) \in BOOLEAN
    BY <1>1, <2>2, FourTypes
  <2>4. /\ cand.midpoint_credit = MidpointCredit(st)
        /\ cand.proposed_credit =
             round_credit_down(Greater(MidpointCredit(st), 0), PennyCombination(st))
        /\ cand.maximum_loss = WING_WIDTH - cand.proposed_credit
    BY <2>2 DEF CanaryCandidate
  <2>5. /\ MidpointCredit(st) > 0 /\ MINIMUM_PROPOSED_CREDIT <= cand.proposed_credit
        /\ cand.maximum_loss <= MAXIMUM_LOSS /\ cand.maximum_loss <= seen.buyingPower
    BY <2>2, <2>4 DEF CanaryStructureOk, CanaryCandidate
  <2>6. Greater(MidpointCredit(st), 0) = MidpointCredit(st)
    BY <2>3, <2>5 DEF Greater
  <2>7. cand.proposed_credit \in Int /\ cand.proposed_credit <= cand.midpoint_credit
    BY <2>3, <2>4, <2>6, RoundCreditDown
  <2>8. Credit(entry) = cand.proposed_credit
    BY <1>2, <2>7
  <2>9. WING_WIDTH - Credit(entry) <= Lesser(MAXIMUM_LOSS, seen.buyingPower)
    BY <2>4, <2>5, <2>8 DEF Lesser
  <2>10. FreshIntraday(seen)
    BY <1>1, <2>1, <2>5, <2>7, <2>8, <2>9, CanaryPassesAgain DEF FreshIntraday
  <2> QED
    BY <1>3, <2>10 DEF FreshRevalidate
<1>4. CASE profile = "earnings"
  <2>1. cand \in evaluate_symbol(seen)
    BY <1>1, <1>4 DEF Evaluate
  <2>2. PICK st : /\ cand = Candidate(st, RiskBudget(seen.equity))
                  /\ EarningsStructureOk(st, seen) /\ Four(st, seen)
    BY <1>1, <2>1, EarningsCandidate
  <2>3. MidpointCredit(st) \in Int /\ PennyCombination(st) \in BOOLEAN /\ NaturalCredit(st) \in Int
    BY <1>1, <2>2, FourTypes
  <2>4. /\ cand.midpoint_credit = MidpointCredit(st) /\ cand.natural_credit = NaturalCredit(st)
        /\ cand.proposed_credit = round_credit_down(MidpointCredit(st), PennyCombination(st))
        /\ cand.maximum_loss = cand.width - cand.proposed_credit
        /\ cand.risk_budget = RiskBudget(seen.equity)
    BY <2>2 DEF Candidate
  <2>5. cand.maximum_loss <= RiskBudget(seen.equity)
    BY <2>2, <2>4 DEF EarningsStructureOk
  <2>6. cand.proposed_credit \in Int /\ cand.proposed_credit <= cand.midpoint_credit
    BY <2>3, <2>4, RoundCreditDown
  <2>7. Credit(entry) = cand.proposed_credit
    BY <1>2, <2>6
  <2>8. CASE cand.natural_credit <= Credit(entry)
    <3>1. /\ \A r \in DOMAIN cand.legs : Symbol(cand.legs[r]) = Symbol(cand.legs[r])
          /\ cand.natural_credit <= Credit(entry) /\ Credit(entry) <= cand.midpoint_credit
          /\ cand.width - Credit(entry) <= RiskBudget(seen.equity)
      BY <2>4, <2>5, <2>6, <2>7, <2>8
    <3>2. FreshEarnings(seen)
      BY <2>1, <3>1 DEF FreshEarnings
    <3>3. ~(Credit(entry) < cand.natural_credit)
      BY <2>3, <2>4, <2>6, <2>7, <2>8
    <3> QED
      BY <1>4, <3>2, <3>3 DEF FreshRevalidate
  <2>9. CASE Credit(entry) < cand.natural_credit
    <3>1. cand.legs = st
      BY <2>2 DEF Candidate
    <3>2. Credit(entry) \in Int /\ Credit(entry) < NaturalCredit(st)
      BY <2>4, <2>6, <2>7, <2>9
    <3>3. ~FreshEarnings(seen)
      BY <1>1, <2>2, <2>4, <3>1, <3>2, BelowNaturalIsRefused
    <3> QED
      BY <1>4, <2>9, <3>3 DEF FreshRevalidate
  <2> QED
    BY <2>3, <2>4, <2>6, <2>7, <2>8, <2>9
<1> QED
  BY <1>1, <1>3, <1>4

LEMMA OverdueIsScheduled == PricingInv => OverdueIsDue
<1> SUFFICES ASSUME PricingInv PROVE OverdueIsDue
  OBVIOUS
<1>1. /\ profile \in {"earnings", "canary"} /\ clock \in Nat /\ day \in Nat
      /\ {CANARY_START, CANARY_STOP, CANARY_CANCEL, CANARY_EXIT} \subseteq Nat
      /\ {ENTRY_START, STOP_NEW_ORDERS, CANCEL_ALL_UNFILLED} \subseteq Nat
      /\ CANARY_STOP < CANARY_CANCEL /\ STOP_NEW_ORDERS < CANCEL_ALL_UNFILLED
  <2>1. clock \in Nat /\ day \in Nat
    BY PricingConstants DEF PricingInv, PricingTypeOK
  <2> QED
    BY <2>1, SessionTypes, SessionOrdered, EventConfigTypes, EntryWindowOrdered
    DEF PricingInv, PricingTypeOK
<1>2. ASSUME phase \in {"entry", "open", "exit"}
      PROVE  /\ OpenDate = date /\ date # NoDate /\ date \in Nat /\ date <= day
             /\ profile = "canary" => date = CANARY_DATE
             /\ profile = "earnings" => date \in EVENT_DAYS
  <2>1. date # NoDate /\ date \in 0 .. LastDay
    BY <1>2 DEF PricingInv, PricingTypeOK
  <2>2. date \in Nat
    BY <2>1, PricingConstants
  <2> QED
    BY <1>2, <2>1, <2>2 DEF PricingInv, DateInv, OpenDate
<1>3. ASSUME phase = "entry", ~kill, day > date \/ clock >= CancelTime
      PROVE  Due("cancel_unfilled")
  <2>1. WorkingEntry
    BY <1>3 DEF WorkingEntry
  <2>2. Scheduled = "cancel_unfilled"
    <3>1. CASE day > date
      BY <1>2, <1>3, <2>1, <3>1 DEF Scheduled, action_for_time, OvernightAction
    <3>2. CASE ~(day > date) /\ profile = "canary"
      <4>1. day = CANARY_DATE /\ ~(day > OpenDate) /\ clock >= CANARY_CANCEL
        BY <1>1, <1>2, <1>3, <3>2 DEF CancelTime
      <4> QED
        BY <2>1, <3>2, <4>1 DEF Scheduled, action_for_time, CanaryAction, CanaryDayAction
    <3>3. CASE ~(day > date) /\ profile = "earnings"
      <4>1. /\ day \in EVENT_DAYS /\ ~(day > OpenDate) /\ clock >= CANCEL_ALL_UNFILLED
            /\ ~(clock <= STOP_NEW_ORDERS)
        BY <1>1, <1>2, <1>3, <3>3 DEF CancelTime
      <4> QED
        BY <2>1, <3>3, <4>1 DEF Scheduled, action_for_time, EarningsAction
    <3> QED
      BY <1>1, <3>1, <3>2, <3>3
  <2> QED
    BY <1>3, <2>2 DEF Due
<1>4. ASSUME phase \in {"open", "exit"}, MarketIsOpen
      PROVE  /\ day > date /\ clock >= NINE_FORTY_FIVE => Due("exit")
             /\ profile = "canary" /\ day = date /\ clock >= CANARY_EXIT => Due("exit")
             /\ Due("exit") => kill \/ day > date \/ profile = "canary"
  <2>1. ~WorkingEntry /\ Positions
    BY <1>4 DEF WorkingEntry, Positions
  <2>2. CASE kill
    BY <1>4, <2>1, <2>2 DEF Due
  <2>3. CASE ~kill
    <3>1. Due("exit") <=> Scheduled = "exit"
      BY <2>3 DEF Due
    <3>2. CASE day > date
      BY <1>2, <1>4, <2>1, <3>1, <3>2 DEF Scheduled, action_for_time, OvernightAction
    <3>3. CASE ~(day > date) /\ profile = "canary"
      <4>1. day = CANARY_DATE /\ ~(day > OpenDate) /\ OpenDate = CANARY_DATE
        BY <1>1, <1>2, <1>4, <3>3
      <4>2. clock >= CANARY_EXIT => Scheduled = "exit"
        BY <2>1, <3>3, <4>1 DEF Scheduled, action_for_time, CanaryAction, CanaryDayAction
      <4> QED
        BY <3>1, <3>3, <4>2
    <3>4. CASE ~(day > date) /\ profile = "earnings"
      <4>1. ~(day > OpenDate)
        BY <1>2, <1>4, <3>4
      <4>2. Scheduled # "exit"
        BY <2>1, <3>4, <4>1 DEF Scheduled, action_for_time, EarningsAction
      <4> QED
        BY <3>1, <3>4, <4>2
    <3> QED
      BY <1>1, <3>2, <3>3, <3>4
  <2> QED
    BY <2>2, <2>3
<1>5. ASSUME Due("entry_scan")
      PROVE  clock <= StopTime
  <2>1. Scheduled = "entry_scan"
    BY <1>5 DEF Due
  <2>2. ~(OpenDate # NoDate /\ day > OpenDate)
    BY <2>1 DEF Scheduled, action_for_time, OvernightAction
  <2>3. CASE profile = "canary"
    BY <2>1, <2>2, <2>3
    DEF Scheduled, action_for_time, CanaryAction, CanaryDayAction, OtherDayAction,
        InCanaryWindow, StopTime
  <2>4. CASE profile = "earnings"
    BY <2>1, <2>2, <2>4 DEF Scheduled, action_for_time, EarningsAction, StopTime
  <2> QED
    BY <1>1, <2>3, <2>4
<1> QED
  BY <1>3, <1>4, <1>5 DEF OverdueIsDue

LEMMA PriceStep ==
    ASSUME PricingInv, [Next]_vars
    PROVE  /\ phase = "entry" /\ phase' = "entry" /\ entry' # entry =>
                Credit(entry') < Credit(entry) /\ Credit(entry') >= EntryFloor
           /\ phase = "exit" /\ phase' = "exit" /\ exit' # exit =>
                exit.price < exit'.price /\ exit'.price <= WingWidth(entry)
<1>1. CASE RepriceEntry
  <2> DEFINE credit == Greater(EntryFloor, Credit(entry) - 5 * CENT)
             args   == [entry EXCEPT !.price = 0 - credit]
  <2>1. /\ phase = "entry" /\ exit' = exit /\ entry' \in {entry, args}
        /\ credit < Credit(entry)
    BY <1>1 DEF RepriceEntry
  <2>2. /\ credit \in Int /\ EntryFloor <= credit
        /\ entry \in Payloads
    BY <2>1, RepricedEntry DEF PricingInv, EntryInv
  <2> HIDE DEF credit
  <2>3. Credit(args) = credit
    BY <2>2, Replaced DEF Credit
  <2> HIDE DEF args
  <2>4. entry' # entry => Credit(entry') = credit
    BY <2>1, <2>3
  <2>5. EntryFloor \in Int
    BY <2>1
    DEF PricingInv, CandInv, EntryFloor, MINIMUM_PROPOSED_CREDIT, CENT
  <2> QED
    BY <2>1, <2>2, <2>4, <2>5
<1>2. CASE \E m \in Markets : \E lag \in Lags : RepriceExit(m, lag)
  BY <1>2, RepricedExit
<1>3. CASE \E m \in Markets : Scan(m)
  BY <1>3 DEF Scan
<1>4. CASE \E m \in Markets : \E lag \in Lags :
             StartExit(m, lag) \/ \E e \in {s.equity : s \in Markets} : SubmitEntry(m, e, lag)
  BY <1>4 DEF StartExit, SubmitEntry
<1>5. CASE \/ Advance \/ Kill \/ RejectCandidate \/ CancelEntry \/ FillEntry
           \/ ExhaustExits \/ ExitDies \/ FillExit \/ UNCHANGED vars
  BY <1>5 DEF Advance, Kill, RejectCandidate, CancelEntry, FillEntry, ExhaustExits, ExitDies,
     FillExit, vars
<1> QED
  BY <1>1, <1>2, <1>3, <1>4, <1>5 DEF Next, Cycle

-----------------------------------------------------------------------------
(* Where orders start.                                                       *)

OnTick(price, penny) == price % option_tick_size(price, penny) = 0
EntryOnTick == OnTick(Credit(entry), PennyCombination(cand.legs))
ExitOnTick == OnTick(exit.price, FALSE)
Dimes(x) == x % 20 = 0

\* Rounding down does not cross the price at which the tick changes.
LEMMA CreditOnTick ==
    ASSUME NEW p \in Int, NEW penny \in BOOLEAN
    PROVE  OnTick(round_credit_down(p, penny), penny)
<1> DEFINE r == round_credit_down(p, penny)
<1>1. r \in Int /\ r <= p /\ r % option_tick_size(p, penny) = 0
  BY RoundCreditDown
<1>2. p >= 600 => r >= 600
  BY DEF round_credit_down, option_tick_size, DOLLAR, CENT
<1> HIDE DEF r
<1>3. option_tick_size(r, penny) = option_tick_size(p, penny)
  BY <1>1, <1>2 DEF option_tick_size, DOLLAR, CENT
<1> QED
  BY <1>1, <1>3 DEF OnTick, r

\* Rounding up may reach it, and three dollars are on either tick.
LEMMA DebitOnTick ==
    ASSUME NEW p \in Int
    PROVE  OnTick(round_debit_up(p, FALSE), FALSE)
<1> DEFINE r == round_debit_up(p, FALSE)
<1>1. \/ r \in Int /\ r % 10 = 0 /\ r <= 600
      \/ r \in Int /\ r % 20 = 0 /\ r >= 600
  <2>1. CASE p < 600
    BY <2>1 DEF round_debit_up, option_tick_size, DOLLAR, CENT
  <2>2. CASE ~(p < 600)
    BY <2>2 DEF round_debit_up, option_tick_size, DOLLAR, CENT
  <2> QED
    BY <2>1, <2>2
<1> HIDE DEF r
<1>2. r \in Int /\ (r < 600 => r % 10 = 0) /\ (~(r < 600) => r % 20 = 0)
  BY <1>1
<1>3. OnTick(r, FALSE)
  <2>1. CASE r < 600
    <3>1. option_tick_size(r, FALSE) = 10
      BY <2>1 DEF option_tick_size, DOLLAR, CENT
    <3> QED
      BY <1>2, <2>1, <3>1 DEF OnTick
  <2>2. CASE ~(r < 600)
    <3>1. option_tick_size(r, FALSE) = 20
      BY <2>2 DEF option_tick_size, DOLLAR, CENT
    <3> QED
      BY <1>2, <2>2, <3>1 DEF OnTick
  <2> QED
    BY <2>1, <2>2
<1> QED
  BY <1>3, Zenon DEF r

\* A price in whole dimes is on every tick.
LEMMA DimesOnTick ==
    ASSUME NEW p \in Int, Dimes(p)
    PROVE  OnTick(p, FALSE)
<1>1. p % 10 = 0 /\ p % 20 = 0
  BY DEF Dimes
<1> QED
  BY <1>1 DEF OnTick, option_tick_size, DOLLAR, CENT

LEMMA CandidateOnTick ==
    ASSUME NEW m \in Markets, NEW c \in evaluate_symbol(m) \cup evaluate_intraday_symbol(m)
    PROVE  OnTick(c.proposed_credit, PennyCombination(c.legs))
<1>1. CASE c \in evaluate_symbol(m)
  <2>1. PICK st : c = Candidate(st, RiskBudget(m.equity)) /\ Four(st, m)
    BY <1>1, EarningsCandidate
  <2>2. MidpointCredit(st) \in Int /\ PennyCombination(st) \in BOOLEAN
    BY <2>1, FourTypes
  <2>3. /\ c.legs = st
        /\ c.proposed_credit = round_credit_down(MidpointCredit(st), PennyCombination(st))
    BY <2>1 DEF Candidate
  <2> QED
    BY <2>2, <2>3, CreditOnTick
<1>2. CASE c \in evaluate_intraday_symbol(m)
  <2>1. PICK st : c = CanaryCandidate(st) /\ Four(st, m)
    BY <1>2, CanaryCandidateIs
  <2>2. /\ Greater(MidpointCredit(st), 0) \in Int /\ PennyCombination(st) \in BOOLEAN
    BY <2>1, FourTypes DEF Greater
  <2>3. /\ c.legs = st
        /\ c.proposed_credit =
             round_credit_down(Greater(MidpointCredit(st), 0), PennyCombination(st))
    BY <2>1 DEF CanaryCandidate
  <2> QED
    BY <2>2, <2>3, CreditOnTick
<1> QED
  BY <1>1, <1>2

LEMMA CandidateInDimes ==
    ASSUME StrikesOnDimes, NEW m \in Markets,
           NEW c \in evaluate_symbol(m) \cup evaluate_intraday_symbol(m)
    PROVE  Dimes(WingWidth(EntryArguments(c)))
<1>1. PICK st : c.legs = st /\ Four(st, m)
  <2>1. CASE c \in evaluate_symbol(m)
    BY <2>1, EarningsCandidate DEF Candidate
  <2>2. CASE c \in evaluate_intraday_symbol(m)
    BY <2>2, CanaryCandidateIs DEF CanaryCandidate
  <2> QED
    BY <2>1, <2>2
<1>2. st.sp \in m.front /\ st.lp \in m.front
  BY <1>1 DEF Four
<1>3. /\ st.sp.strike \in Int /\ st.lp.strike \in Int
      /\ st.sp.strike % 20 = 0 /\ st.lp.strike % 20 = 0
  BY <1>2, SnapshotTypes DEF StrikesOnDimes, CENT
<1>4. WingWidth(EntryArguments(c)) = st.sp.strike - st.lp.strike
  BY <1>1 DEF WingWidth, EntryArguments, Leg
<1> QED
  BY <1>3, <1>4 DEF Dimes

\* What a first exit asks for: the rounded midpoint, or the width when that is less.
LEMMA ExitStartsOnTick ==
    ASSUME PricingInv, Dimes(WingWidth(entry)), NEW m \in Markets, NEW lag \in Lags,
           StartExit(m, lag)
    PROVE  ExitOnTick'
<1> DEFINE aggressive == profile = "canary" /\ Aggressive
           debit == IF aggressive THEN WingWidth(entry) ELSE ProposedDebit(m)
           p == Greater(MidpointDebit(m), 5 * CENT)
<1>1. /\ phase = "open"
      /\ aggressive \/ ExitQuoted(m, lag)
      /\ exit' = ExitArguments(entry, debit)
  BY DEF StartExit
<1>2. entry \in Payloads /\ Condor(entry) /\ Opens(entry)
  BY <1>1 DEF PricingInv, EntryInv
<1>3. WingWidth(entry) \in Int /\ OnTick(WingWidth(entry), FALSE)
  BY <1>2, WidthIsInteger, DimesOnTick
<1>4. ~aggressive => ProposedDebit(m) \in Int /\ OnTick(ProposedDebit(m), FALSE)
  <2> SUFFICES ASSUME ~aggressive
               PROVE  ProposedDebit(m) \in Int /\ OnTick(ProposedDebit(m), FALSE)
    OBVIOUS
  <2>1. MidpointDebit(m) \in Int /\ ProposedDebit(m) \in Int
    BY <1>1, DebitsAreIntegers
  <2>2. p \in Int
    BY <2>1 DEF Greater, CENT
  <2> HIDE DEF p
  <2>3. OnTick(round_debit_up(p, FALSE), FALSE)
    BY <2>2, DebitOnTick
  <2> QED
    BY <2>1, <2>3, Zenon DEF ProposedDebit, p
<1>5. debit \in Int /\ OnTick(debit, FALSE)
  BY <1>3, <1>4
<1> HIDE DEF debit
<1>6. ExitArguments(entry, debit).price = Lesser(debit, WingWidth(entry))
  BY <1>2, <1>5, ExitOfCondor
<1>7. exit'.price = debit \/ exit'.price = WingWidth(entry)
  BY <1>1, <1>6 DEF Lesser
<1> QED
  BY <1>3, <1>5, <1>7 DEF ExitOnTick

\* The price a working order started with, and the width that caps an exit.
TickInv ==
  /\ StrikesOnDimes
  /\ phase = "candidate" => EntryOnTick
  /\ phase = "entry" /\ reprices = 0 => EntryOnTick
  /\ phase \in {"candidate", "entry", "open", "exit"} => Dimes(WingWidth(entry))
  /\ phase = "exit" /\ reprices = 0 => ExitOnTick

LEMMA TickInit == StrikesOnDimes /\ Init => TickInv
  BY DEF Init, TickInv

LEMMA ScanOnTick ==
    ASSUME TickInv, PricingInv, NEW m \in Markets, Scan(m)
    PROVE  TickInv'
<1>1. PICK c \in Evaluate(m) :
        /\ cand' = c /\ entry' = EntryArguments(c) /\ phase' \in {"candidate", "refused"}
        /\ m.equity > KILL_EQUITY
  BY DEF Scan
<1>2. c \in evaluate_symbol(m) \cup evaluate_intraday_symbol(m)
  BY <1>1 DEF Evaluate
<1>3. Sound(c)
  BY <1>1, <1>2, EarningsIsSound, CanaryIsSound
<1>4. Credit(EntryArguments(c)) = c.proposed_credit
  BY <1>3, SoundCandidate
<1>5. EntryOnTick'
  BY <1>1, <1>2, <1>4, CandidateOnTick DEF EntryOnTick
<1>6. Dimes(WingWidth(entry))'
  BY <1>1, <1>2, CandidateInDimes DEF TickInv
<1> QED
  BY <1>1, <1>5, <1>6 DEF TickInv, StrikesOnDimes

LEMMA RepricedKeepsWidth ==
    ASSUME PricingInv, RepriceEntry
    PROVE  WingWidth(entry') = WingWidth(entry) /\ phase = "entry" /\ reprices' # 0
<1> DEFINE credit == Greater(EntryFloor, Credit(entry) - 5 * CENT)
           args   == [entry EXCEPT !.price = 0 - credit]
<1>1. phase = "entry" /\ entry' \in {entry, args} /\ reprices' = reprices + 1
  BY DEF RepriceEntry
<1>2. entry \in Payloads /\ credit \in Int
  BY <1>1, RepricedEntry DEF PricingInv, EntryInv
<1> HIDE DEF credit
<1>3. WingWidth(args) = WingWidth(entry)
  BY <1>2, Replaced
<1> HIDE DEF args
<1>4. reprices \in Nat
  BY PricingConstants DEF PricingInv, PricingTypeOK
<1> QED
  BY <1>1, <1>3, <1>4

LEMMA TickStep ==
    ASSUME TickInv, PricingInv, [Next]_vars
    PROVE  TickInv'
<1>0. StrikesOnDimes /\ StrikesOnDimes'
  BY DEF TickInv, StrikesOnDimes
<1>1. CASE \E m \in Markets : Scan(m)
  BY <1>1, ScanOnTick
<1>2. CASE \E m \in Markets, lag \in Lags : \E e \in {s.equity : s \in Markets} :
             SubmitEntry(m, e, lag)
  BY <1>0, <1>2 DEF SubmitEntry, TickInv, EntryOnTick
<1>3. CASE \E m \in Markets, lag \in Lags : StartExit(m, lag)
  <2>1. PICK m \in Markets, lag \in Lags : StartExit(m, lag)
    BY <1>3
  <2>2. phase = "open" /\ phase' \in {"exit", "refused"} /\ entry' = entry
    BY <2>1 DEF StartExit
  <2>3. ExitOnTick'
    BY <2>1, <2>2, ExitStartsOnTick DEF TickInv
  <2> QED
    BY <1>0, <2>2, <2>3 DEF TickInv
<1>4. CASE \E m \in Markets, lag \in Lags : RepriceExit(m, lag)
  <2>1. /\ phase = "exit" /\ phase' = phase /\ entry' = entry /\ reprices' = reprices + 1
        /\ reprices \in Nat
    BY <1>4, PricingConstants DEF RepriceExit, PricingInv, PricingTypeOK
  <2> QED
    BY <1>0, <2>1 DEF TickInv
<1>5. CASE RepriceEntry
  <2>1. phase' \in {"entry", "refused"}
    BY <1>5 DEF RepriceEntry
  <2> QED
    BY <1>0, <1>5, <2>1, RepricedKeepsWidth DEF TickInv
<1>6. CASE \/ Advance \/ Kill \/ CancelEntry \/ ExhaustExits \/ ExitDies \/ FillExit
           \/ UNCHANGED vars
  <2>1. /\ UNCHANGED <<cand, entry, exit, reprices>>
        /\ phase' = phase \/ phase' \in {"no_trade", "manual", "flat"}
           \/ (phase = "exit" /\ phase' = "open")
    BY <1>6 DEF Advance, Kill, CancelEntry, ExhaustExits, ExitDies, FillExit, vars
  <2> QED
    BY <1>0, <2>1 DEF TickInv, EntryOnTick, ExitOnTick
<1>7. CASE RejectCandidate \/ FillEntry
  BY <1>0, <1>7 DEF RejectCandidate, FillEntry, TickInv
<1> QED
  BY <1>1, <1>2, <1>3, <1>4, <1>5, <1>6, <1>7 DEF Next, Cycle

-----------------------------------------------------------------------------
(* The theorems.                                                             *)

\* The state of the trade keeps its types, whatever the markets and the calendar.
THEOREM PricingTypes == Spec => []PricingTypeOK
<1>1. PricingInv => PricingTypeOK
  BY DEF PricingInv
<1> QED
  BY <1>1, Invariant, PTL

\* No candidate of either strategy, no replacement and no exit is refused by a later check
\* of the same payload (orders.py, policy.py, mcp/client.py).
THEOREM NothingRefused == Spec => []NothingIsRefusedLate
<1>1. PricingInv => NothingIsRefusedLate
  BY DEF PricingInv
<1> QED
  BY <1>1, Invariant, PTL

\* A round trip never loses more than the budget of its candidate, nor the canary's cap.
THEOREM LossBounded == Spec => []LossWithinBudget
  BY LossIsBounded, Invariant, PTL

\* On the market it was chosen from a candidate is turned away by the fresh check exactly
\* when it is an earnings candidate whose credit, rounded down, lies below its natural
\* credit (runtime.py 1251); every other one passes.
THEOREM FreshCheckPasses == Spec => []UnchangedMarketPasses
  BY FreshCheckAgrees, Invariant, PTL

\* The schedule attends to a working entry and to a position when they are overdue.
THEOREM NothingUnattended == Spec => []OverdueIsDue
  BY OverdueIsScheduled, Invariant, PTL

\* Repricing only moves a price towards its fill, within the floor and the width.
THEOREM PricesMove == Spec => PricesMoveTowardsFill
  BY PriceStep, Invariant, PTL DEF Spec, PricesMoveTowardsFill

\* Where the exchange lists strikes in whole dimes, the first price of every entry and of
\* every exit is on the broker's tick, on any quotes: the midpoint rounded, or the width.
THEOREM OrdersStartWell == StrikesOnDimes /\ Spec => []OrdersStartOnTick
<1>1. TickInv => OrdersStartOnTick
  BY DEF TickInv, OrdersStartOnTick, EntryOnTick, ExitOnTick, OnTick
<1>2. TickInv /\ PricingInv /\ [Next]_vars => TickInv'
  BY TickStep
<1> QED
  BY <1>1, <1>2, TickInit, Invariant, PTL DEF Spec
=============================================================================
