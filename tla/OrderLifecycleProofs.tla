------------------------ MODULE OrderLifecycleProofs ------------------------
(* Proofs about OrderLifecycle, for any number of exit chains, replacements, *)
(* kills, crashes and faults: its safety invariants, and that it implements  *)
(* Exposure.                                                                 *)
EXTENDS OrderLifecycle, FiniteSetTheorems, SequenceTheorems, TLAPS

-----------------------------------------------------------------------------
(* The types, as sharp as the proofs need them.                              *)

Seqs == 0 .. MaxSeq
Phases == {"entry", "cancel", "closed", "exit"}
RunStates == WorkingEntryStates \cup ExitStates \cup TERMINAL_STRATEGY_STATES
               \cup {"POSITION_OPEN", "RISK_OFF"}
Books == {"NONE", "PLANNED", "SUBMITTING", "UNKNOWN", "PENDING", "CANCEL_PENDING",
          "REPLACEMENT_PENDING", "CANCELED", "FILLED"}
Answers == {"absent", "open", "filled", "zero"}
Orders == [OrderIds -> Answers \cup {"replaced"}]
Counts == [Chains -> 0 .. MaxSeq + 1]
Requests == [kind : {"place", "replace", "cancel"}, id : OrderIds]

Locals ==
  [pc : PCs, act : Phases, st : RunStates, ec : Books, ords : SUBSET OrderIds,
   pos : BOOLEAN, ef : BOOLEAN, c : Chains, how : {"order", "replace", "cancel"},
   res : Answers, again : BOOLEAN, err : {"raise", "kill"}, todo : Seq(RunStates),
   ret : {"idle", "recEntryDone", "recExitDone", "recExit", "decide"}]

BooksTyped ==
  /\ run \in RunStates /\ kill \in BOOLEAN
  /\ chain \in [Chains -> Books]
  /\ exits \in 0 .. MaxExits
  /\ attempts \in Counts
  /\ bound \subseteq OrderIds

BrokerTyped ==
  /\ order \in Orders
  /\ net \subseteq Requests
  /\ fills \in Nat /\ shown \in Nat /\ shown <= fills
  /\ phase \in Phases

BoundsTyped ==
  kills \in 0 .. MaxKills /\ crashes \in 0 .. MaxCrashes /\ faults \in 0 .. MaxFaults

Typed == BooksTyped /\ BrokerTyped /\ w \in Locals /\ BoundsTyped

-----------------------------------------------------------------------------
(* The inductive invariant.  What it says of the broker's orders, of the     *)
(* attempts and of the chain states takes them as arguments: it is used of   *)
(* their values before and after a step.                                     *)

\* An order of the chain is filled, or working; the chain can have none any more.
HasFill(o, c) == \E s \in Seqs : o[<<c, s>>] = "filled"
HasOpen(o, c) == \E s \in Seqs : o[<<c, s>>] = "open"
Dead(o, c) == o[<<c, 0>>] # "absent" /\ ~HasOpen(o, c)
ExitFilled(o) == \E c \in ExitChains : HasFill(o, c)
Fills(o) == (IF HasFill(o, 0) THEN 1 ELSE 0) + (IF ExitFilled(o) THEN 1 ELSE 0)

\* The broker has what was attempted, an order with a successor was replaced, and
\* only an order the broker has is ever replaced.
Successive(o, n) ==
  /\ \A c \in Chains, s \in Seqs : o[<<c, s>>] # "absent" => s < n[c]
  /\ \A c \in Chains, s, t \in Seqs :
       s < t /\ o[<<c, t>>] # "absent" => o[<<c, s>>] = "replaced"
  /\ \A c \in Chains : n[c] > 1 => o[<<c, n[c] - 2>>] # "absent"

\* Requests under way are for attempts on record.
NetInv ==
  \A m \in net : /\ m.kind = "place" => m.id[2] = 0 /\ 0 < attempts[m.id[1]]
                 /\ m.kind = "replace" => 0 < m.id[2] /\ m.id[2] < attempts[m.id[1]]

OrdersInv ==
  /\ Successive(order, attempts)
  /\ \A id \in bound : order[id] # "absent"
  /\ NetInv
  /\ fills = Fills(order)

\* The books: attempts per state, and closed chains only where it is over.
BooksInv ==
  /\ attempts[0] > 0
  /\ \A c \in Chains :
       /\ chain[c] \in {"NONE", "PLANNED"} => attempts[c] = 0
       /\ chain[c] = "SUBMITTING" => attempts[c] <= 1
       /\ chain[c] \notin {"NONE", "PLANNED", "SUBMITTING"} => attempts[c] > 0
       /\ chain[c] = "REPLACEMENT_PENDING" => Latest(c) \in bound \/ attempts[c] > 1
       /\ chain[c] = "CANCELED" => Dead(order, c) /\ ~HasFill(order, c)
       /\ chain[c] = "FILLED" => Dead(order, c) /\ HasFill(order, c)

\* An exit chain exists only against a filled entry, and only the last one is open.
ExitsInv ==
  /\ \A c \in ExitChains : chain[c] # "NONE" => HasFill(order, 0) /\ c <= exits
  /\ \A c, d \in ExitChains :
       chain[c] # "NONE" /\ chain[d] # "NONE" /\ c < d => chain[c] = "CANCELED"
  /\ ExitRows # {} => \E c \in ExitRows : \A d \in ExitRows : d <= c

\* The trade is over: the entry came to nothing or an exit filled.
Done(ch) ==
  ch[0] = "CANCELED" \/ (ch[0] = "FILLED" /\ \E c \in ExitChains : ch[c] = "FILLED")

\* When the run may be put in the state s.
Says(s, o, ch) ==
  /\ s = "POSITION_OPEN" => HasFill(o, 0)
  /\ s \in TERMINAL_STRATEGY_STATES => Done(ch)
  /\ s = "NO_TRADE" => ch[0] = "CANCELED"

\* Every exit chain so far is a closed zero fill.
AllCanceled(c, ch) == \A d \in ExitChains : ch[d] # "NONE" => ch[d] = "CANCELED" /\ d < c

\* The answer of the broker that the worker is about to write down.
AnswerInv ==
  w.pc \in {"bind", "chain"} =>
    /\ w.res # "absent" /\ attempts[w.c] > 0
    /\ w.how = "cancel" => w.res # "open"
    /\ w.res = "zero" => Dead(order, w.c) /\ ~HasFill(order, w.c)
    /\ w.res = "filled" => Dead(order, w.c) /\ HasFill(order, w.c)
    /\ w.pc = "bind" => order[Latest(w.c)] # "absent"

\* The transitions of the run the worker is about to ask for.
Plans(todo, o, ch) == \A i \in 1 .. Len(todo) : Says(todo[i], o, ch)
PlanInv == w.pc = "run" => Plans(w.todo, order, chain)

\* What the worker knows where it is, however long ago it read it.
PlaceInv ==
  /\ w.pos => HasFill(order, 0)
  /\ w.ec = "CANCELED" => chain[0] = "CANCELED"
  /\ w.again => /\ w.pc \in {"place", "relook", "bind", "chain", "run"}
                /\ w.how = "order" /\ w.ret = "idle" /\ attempts[w.c] > 0
  /\ w.how = "cancel" => /\ w.pc \in {"chain", "run"}
                         /\ w.c = 0 /\ w.ret = "idle" /\ w.err = "raise"
  /\ w.pc \in {"orders", "positions", "activities"} => run \notin TERMINAL_STRATEGY_STATES
  /\ w.pc \in {"relook", "unknown"} => attempts[w.c] > 0
  /\ w.pc = "place" => attempts[w.c] = 1
  /\ w.pc \in {"replace", "resumeReplace"} => attempts[w.c] > 1
  /\ w.pc \in {"cancelChain", "cancelCall", "cancelGet"} => Latest(0) \in bound \/ attempts[0] > 1
  /\ w.pc \in {"startExit", "exitIntent", "exitPlan"} => HasFill(order, 0)
  /\ w.pc = "exitIntent" => w.c = exits + 1 /\ AllCanceled(w.c, chain)
  /\ w.pc = "exitPlan" => w.c = exits /\ exits > 0 /\ AllCanceled(w.c, chain)
  /\ w.pc \in {"exitSnapshot", "exitRun"} => w.c # 0 /\ chain[w.c] # "NONE"
  /\ w.pc = "exitChain" => w.c # 0 /\ chain[w.c] = "PLANNED"
  /\ w.pc = "exitAttempt" => w.c # 0 /\ chain[w.c] = "SUBMITTING" /\ attempts[w.c] = 0
  /\ w.pc = "reprice" => chain[w.c] # "NONE"
  /\ w.pc = "replaceChain" => Latest(w.c) \in bound /\ chain[w.c] # "NONE"
  /\ w.pc = "replaceAttempt" =>
       Latest(w.c) \in bound /\ chain[w.c] = "REPLACEMENT_PENDING" /\ attempts[w.c] <= MaxSeq
  /\ w.pc \in {"resumeEntry", "resumeExit", "resumeSnapshot"} =>
       chain[w.c] = "SUBMITTING" /\ attempts[w.c] > 0 /\ w.how = "order" /\ w.ret = "idle"

RecordInv == BooksInv /\ ExitsInv /\ Says(run, order, chain)
WorkerInv == AnswerInv /\ PlanInv /\ PlaceInv

IInv == Typed /\ OrdersInv /\ RecordInv /\ WorkerInv

-----------------------------------------------------------------------------
(* Identifiers and the orders of one chain.                                  *)

LEMMA Ids ==
  /\ \A c \in Chains, s \in Seqs : <<c, s>> \in OrderIds
  /\ \A id \in OrderIds : /\ id[1] \in Chains /\ id[2] \in Seqs
                          /\ id = <<id[1], id[2]>>
  /\ \A c, d, s, t : <<c, s>> = <<d, t>> => c = d /\ s = t
  BY DEF OrderIds, Seqs

LEMMA Constants ==
  /\ MaxExits \in Nat /\ MaxExits > 0 /\ MaxSeq \in Nat /\ MaxKills \in Nat
  /\ MaxCrashes \in Nat /\ MaxFaults \in Nat
  /\ 0 \in Chains /\ ExitChains \subseteq Chains /\ 0 \in Seqs
  /\ \A c \in Chains : c \in Int /\ (c # 0 <=> c \in ExitChains)
  /\ \A c \in ExitChains : c \in Int /\ c # 0
  /\ \A s \in Seqs : s \in Int
  BY LifecycleConstants DEF Chains, ExitChains, Seqs

\* An order without a successor tells what the whole chain came to.
LEMMA OneTells ==
  ASSUME NEW o \in Orders, NEW n \in Counts, Successive(o, n),
         NEW c \in Chains, NEW s \in Seqs
  PROVE  /\ o[<<c, s>>] = "zero" => Dead(o, c) /\ ~HasFill(o, c)
         /\ o[<<c, s>>] = "filled" => Dead(o, c) /\ HasFill(o, c)
         /\ o[<<c, s>>] = "open" => ~HasFill(o, c) /\ \A t \in Seqs : o[<<c, t>>] = "open" => t = s
         /\ o[<<c, s>>] # "absent" => o[<<c, 0>>] # "absent"
<1>1. \A t, u \in Seqs : t < u /\ o[<<c, u>>] # "absent" => o[<<c, t>>] = "replaced"
  BY DEF Successive
<1>2. \A t, u \in Seqs : t < u \/ t = u \/ u < t
  BY Constants
<1>3. 0 \in Seqs /\ (s # 0 => 0 < s)
  BY Constants DEF Seqs
<1>4. o[<<c, s>>] # "absent" => o[<<c, 0>>] # "absent"
  BY <1>1, <1>3
<1>5. o[<<c, s>>] = "zero" => Dead(o, c) /\ ~HasFill(o, c)
  BY <1>1, <1>2, <1>4 DEF Dead, HasOpen, HasFill
<1>6. o[<<c, s>>] = "filled" => Dead(o, c) /\ HasFill(o, c)
  BY <1>1, <1>2, <1>4 DEF Dead, HasOpen, HasFill
<1>7. o[<<c, s>>] = "open" => ~HasFill(o, c) /\ \A t \in Seqs : o[<<c, t>>] = "open" => t = s
  BY <1>1, <1>2 DEF HasFill
<1> QED
  BY <1>4, <1>5, <1>6, <1>7

\* What stays true of the orders, whatever the broker does to them.
Later(o, p) ==
  /\ \A c \in Chains, s \in Seqs : o[<<c, s>>] # "absent" => p[<<c, s>>] # "absent"
  /\ \A c \in Chains : HasFill(o, c) => HasFill(p, c)
  /\ \A c \in Chains : Dead(o, c) => Dead(p, c) /\ (HasFill(p, c) => HasFill(o, c))

\* Nothing was filled.
SameFills(o, p) == \A c \in Chains : HasFill(o, c) <=> HasFill(p, c)

\* A first order of a chain.
Opens(o, p, c) ==
  o[<<c, 0>>] = "absent" /\ \E x \in {"open", "zero"} : p = [o EXCEPT ![<<c, 0>>] = x]

LEMMA OpensLater ==
  ASSUME NEW o \in Orders, NEW p, NEW n \in Counts, Successive(o, n),
         NEW c \in Chains, n[c] > 0, Opens(o, p, c)
  PROVE  p \in Orders /\ Successive(p, n) /\ Later(o, p) /\ SameFills(o, p)
<1> PICK x \in {"open", "zero"} : p = [o EXCEPT ![<<c, 0>>] = x]
  BY DEF Opens
<1>0. o[<<c, 0>>] = "absent"
  BY DEF Opens
<1>1. p \in Orders
  BY DEF Orders, Answers
<1>2. <<c, 0>> \in OrderIds
  BY Ids, Constants
<1>3. p[<<c, 0>>] = x
  BY <1>2 DEF Orders
<1>4. \A d \in Chains, s \in Seqs : d # c \/ s # 0 => p[<<d, s>>] = o[<<d, s>>]
  BY Ids, <1>2 DEF Orders
<1>5. \A s \in Seqs : o[<<c, s>>] = "absent"
  <2>1. \A s \in Seqs : 0 < s /\ o[<<c, s>>] # "absent" => o[<<c, 0>>] = "replaced"
    BY Constants DEF Successive
  <2>2. \A s \in Seqs : s # 0 => 0 < s
    BY Constants DEF Seqs
  <2> QED
    BY <1>0, <2>1, <2>2
<1> HIDE DEF Opens
<1>6. SameFills(o, p)
  <2>1. \A d \in Chains \ {c} : HasFill(o, d) <=> HasFill(p, d)
    BY <1>4 DEF HasFill
  <2>2. ~HasFill(o, c) /\ ~HasFill(p, c)
    BY <1>3, <1>4, <1>5 DEF HasFill
  <2> QED
    BY <2>1, <2>2 DEF SameFills
<1>7. Later(o, p)
  <2>1. ~Dead(o, c)
    BY <1>0 DEF Dead
  <2>2. \A d \in Chains \ {c} : Dead(o, d) => Dead(p, d)
    BY <1>4, Constants DEF Dead, HasOpen
  <2>3. \A d \in Chains, s \in Seqs : o[<<d, s>>] # "absent" => p[<<d, s>>] # "absent"
    BY <1>4, <1>5
  <2> QED
    BY <1>6, <2>1, <2>2, <2>3 DEF Later, SameFills
<1>8. Successive(p, n)
  <2>1. \A d \in Chains, s \in Seqs : p[<<d, s>>] # "absent" => s < n[d]
    BY <1>4 DEF Successive
  <2>2. ASSUME NEW d \in Chains, NEW s \in Seqs, NEW t \in Seqs, s < t, p[<<d, t>>] # "absent"
        PROVE  p[<<d, s>>] = "replaced"
    <3>1. t # 0
      BY <2>2, Constants DEF Seqs
    <3>2. p[<<d, t>>] = o[<<d, t>>] /\ d # c
      BY <2>2, <3>1, <1>4, <1>5
    <3> QED
      BY <2>2, <3>2, <1>4 DEF Successive
  <2>3. ASSUME NEW d \in Chains, n[d] > 1 PROVE p[<<d, n[d] - 2>>] # "absent"
    <3>1. n[d] - 2 \in Seqs
      BY <2>3, Constants DEF Seqs, Counts
    <3> QED
      BY <2>3, <3>1, <1>4, <1>5, <1>3 DEF Successive
  <2> QED
    BY <2>1, <2>2, <2>3 DEF Successive
<1> QED
  BY <1>1, <1>6, <1>7, <1>8

\* A replacement.
Swaps(o, p, c, s) ==
  /\ s > 0 /\ o[<<c, s - 1>>] = "open" /\ o[<<c, s>>] = "absent"
  /\ p = [o EXCEPT ![<<c, s - 1>>] = "replaced", ![<<c, s>>] = "open"]

LEMMA SwapsLater ==
  ASSUME NEW o \in Orders, NEW p, NEW n \in Counts, Successive(o, n),
         NEW c \in Chains, NEW s \in Seqs, s < n[c], Swaps(o, p, c, s)
  PROVE  p \in Orders /\ Successive(p, n) /\ Later(o, p) /\ SameFills(o, p)
<1> DEFINE r == s - 1
<1>1. r \in Seqs /\ r < s /\ \A t \in Seqs : t < s => t = r \/ t < r
  BY Constants DEF Swaps, Seqs
<1>2. /\ o[<<c, r>>] = "open" /\ o[<<c, s>>] = "absent"
      /\ p = [o EXCEPT ![<<c, r>>] = "replaced", ![<<c, s>>] = "open"]
  BY DEF Swaps
<1> HIDE DEF r
<1>3. p \in Orders
  BY <1>2 DEF Orders, Answers
<1>4. <<c, r>> \in OrderIds /\ <<c, s>> \in OrderIds /\ <<c, r>> # <<c, s>>
  BY Ids, <1>1, Constants
<1>5. p[<<c, r>>] = "replaced" /\ p[<<c, s>>] = "open"
  BY <1>2, <1>4 DEF Orders
<1>6. \A d \in Chains, t \in Seqs : d # c \/ (t # r /\ t # s) => p[<<d, t>>] = o[<<d, t>>]
  BY Ids, <1>2, <1>4 DEF Orders
<1>7. \A t \in Seqs : (t < r => o[<<c, t>>] = "replaced") /\ (s < t => o[<<c, t>>] = "absent")
  BY <1>1, <1>2 DEF Successive
<1>8. \A t \in Seqs : t = r \/ t = s \/ t < r \/ s < t
  BY <1>1, Constants
<1>9. SameFills(o, p)
  <2>1. \A d \in Chains \ {c} : HasFill(o, d) <=> HasFill(p, d)
    BY <1>6 DEF HasFill
  <2>2. ~HasFill(o, c) /\ ~HasFill(p, c)
    BY <1>2, <1>5, <1>6, <1>7, <1>8 DEF HasFill
  <2> QED
    BY <2>1, <2>2 DEF SameFills
<1>10. Later(o, p)
  <2>1. ~Dead(o, c)
    BY <1>1, <1>2 DEF Dead, HasOpen
  <2>2. \A d \in Chains \ {c} : Dead(o, d) => Dead(p, d)
    BY <1>6, Constants DEF Dead, HasOpen
  <2>3. \A d \in Chains, t \in Seqs : o[<<d, t>>] # "absent" => p[<<d, t>>] # "absent"
    BY <1>5, <1>6
  <2> QED
    BY <1>9, <2>1, <2>2, <2>3 DEF Later, SameFills
<1>11. Successive(p, n)
  <2>1. \A d \in Chains, t \in Seqs : p[<<d, t>>] # "absent" => t < n[d]
    BY <1>1, <1>2, <1>6, Constants DEF Successive, Counts
  <2>2. ASSUME NEW d \in Chains, NEW t \in Seqs, NEW u \in Seqs, t < u, p[<<d, u>>] # "absent"
        PROVE  p[<<d, t>>] = "replaced"
    <3>1. CASE d # c
      BY <2>2, <3>1, <1>6 DEF Successive
    <3>2. CASE d = c
      <4>1. ~(s < u)
        BY <2>2, <3>2, <1>1, <1>6, <1>7, Constants
      <4>2. t = r \/ t < r
        BY <2>2, <4>1, <1>1, <1>8, Constants
      <4> QED
        BY <3>2, <4>2, <1>1, <1>5, <1>6, <1>7, Constants
    <3> QED
      BY <3>1, <3>2
  <2>3. ASSUME NEW d \in Chains, n[d] > 1 PROVE p[<<d, n[d] - 2>>] # "absent"
    <3>1. n[d] - 2 \in Seqs
      BY <2>3, Constants DEF Seqs, Counts
    <3> QED
      BY <2>3, <3>1, <1>5, <1>6 DEF Successive
  <2> QED
    BY <2>1, <2>2, <2>3 DEF Successive
<1> QED
  BY <1>3, <1>9, <1>10, <1>11

\* Working orders end, with or without a fill.
Ends(o, p, x) ==
  /\ p \in Orders
  /\ \A c \in Chains, s \in Seqs :
       p[<<c, s>>] = o[<<c, s>>] \/ (o[<<c, s>>] = "open" /\ p[<<c, s>>] = x)

LEMMA EndsLater ==
  ASSUME NEW o \in Orders, NEW p, NEW n \in Counts, Successive(o, n),
         NEW x \in {"zero", "filled"}, Ends(o, p, x)
  PROVE  p \in Orders /\ Successive(p, n) /\ Later(o, p) /\ (x = "zero" => SameFills(o, p))
<1>1. \A c \in Chains, s \in Seqs : p[<<c, s>>] = o[<<c, s>>] \/ (o[<<c, s>>] = "open" /\ p[<<c, s>>] = x)
  BY DEF Ends
<1>2. \A c \in Chains, s \in Seqs : o[<<c, s>>] # "absent" <=> p[<<c, s>>] # "absent"
  BY <1>1
<1>3. \A c \in Chains, s \in Seqs : o[<<c, s>>] = "replaced" => p[<<c, s>>] = "replaced"
  BY <1>1
<1>4. Successive(p, n)
  <2>1. ASSUME NEW d \in Chains, n[d] > 1 PROVE p[<<d, n[d] - 2>>] # "absent"
    <3>1. n[d] - 2 \in Seqs
      BY <2>1, Constants DEF Seqs, Counts
    <3> QED
      BY <2>1, <3>1, <1>2 DEF Successive
  <2> QED
    BY <2>1, <1>2, <1>3 DEF Successive
<1>5. \A c \in Chains : HasFill(o, c) => HasFill(p, c)
  BY <1>1 DEF HasFill
<1>6. \A c \in Chains : Dead(o, c) => Dead(p, c) /\ (HasFill(p, c) => HasFill(o, c))
  <2> TAKE c \in Chains
  <2> HAVE Dead(o, c)
  <2>1. \A s \in Seqs : p[<<c, s>>] = o[<<c, s>>]
    BY <1>1 DEF Dead, HasOpen
  <2> QED
    BY <2>1, Constants DEF Dead, HasOpen, HasFill
<1>7. x = "zero" => SameFills(o, p)
  BY <1>1 DEF SameFills, HasFill
<1>8. p \in Orders
  BY DEF Ends
<1>9. Later(o, p)
  BY <1>2, <1>5, <1>6 DEF Later
<1> QED
  BY <1>4, <1>7, <1>8, <1>9

-----------------------------------------------------------------------------
(* What the invariant says of the broker's orders.                           *)

LEMMA LatestIs ==
  ASSUME Typed, NEW c \in Chains, attempts[c] > 0
  PROVE  /\ attempts[c] - 1 \in Seqs /\ Latest(c) = <<c, attempts[c] - 1>>
         /\ Latest(c) \in OrderIds
  BY Constants, Ids DEF Typed, BooksTyped, Counts, Seqs, Latest

LEMMA HasRow ==
  ASSUME Typed, OrdersInv, RecordInv, NEW c \in Chains, NEW s \in Seqs, order[<<c, s>>] # "absent"
  PROVE  attempts[c] > 0 /\ chain[c] \notin {"NONE", "PLANNED"}
<1>1. s < attempts[c]
  BY DEF OrdersInv, Successive
<1>2. attempts[c] > 0
  BY <1>1, Constants DEF Typed, BooksTyped, Counts, Seqs
<1> QED
  BY <1>2 DEF RecordInv, BooksInv

\* A working exit is the only exit, against the fill of the entry.
LEMMA ExitWorks ==
  ASSUME Typed, OrdersInv, RecordInv, NEW c \in ExitChains, HasOpen(order, c)
  PROVE  /\ HasFill(order, 0) /\ ~ExitFilled(order)
         /\ \A d \in ExitChains : HasOpen(order, d) => d = c
<1>1. PICK s \in Seqs : order[<<c, s>>] = "open"
  BY DEF HasOpen
<1>2. chain[c] # "NONE"
  BY <1>1, HasRow, Constants
<1>3. HasFill(order, 0)
  BY <1>2 DEF RecordInv, ExitsInv
<1>4. chain[c] # "CANCELED"
  BY Constants DEF RecordInv, BooksInv, Dead
<1>5. ASSUME NEW d \in ExitChains, d # c, NEW t \in Seqs, order[<<d, t>>] # "absent"
      PROVE  ~HasFill(order, d) /\ ~HasOpen(order, d)
  <2>1. chain[d] # "NONE"
    BY <1>5, HasRow, Constants
  <2>2. d < c
    BY <1>2, <1>4, <1>5, <2>1, Constants DEF RecordInv, ExitsInv
  <2>3. chain[d] = "CANCELED"
    BY <1>2, <2>1, <2>2 DEF RecordInv, ExitsInv
  <2> QED
    BY <2>3, Constants DEF RecordInv, BooksInv, Dead
<1>6. ~HasFill(order, c)
  BY <1>1, OneTells, Constants DEF Typed, BrokerTyped, BooksTyped, OrdersInv
<1>7. \A d \in ExitChains : HasOpen(order, d) => d = c
  BY <1>5 DEF HasOpen
<1>8. ~ExitFilled(order)
  BY <1>5, <1>6 DEF ExitFilled, HasFill
<1> QED
  BY <1>3, <1>7, <1>8

LEMMA EntryWorks ==
  ASSUME Typed, OrdersInv, RecordInv, HasOpen(order, 0)
  PROVE  ~HasFill(order, 0) /\ ~ExitFilled(order) /\ \A c \in ExitChains : ~HasOpen(order, c)
<1>1. PICK s \in Seqs : order[<<0, s>>] = "open"
  BY DEF HasOpen
<1>2. ~HasFill(order, 0)
  BY <1>1, OneTells, Constants DEF Typed, BrokerTyped, BooksTyped, OrdersInv
<1>3. \A c \in ExitChains, t \in Seqs : order[<<c, t>>] = "absent"
  BY <1>2, HasRow, Constants DEF RecordInv, ExitsInv
<1> QED
  BY <1>2, <1>3 DEF ExitFilled, HasFill, HasOpen

LEMMA ExitNeedsEntry ==
  ASSUME Typed, OrdersInv, RecordInv, ExitFilled(order) \/ fills > 0
  PROVE  HasFill(order, 0)
<1>1. ExitFilled(order) => HasFill(order, 0)
  <2> SUFFICES ASSUME NEW c \in ExitChains, NEW s \in Seqs, order[<<c, s>>] = "filled"
               PROVE  HasFill(order, 0)
    BY DEF ExitFilled, HasFill
  <2> QED
    BY HasRow, Constants DEF RecordInv, ExitsInv
<1>2. fills > 0 => HasFill(order, 0) \/ ExitFilled(order)
  BY DEF OrdersInv, Fills
<1> QED
  BY <1>1, <1>2

-----------------------------------------------------------------------------
(* Steps that leave the books alone.                                         *)

LEMMA RecordLater ==
  ASSUME Typed, OrdersInv, RecordInv, order' \in Orders, Later(order, order'), UNCHANGED durable
  PROVE  RecordInv' /\ \A id \in bound' : order'[id] # "absent"
<1>1. \A id \in bound' : order'[id] # "absent"
  BY Ids DEF durable, OrdersInv, Later, Typed, BooksTyped
<1>2. BooksInv'
  BY DEF durable, RecordInv, BooksInv, Later, Latest
<1>3. ExitsInv'
  BY Constants DEF durable, RecordInv, ExitsInv, ExitRows, Later
<1>4. Says(run, order, chain)'
  BY Constants DEF durable, RecordInv, Says, Later
<1> QED
  BY <1>1, <1>2, <1>3, <1>4 DEF RecordInv

LEMMA WorkerLater ==
  ASSUME Typed, OrdersInv, WorkerInv, order' \in Orders, Later(order, order'), UNCHANGED <<durable, w>>
  PROVE  WorkerInv'
<1> w.c \in Chains
  BY DEF Typed, Locals
<1>1. PlanInv'
  BY Constants DEF durable, WorkerInv, PlanInv, Plans, Says, Later
<1>2. PlaceInv'
  BY Constants DEF durable, WorkerInv, PlaceInv, Latest, Later
<1>3. AnswerInv'
  <2>1. attempts[w.c] > 0 => (order[Latest(w.c)] # "absent" => order'[Latest(w.c)] # "absent")
    BY LatestIs DEF Later
  <2>2. Latest(w.c)' = Latest(w.c)
    BY DEF durable, Latest
  <2>3. /\ Dead(order, w.c) => Dead(order', w.c)
        /\ HasFill(order, w.c) => HasFill(order', w.c)
        /\ Dead(order, w.c) /\ ~HasFill(order, w.c) => ~HasFill(order', w.c)
    BY DEF Later
  <2> QED
    BY <2>1, <2>2, <2>3 DEF durable, WorkerInv, AnswerInv
<1> QED
  BY <1>1, <1>2, <1>3 DEF WorkerInv

LEMMA SameFillsCount ==
  ASSUME NEW o, NEW p, SameFills(o, p)
  PROVE  Fills(p) = Fills(o)
  BY Constants DEF SameFills, Fills, ExitFilled

\* One working order fills.
LEMMA OneMoreFill ==
  ASSUME Typed, OrdersInv, RecordInv, NEW c \in Chains, NEW s \in Seqs, order[<<c, s>>] = "open",
         NEW p, p = [order EXCEPT ![<<c, s>>] = "filled"]
  PROVE  Fills(p) = Fills(order) + 1
<1>1. \A d \in Chains, t \in Seqs :
        p[<<d, t>>] = IF d = c /\ t = s THEN "filled" ELSE order[<<d, t>>]
  BY Ids DEF Typed, BrokerTyped, Orders
<1>2. HasOpen(order, c)
  BY DEF HasOpen
<1>3. HasFill(p, c) /\ \A d \in Chains \ {c} : HasFill(p, d) <=> HasFill(order, d)
  BY <1>1 DEF HasFill
<1>4. CASE c = 0
  <2>1. ~HasFill(order, 0) /\ ~ExitFilled(order)
    BY <1>2, <1>4, EntryWorks
  <2>2. HasFill(p, 0) /\ ~ExitFilled(p)
    BY <1>3, <1>4, <2>1, Constants DEF ExitFilled
  <2> QED
    BY <2>1, <2>2 DEF Fills
<1>5. CASE c # 0
  <2>1. c \in ExitChains
    BY <1>5, Constants
  <2>2. HasFill(order, 0) /\ ~ExitFilled(order)
    BY <1>2, <2>1, ExitWorks
  <2>3. HasFill(p, 0) /\ ExitFilled(p)
    BY <1>3, <1>5, <2>1, <2>2, Constants DEF ExitFilled
  <2> QED
    BY <2>2, <2>3 DEF Fills
<1> QED
  BY <1>4, <1>5

\* The broker moves between two steps of the worker.
LEMMA BrokerMoves ==
  ASSUME IInv, order' \in Orders, Successive(order', attempts), Later(order, order'),
         UNCHANGED <<durable, w, bounds>>, net' \subseteq net, fills' = Fills(order'),
         fills' \in Nat, shown' \in Nat, shown' <= fills', phase' \in Phases
  PROVE  IInv'
<1> USE DEF IInv
<1>1. Typed'
  BY DEF Typed, BooksTyped, BrokerTyped, BoundsTyped, durable, bounds
<1>2. RecordInv' /\ \A id \in bound' : order'[id] # "absent"
  BY RecordLater DEF durable
<1>3. WorkerInv'
  BY WorkerLater
<1>4. NetInv'
  BY DEF OrdersInv, NetInv, durable
<1>5. OrdersInv'
  BY <1>2, <1>4 DEF OrdersInv, durable
<1> QED
  BY <1>1, <1>2, <1>3, <1>5

LEMMA FillKeeps ==
  ASSUME IInv, NEW id \in OrderIds, Fill(id)
  PROVE  IInv'
<1> USE DEF IInv
<1>0. PICK c \in Chains, s \in Seqs : id = <<c, s>>
  BY Ids
<1>1. order \in Orders /\ attempts \in Counts /\ Successive(order, attempts)
  BY DEF Typed, BrokerTyped, BooksTyped, OrdersInv
<1>2. /\ order[<<c, s>>] = "open" /\ order' = [order EXCEPT ![<<c, s>>] = "filled"]
      /\ fills' = fills + 1 /\ UNCHANGED <<durable, net, shown, phase, w, bounds>>
  BY <1>0 DEF Fill
<1>3. Ends(order, order', "filled")
  <2>1. order' \in Orders
    BY <1>1, <1>2 DEF Orders, Answers
  <2> QED
    BY <1>1, <1>2, <2>1, Ids DEF Ends, Orders
<1>4. order' \in Orders /\ Successive(order', attempts) /\ Later(order, order')
  BY <1>1, <1>3, EndsLater
<1>5. Fills(order') = Fills(order) + 1
  BY <1>2, OneMoreFill
<1>6. fills' = Fills(order')
  BY <1>2, <1>5 DEF OrdersInv
<1> QED
  BY <1>2, <1>4, <1>6, BrokerMoves DEF Typed, BrokerTyped

LEMMA ExpireKeeps ==
  ASSUME IInv, NEW id \in OrderIds, Expire(id)
  PROVE  IInv'
<1> USE DEF IInv
<1>1. order \in Orders /\ attempts \in Counts /\ Successive(order, attempts)
  BY DEF Typed, BrokerTyped, BooksTyped, OrdersInv
<1>2. Ends(order, order', "zero")
  <2>1. order' \in Orders
    BY <1>1 DEF Orders, Answers, Expire
  <2> QED
    BY <1>1, <2>1, Ids DEF Ends, Orders, Expire
<1>3. /\ order' \in Orders /\ Successive(order', attempts) /\ Later(order, order')
      /\ SameFills(order, order')
  BY <1>1, <1>2, EndsLater
<1>4. fills' = Fills(order')
  BY <1>3, SameFillsCount DEF OrdersInv, Expire
<1> QED
  BY <1>3, <1>4, BrokerMoves DEF Typed, BrokerTyped, Expire

LEMMA ShowKeeps ==
  ASSUME IInv, Show
  PROVE  IInv'
<1> USE DEF IInv
<1>1. order' = order /\ order \in Orders /\ Successive(order, attempts) /\ Later(order, order)
  BY DEF Show, Typed, BrokerTyped, OrdersInv, Later
<1>2. /\ UNCHANGED <<durable, w, bounds, net, fills, phase>>
      /\ shown' = shown + 1 /\ shown < fills
  BY DEF Show
<1> QED
  BY <1>1, <1>2, BrokerMoves DEF Typed, BrokerTyped, OrdersInv

LEMMA NextPhaseKeeps ==
  ASSUME IInv, NextPhase
  PROVE  IInv'
<1> USE DEF IInv
<1>1. order \in Orders /\ attempts \in Counts /\ Successive(order, attempts)
  BY DEF Typed, BrokerTyped, BooksTyped, OrdersInv
<1>2. /\ UNCHANGED <<durable, fills, shown, w, bounds>> /\ phase' \in Phases
      /\ net' \subseteq net
      /\ \/ order' = order
         \/ order' = [id \in OrderIds |-> IF order[id] = "open" THEN "zero" ELSE order[id]]
  BY DEF NextPhase, Phases
<1>3. Ends(order, order', "zero")
  <2>1. order' \in Orders
    BY <1>1, <1>2 DEF Orders, Answers
  <2> QED
    BY <1>1, <1>2, <2>1, Ids DEF Ends, Orders
<1>4. /\ order' \in Orders /\ Successive(order', attempts) /\ Later(order, order')
      /\ SameFills(order, order')
  BY <1>1, <1>3, EndsLater
<1>5. fills' = Fills(order')
  BY <1>2, <1>4, SameFillsCount DEF OrdersInv
<1> QED
  BY <1>2, <1>4, <1>5, BrokerMoves DEF Typed, BrokerTyped

LEMMA DeliverKeeps ==
  ASSUME IInv, NEW m \in net, Deliver(m)
  PROVE  IInv'
<1> USE DEF IInv
<1>1. order \in Orders /\ attempts \in Counts /\ Successive(order, attempts)
  BY DEF Typed, BrokerTyped, BooksTyped, OrdersInv
<1>2. PICK c \in Chains, s \in Seqs : m.id = <<c, s>>
  BY Ids DEF Typed, BrokerTyped, Requests
<1>3. /\ m.kind = "place" => s = 0 /\ attempts[c] > 0
      /\ m.kind = "replace" => 0 < s /\ s < attempts[c]
  BY <1>2 DEF OrdersInv, NetInv
<1>4. m.kind \in {"place", "replace", "cancel"}
  BY DEF Typed, BrokerTyped, Requests
<1>5. \/ m.kind = "place" /\ Opens(order, order', c)
      \/ m.kind = "replace" /\ Swaps(order, order', c, s)
      \/ Ends(order, order', "zero")
  <2>1. CASE m.kind = "place" /\ Accept(m.id)
    BY <1>2, <1>3, <2>1 DEF Deliver, Opens, Accept
  <2>2. CASE m.kind = "replace" /\ Replaceable(m.id)
    BY <1>2, <1>3, <2>2 DEF Deliver, Swaps, Replaceable, Replaced, Prior
  <2>3. CASE m.kind = "cancel" /\ order[m.id] = "open"
    <3>1. order' = [order EXCEPT ![<<c, s>>] = "zero"] /\ order[<<c, s>>] = "open"
      BY <1>2, <2>3 DEF Deliver
    <3>2. order' \in Orders
      BY <1>1, <3>1 DEF Orders, Answers
    <3> QED
      BY <1>1, <3>1, <3>2, Ids DEF Ends, Orders
  <2>4. CASE /\ ~(m.kind = "place" /\ Accept(m.id))
             /\ ~(m.kind = "replace" /\ Replaceable(m.id))
             /\ ~(m.kind = "cancel" /\ order[m.id] = "open")
    <3>1. order' = order
      BY <2>4 DEF Deliver
    <3> QED
      BY <1>1, <3>1 DEF Ends
  <2> QED
    BY <1>4, <2>1, <2>2, <2>3, <2>4
<1>6. /\ order' \in Orders /\ Successive(order', attempts) /\ Later(order, order')
      /\ SameFills(order, order')
  <2>1. CASE m.kind = "place" /\ Opens(order, order', c)
    BY <1>1, <1>3, <2>1, OpensLater
  <2>2. CASE m.kind = "replace" /\ Swaps(order, order', c, s)
    BY <1>1, <1>3, <2>2, SwapsLater
  <2>3. CASE Ends(order, order', "zero")
    BY <1>1, <2>3, EndsLater
  <2> QED
    BY <1>5, <2>1, <2>2, <2>3
<1>7. /\ UNCHANGED <<durable, fills, shown, phase, w, bounds>> /\ net' \subseteq net
  BY DEF Deliver
<1>8. fills' = Fills(order')
  BY <1>6, <1>7, SameFillsCount DEF OrdersInv
<1> QED
  BY <1>6, <1>7, <1>8, BrokerMoves DEF Typed, BrokerTyped

-----------------------------------------------------------------------------
(* Places of the worker.                                                     *)

LEMMA Init0 == Idle \in Locals
  BY Constants, EmptySeq DEF Idle, Locals, PCs, Phases, RunStates, TERMINAL_STRATEGY_STATES,
     Books, Answers

LEMMA WorkerStep ==
  ASSUME IInv, UNCHANGED <<durable, broker, phase>>, BoundsTyped', w' \in Locals, WorkerInv'
  PROVE  IInv'
<1>1. Typed'
  BY DEF IInv, Typed, BooksTyped, BrokerTyped, durable, broker
<1>2. OrdersInv'
  BY DEF IInv, OrdersInv, NetInv, durable, broker
<1>3. RecordInv'
  BY DEF IInv, RecordInv, BooksInv, ExitsInv, ExitRows, Latest, durable, broker
<1> QED
  BY <1>1, <1>2, <1>3 DEF IInv

\* At these places nothing is pending.
Calm == {"idle", "recEntry", "recEntryDone", "recTerm", "recExit", "recExitDone", "recFinal",
         "decide", "kill", "cancelId"}

LEMMA CalmPlace ==
  ASSUME w'.pc \in Calm, ~w'.again, w'.how # "cancel",
         w'.pos => HasFill(order', 0), w'.ec = "CANCELED" => chain'[0] = "CANCELED"
  PROVE  WorkerInv'
  BY DEF Calm, WorkerInv, AnswerInv, PlanInv, PlaceInv

LEMMA IdlePlace ==
  ASSUME w' = Idle
  PROVE  w' \in Locals /\ WorkerInv'
<1>1. w'.pc = "idle" /\ ~w'.again /\ w'.how = "order" /\ ~w'.pos /\ w'.ec = "NONE"
  BY DEF Idle
<1> QED
  BY <1>1, Init0, CalmPlace DEF Calm

LEMMA Going ==
  ASSUME w \in Locals, NEW l \in PCs, Goto(l)
  PROVE  /\ w' \in Locals /\ w'.pc = l
         /\ w'.act = w.act /\ w'.st = w.st /\ w'.ec = w.ec /\ w'.ords = w.ords /\ w'.pos = w.pos
         /\ w'.ef = w.ef /\ w'.c = w.c /\ w'.how = w.how /\ w'.res = w.res /\ w'.again = w.again
         /\ w'.err = w.err /\ w'.todo = w.todo /\ w'.ret = w.ret
  BY DEF Goto, Locals

\* Going on to such a place from one where nothing was to be repeated.
LEMMA CalmGoto ==
  ASSUME w \in Locals, WorkerInv, NEW l \in Calm, Goto(l), ~w.again, w.how # "cancel",
         UNCHANGED <<chain, order>>
  PROVE  w' \in Locals /\ WorkerInv'
<1>1. l \in PCs
  BY DEF Calm, PCs
<1>2. /\ w' \in Locals /\ w'.pc = l /\ w'.again = w.again /\ w'.how = w.how
      /\ w'.pos = w.pos /\ w'.ec = w.ec
  BY <1>1, Going
<1> QED
  BY <1>2, CalmPlace DEF WorkerInv, PlaceInv

\* An exception, wherever it is raised.
LEMMA Failing ==
  ASSUME Typed, WorkerInv, Fail, UNCHANGED <<chain, order, attempts>>
  PROVE  w' \in Locals /\ WorkerInv'
<1> w \in Locals
  BY DEF Typed
<1>1. CASE w.again
  <2>1. /\ w' \in Locals /\ w'.pc = "relook" /\ w'.again = FALSE /\ w'.c = w.c
        /\ w'.how = w.how /\ w'.pos = w.pos /\ w'.ec = w.ec
    BY ZenonT(40), <1>1 DEF Fail, Locals, PCs
  <2>2. attempts[w.c] > 0 /\ w.how = "order"
    BY <1>1 DEF WorkerInv, PlaceInv
  <2> QED
    BY <2>1, <2>2 DEF WorkerInv, AnswerInv, PlanInv, PlaceInv
<1>2. CASE ~w.again /\ w.err = "kill"
  <2>1. Goto("kill")
    BY <1>2 DEF Fail, Goto
  <2>2. w.how # "cancel"
    BY <1>2 DEF WorkerInv, PlaceInv
  <2> QED
    BY <1>2, <2>1, <2>2, CalmGoto DEF Calm
<1>3. CASE ~w.again /\ w.err # "kill"
  BY <1>3, IdlePlace DEF Fail
<1> QED
  BY <1>1, <1>2, <1>3

LEMMA Returning ==
  ASSUME Typed, WorkerInv, w.how # "cancel" \/ w.ret = "idle", Return, UNCHANGED <<chain, order>>
  PROVE  w' \in Locals /\ WorkerInv'
<1> w \in Locals
  BY DEF Typed
<1>1. CASE w.ret = "idle"
  BY <1>1, IdlePlace DEF Return
<1>2. CASE w.ret # "idle"
  <2>1. w.ret \in Calm
    BY <1>2 DEF Locals, Calm
  <2>2. Goto(w.ret) /\ ~w.again
    BY <1>2 DEF Return, Goto, WorkerInv, PlaceInv
  <2>3. w.ret \in PCs
    BY <2>1 DEF Calm, PCs
  <2>4. /\ w' \in Locals /\ w'.pc = w.ret /\ w'.again = w.again /\ w'.how = w.how
        /\ w'.pos = w.pos /\ w'.ec = w.ec
    BY <2>2, <2>3 DEF Goto, Locals
  <2> QED
    BY <1>2, <2>1, <2>2, <2>4, CalmPlace DEF WorkerInv, PlaceInv
<1> QED
  BY <1>1, <1>2

-----------------------------------------------------------------------------
(* The cycle: snapshot and reconciliation.                                   *)

LEMMA FaultBound ==
  ASSUME Typed, UNCHANGED <<kills, crashes>>, NoFault \/ Fault
  PROVE  BoundsTyped'
  BY Constants DEF Typed, BoundsTyped, NoFault, Fault

LEMMA AskedBound ==
  ASSUME Typed, UNCHANGED <<kills, crashes>>, NEW id, NEW r, LookedUp(id, r)
  PROVE  BoundsTyped'
  BY FaultBound DEF LookedUp

\* An answer other than "no such order" is what became of the chain.
LEMMA LookupTells ==
  ASSUME Typed, OrdersInv, NEW c \in Chains, NEW s \in Seqs, NEW r \in Answers, r # "absent",
         LookedUp(<<c, s>>, r) \/ r = Seen(<<c, s>>)
  PROVE  /\ order[<<c, s>>] # "absent"
         /\ r = "zero" => Dead(order, c) /\ ~HasFill(order, c)
         /\ r = "filled" => Dead(order, c) /\ HasFill(order, c)
<1>1. r = Seen(<<c, s>>)
  BY DEF LookedUp
<1>2. order[<<c, s>>] # "absent" /\ (r \in {"zero", "filled"} => order[<<c, s>>] = r)
  BY <1>1 DEF Seen
<1> QED
  BY <1>2, OneTells DEF Typed, BrokerTyped, BooksTyped, OrdersInv

LEMMA SnapshotKeeps ==
  ASSUME IInv, BeginCycle \/ ReadOrders \/ ReadPositions
  PROVE  IInv'
<1> w \in Locals /\ run \in RunStates /\ phase \in Phases
  BY DEF IInv, Typed, BooksTyped, BrokerTyped
<1> WorkerInv
  BY DEF IInv
<1>1. UNCHANGED <<durable, broker, phase, bounds>>
  BY DEF BeginCycle, ReadOrders, ReadPositions
<1>2. BoundsTyped'
  BY <1>1 DEF bounds, BoundsTyped, IInv, Typed
<1>3. CASE BeginCycle
  <2>1. /\ w' \in Locals /\ w'.pc = "orders" /\ w'.pos = w.pos /\ w'.ec = w.ec
        /\ w'.again = w.again /\ w'.how = w.how
    BY ZenonT(40), <1>3 DEF BeginCycle, Locals, PCs
  <2>2. ~w.again /\ w.how # "cancel" /\ run \notin TERMINAL_STRATEGY_STATES
    BY <1>3 DEF BeginCycle, At, WorkerInv, PlaceInv
  <2>3. WorkerInv'
    BY <1>1, <2>1, <2>2 DEF WorkerInv, AnswerInv, PlanInv, PlaceInv, durable, broker
  <2> QED
    BY <1>1, <1>2, <2>1, <2>3, WorkerStep
<1>4. CASE ReadOrders
  <2>1. /\ w' \in Locals /\ w'.pc = "positions" /\ w'.pos = w.pos /\ w'.ec = w.ec
        /\ w'.again = w.again /\ w'.how = w.how
    BY ZenonT(40), <1>4 DEF ReadOrders, Locals, PCs, OpenOrders
  <2>2. ~w.again /\ w.how # "cancel" /\ run \notin TERMINAL_STRATEGY_STATES
    BY <1>4 DEF ReadOrders, At, WorkerInv, PlaceInv
  <2>3. WorkerInv'
    BY <1>1, <2>1, <2>2 DEF WorkerInv, AnswerInv, PlanInv, PlaceInv, durable, broker
  <2> QED
    BY <1>1, <1>2, <2>1, <2>3, WorkerStep
<1>5. CASE ReadPositions
  <2>0. PositionShown \in BOOLEAN /\ w' = [w EXCEPT !.pc = "activities", !.pos = PositionShown]
    BY <1>5 DEF ReadPositions, PositionShown
  <2>1. /\ w' \in Locals /\ w'.pc = "activities" /\ w'.pos = PositionShown /\ w'.ec = w.ec
        /\ w'.again = w.again /\ w'.how = w.how
    BY ZenonT(40), <2>0 DEF Locals, PCs
  <2>2. ~w.again /\ w.how # "cancel" /\ run \notin TERMINAL_STRATEGY_STATES
    BY <1>5 DEF ReadPositions, At, WorkerInv, PlaceInv
  <2>3. PositionShown => HasFill(order, 0)
    <3>1. PositionShown => shown > 0
      BY DEF PositionShown, IInv, Typed, BrokerTyped
    <3>2. PositionShown => fills > 0
      BY <3>1 DEF IInv, Typed, BrokerTyped
    <3> QED
      BY <3>2, ExitNeedsEntry DEF IInv
  <2>4. WorkerInv'
    BY <1>1, <2>1, <2>2, <2>3 DEF WorkerInv, AnswerInv, PlanInv, PlaceInv, durable, broker
  <2> QED
    BY <1>1, <1>2, <2>1, <2>4, WorkerStep
<1> QED
  BY <1>3, <1>4, <1>5

LEMMA ReconcileEntryKeeps ==
  ASSUME IInv, ReconcileEntry
  PROVE  IInv'
<1> DEFINE look == w.st \in EntryStates
           ec == IF look THEN chain[0] ELSE "NONE"
<1>0. Typed /\ OrdersInv /\ RecordInv /\ WorkerInv /\ w \in Locals
  BY DEF IInv, Typed
<1>1. UNCHANGED <<durable, broker, phase, kills, crashes>> /\ w.pc = "recEntry"
  BY DEF ReconcileEntry, At
<1>2. ~w.again /\ w.how # "cancel" /\ (w.pos => HasFill(order, 0))
  BY <1>0, <1>1 DEF WorkerInv, PlaceInv
<1>3. ec \in Books /\ (ec = "CANCELED" => chain[0] = "CANCELED") /\ 0 \in Chains
  BY <1>0, Constants DEF Typed, BooksTyped, Books
<1>4. attempts[0] > 0
  BY <1>0 DEF RecordInv, BooksInv
<1>5. \/ \E r \in Answers :
           /\ LookedUp(Latest(0), r)
           /\ w' = IF r = "absent"
                     THEN [w EXCEPT !.ec = ec, !.c = 0, !.pc = "recTerm", !.st = run]
                     ELSE [w EXCEPT !.ec = ec, !.c = 0, !.pc = "bind", !.how = "order", !.res = r,
                                    !.ef = (r = "filled"), !.ret = "recEntryDone"]
      \/ /\ w' = [w EXCEPT !.ec = ec, !.c = 0, !.pc = "recTerm"]
         /\ NoFault
  BY DEF ReconcileEntry, Answers
<1> HIDE DEF ec
<1>6. ASSUME NEW r \in Answers, LookedUp(Latest(0), r), r # "absent",
             w' = [w EXCEPT !.ec = ec, !.c = 0, !.pc = "bind", !.how = "order", !.res = r,
                            !.ef = (r = "filled"), !.ret = "recEntryDone"]
      PROVE  IInv'
  <2>1. /\ order[Latest(0)] # "absent"
        /\ r = "zero" => Dead(order, 0) /\ ~HasFill(order, 0)
        /\ r = "filled" => Dead(order, 0) /\ HasFill(order, 0)
    BY <1>0, <1>3, <1>4, <1>6, LatestIs, LookupTells
  <2> DEFINE filled == r = "filled"
  <2>0. filled \in BOOLEAN /\ w' = [w EXCEPT !.ec = ec, !.c = 0, !.pc = "bind", !.how = "order",
                                          !.res = r, !.ef = filled, !.ret = "recEntryDone"]
    BY <1>6
  <2> HIDE DEF filled
  <2>2. w' \in Locals
    <3> DEFINE v == [w EXCEPT !.ec = ec, !.c = 0, !.pc = "bind"]
    <3>1. v \in Locals /\ w' = [v EXCEPT !.how = "order", !.res = r, !.ef = filled,
                                           !.ret = "recEntryDone"]
      BY ZenonT(40), <1>0, <1>3, <2>0 DEF Locals, PCs
    <3> HIDE DEF v
    <3> QED
      BY ZenonT(40), <2>0, <3>1 DEF Locals
  <2>3. /\ w'.pc = "bind" /\ w'.ec = ec /\ w'.c = 0 /\ w'.how = "order" /\ w'.res = r
        /\ w'.pos = w.pos /\ w'.again = w.again
    BY <1>0, <2>0 DEF Locals
  <2>4. WorkerInv'
    BY <1>1, <1>2, <1>3, <1>4, <1>6, <2>1, <2>3
       DEF WorkerInv, AnswerInv, PlanInv, PlaceInv, durable, broker, Latest
  <2>5. BoundsTyped'
    BY <1>0, <1>1, <1>6, AskedBound
  <2> QED
    BY <1>1, <2>2, <2>4, <2>5, WorkerStep
<1>7. ASSUME NEW st \in RunStates, BoundsTyped',
             w' = [w EXCEPT !.ec = ec, !.c = 0, !.pc = "recTerm", !.st = st]
      PROVE  IInv'
  <2>1. w' \in Locals
    BY ZenonT(40), <1>0, <1>3, <1>7 DEF Locals, PCs
  <2>2. w'.pc = "recTerm" /\ w'.ec = ec /\ w'.how = w.how /\ w'.pos = w.pos /\ w'.again = w.again
    BY <1>0, <1>7 DEF Locals
  <2>3. WorkerInv'
    BY <1>1, <1>2, <1>3, <2>2, CalmPlace DEF Calm, durable, broker
  <2> QED
    BY <1>1, <1>7, <2>1, <2>3, WorkerStep
<1>8. ASSUME NEW r \in Answers, LookedUp(Latest(0), r),
             w' = [w EXCEPT !.ec = ec, !.c = 0, !.pc = "recTerm", !.st = run]
      PROVE  IInv'
  <2>1. run \in RunStates
    BY <1>0 DEF Typed, BooksTyped
  <2> QED
    BY <1>0, <1>1, <1>7, <1>8, <2>1, AskedBound
<1>9. ASSUME w' = [w EXCEPT !.ec = ec, !.c = 0, !.pc = "recTerm"], NoFault
      PROVE  IInv'
  <2>1. w.st \in RunStates /\ w' = [w EXCEPT !.ec = ec, !.c = 0, !.pc = "recTerm", !.st = w.st]
    BY <1>0, <1>9 DEF Locals
  <2> QED
    BY <1>0, <1>1, <1>7, <1>9, <2>1, FaultBound
<1> QED
  BY <1>5, <1>6, <1>8, <1>9

LEMMA ShortPlans ==
  ASSUME NEW o, NEW ch, NEW s \in RunStates, Says(s, o, ch)
  PROVE  /\ <<>> \in Seq(RunStates) /\ Plans(<<>>, o, ch)
         /\ <<s>> \in Seq(RunStates) /\ Plans(<<s>>, o, ch)
         /\ <<"CANCEL_PENDING", s>> \in Seq(RunStates) /\ Plans(<<"CANCEL_PENDING", s>>, o, ch)
<1>1. "CANCEL_PENDING" \in RunStates /\ Says("CANCEL_PENDING", o, ch)
  BY DEF RunStates, WorkingEntryStates, Says, TERMINAL_STRATEGY_STATES
<1>2. <<>> \in Seq(RunStates) /\ Plans(<<>>, o, ch)
  BY DEF Plans
<1>3. <<s>> \in Seq(RunStates) /\ Plans(<<s>>, o, ch)
  BY DEF Plans
<1>4. <<"CANCEL_PENDING", s>> \in Seq(RunStates)
  BY <1>1
<1>5. Plans(<<"CANCEL_PENDING", s>>, o, ch)
  <2> DEFINE q == <<"CANCEL_PENDING", s>>
  <2>1. Len(q) = 2 /\ q[1] = "CANCEL_PENDING" /\ q[2] = s
    OBVIOUS
  <2>2. \A i \in 1 .. 2 : i = 1 \/ i = 2
    OBVIOUS
  <2> HIDE DEF q
  <2>3. Plans(q, o, ch)
    BY <1>1, <2>1, <2>2 DEF Plans
  <2> QED
    BY <2>3 DEF q
<1> QED
  BY <1>2, <1>3, <1>4, <1>5

LEMMA RunStep ==
  ASSUME IInv, run' \in RunStates, Says(run', order, chain), kill' \in BOOLEAN,
         UNCHANGED <<chain, exits, attempts, bound, broker, phase>>, BoundsTyped',
         w' \in Locals, WorkerInv'
  PROVE  IInv'
<1>1. Typed'
  BY DEF IInv, Typed, BooksTyped, BrokerTyped, broker
<1>2. OrdersInv'
  BY DEF IInv, OrdersInv, NetInv, broker
<1>3. RecordInv'
  BY DEF IInv, RecordInv, BooksInv, ExitsInv, ExitRows, Latest, broker
<1> QED
  BY <1>1, <1>2, <1>3 DEF IInv

LEMMA CheckActivitiesKeeps ==
  ASSUME IInv, CheckActivities
  PROVE  IInv'
<1>0. Typed /\ WorkerInv /\ w \in Locals
  BY DEF IInv, Typed
<1>1. UNCHANGED <<broker, phase, crashes, faults>> /\ w.pc = "activities"
  BY DEF CheckActivities, At
<1>2. ~w.again /\ w.how # "cancel"
  BY <1>0, <1>1 DEF WorkerInv, PlaceInv
<1>3. CASE Goto("recEntry") /\ UNCHANGED <<durable, kills>>
  <2>1. w' \in Locals /\ WorkerInv'
    BY <1>0, <1>1, <1>2, <1>3, CalmGoto DEF Calm, durable, broker
  <2> QED
    BY <1>0, <1>1, <1>3, <2>1, WorkerStep DEF Typed, BoundsTyped
<1>4. CASE /\ kills < MaxKills /\ kills' = kills + 1 /\ kill' = TRUE /\ run' = "RISK_OFF"
           /\ w' = [w EXCEPT !.pc = "recEntry", !.st = "RISK_OFF"]
           /\ UNCHANGED <<chain, exits, attempts, bound>>
  <2>1. /\ w' \in Locals /\ w'.pc = "recEntry" /\ w'.pos = w.pos /\ w'.ec = w.ec
        /\ w'.again = w.again /\ w'.how = w.how
    BY ZenonT(40), <1>0, <1>4 DEF Locals, PCs, RunStates
  <2>2. WorkerInv'
    BY <1>0, <1>1, <1>2, <1>4, <2>1, CalmPlace DEF Calm, WorkerInv, PlaceInv, broker
  <2>3. BoundsTyped'
    BY <1>0, <1>1, <1>4, Constants DEF Typed, BoundsTyped
  <2>4. run' \in RunStates /\ Says(run', order, chain)
    BY <1>4 DEF RunStates, Says, TERMINAL_STRATEGY_STATES
  <2> QED
    BY <1>1, <1>4, <2>1, <2>2, <2>3, <2>4, RunStep
<1> QED
  BY <1>3, <1>4 DEF CheckActivities

\* Steps that only look at what is known and change the run as it was read.
LEMMA CalmStep ==
  ASSUME IInv, UNCHANGED <<durable, broker, phase>>, BoundsTyped',
         w' \in Locals, w'.pc \in Calm, w'.pos = w.pos, w'.ec = w.ec,
         ~w'.again, w'.how # "cancel"
  PROVE  IInv'
<1>1. WorkerInv'
  BY CalmPlace DEF IInv, WorkerInv, PlaceInv, durable, broker
<1> QED
  BY <1>1, WorkerStep

LEMMA ReconcileDoneKeeps ==
  ASSUME IInv, ReconcileEntryDone \/ ReconcileExitDone
  PROVE  IInv'
<1>0. Typed /\ WorkerInv /\ w \in Locals /\ run \in RunStates
  BY DEF IInv, Typed, BooksTyped
<1>1. UNCHANGED <<durable, broker, phase, bounds>> /\ w.pc \in {"recEntryDone", "recExitDone"}
  BY DEF ReconcileEntryDone, ReconcileExitDone, At
<1>2. ~w.again /\ w.how # "cancel"
  BY <1>0, <1>1 DEF WorkerInv, PlaceInv
<1>3. PICK l \in {"recTerm", "recFinal"} : w' = [w EXCEPT !.pc = l, !.st = run]
  BY DEF ReconcileEntryDone, ReconcileExitDone
<1>4. /\ w' \in Locals /\ w'.pc = l /\ w'.pos = w.pos /\ w'.ec = w.ec
      /\ w'.again = w.again /\ w'.how = w.how
  BY ZenonT(40), <1>0, <1>3 DEF Locals, PCs
<1> QED
  BY <1>0, <1>1, <1>2, <1>4, CalmStep DEF Calm, Typed, BoundsTyped, bounds

LEMMA TerminalEntryKeeps ==
  ASSUME IInv, TerminalEntry
  PROVE  IInv'
<1>0. Typed /\ WorkerInv /\ RecordInv /\ w \in Locals
  BY DEF IInv, Typed
<1>1. UNCHANGED <<durable, broker, phase, bounds>> /\ w.pc = "recTerm"
  BY DEF TerminalEntry, At
<1>2. ~w.again /\ w.how # "cancel" /\ BoundsTyped'
  BY <1>0, <1>1 DEF WorkerInv, PlaceInv, Typed, BoundsTyped, bounds
<1>3. CASE Goto("recExit")
  <2>1. "recExit" \in PCs /\ "recExit" \in Calm
    BY DEF PCs, Calm
  <2>2. /\ w' \in Locals /\ w'.pc = "recExit" /\ w'.pos = w.pos /\ w'.ec = w.ec
        /\ w'.again = w.again /\ w'.how = w.how
    BY <1>0, <1>3, <2>1, Going
  <2> QED
    BY <1>1, <1>2, <2>1, <2>2, CalmStep
<1>4. ASSUME w.ec \in TerminalChainStates \ {"FILLED"},
             NEW todo, todo \in {<<"CANCEL_PENDING", "NO_TRADE">>, <<"NO_TRADE">>},
             w' = [w EXCEPT !.pc = "run", !.st = "NO_TRADE", !.ret = "recExit", !.err = "raise",
                            !.todo = todo]
      PROVE  IInv'
  <2>1. w.ec = "CANCELED"
    BY <1>0, <1>4 DEF TerminalChainStates, Locals, Books
  <2>2. chain[0] = "CANCELED"
    BY <1>0, <2>1 DEF WorkerInv, PlaceInv
  <2>3. "NO_TRADE" \in RunStates /\ Says("NO_TRADE", order, chain)
    BY <2>2 DEF RunStates, TERMINAL_STRATEGY_STATES, Says, Done
  <2>4. todo \in Seq(RunStates) /\ Plans(todo, order, chain)
    BY <1>4, <2>3, ShortPlans
  <2>5. /\ w' \in Locals /\ w'.pc = "run" /\ w'.pos = w.pos /\ w'.ec = w.ec
        /\ w'.again = w.again /\ w'.how = w.how /\ w'.todo = todo
    BY ZenonT(40), <1>0, <1>4, <2>3, <2>4 DEF Locals, PCs
  <2>6. WorkerInv'
    BY <1>0, <1>1, <1>2, <2>4, <2>5 DEF WorkerInv, AnswerInv, PlanInv, PlaceInv, durable, broker
  <2> QED
    BY <1>1, <1>2, <2>5, <2>6, WorkerStep
<1>5. \/ Goto("recExit")
      \/ /\ w.ec \in TerminalChainStates \ {"FILLED"}
         /\ \E todo \in {<<"CANCEL_PENDING", "NO_TRADE">>, <<"NO_TRADE">>} :
              w' = [w EXCEPT !.pc = "run", !.st = "NO_TRADE", !.ret = "recExit", !.err = "raise",
                             !.todo = todo]
  BY DEF TerminalEntry
<1> QED
  BY <1>3, <1>4, <1>5

\* The last exit chain, when there is one.
LEMMA LastExitIs ==
  ASSUME Typed, RecordInv, LastExit # 0
  PROVE  /\ LastExit \in ExitChains /\ LastExit \in Chains /\ chain[LastExit] # "NONE"
         /\ \A d \in ExitChains : chain[d] # "NONE" => d <= LastExit
<1>1. ExitRows # {}
  BY DEF LastExit
<1>2. \E c \in ExitRows : \A d \in ExitRows : d <= c
  BY <1>1 DEF RecordInv, ExitsInv
<1>3. LastExit \in ExitRows /\ \A d \in ExitRows : d <= LastExit
  BY <1>1, <1>2 DEF LastExit
<1> QED
  BY <1>3, Constants DEF ExitRows

LEMMA ReconcileExitKeeps ==
  ASSUME IInv, ReconcileExit
  PROVE  IInv'
<1>0. Typed /\ OrdersInv /\ RecordInv /\ WorkerInv /\ w \in Locals /\ run \in RunStates
  BY DEF IInv, Typed, BooksTyped
<1>1. UNCHANGED <<durable, broker, phase, kills, crashes>> /\ w.pc = "recExit"
  BY DEF ReconcileExit, At
<1>2. ~w.again /\ w.how # "cancel"
  BY <1>0, <1>1 DEF WorkerInv, PlaceInv
<1> DEFINE c == LastExit
<1>3. \/ \E r \in Answers :
           /\ LookedUp(Latest(c), r) /\ c # 0 /\ Attempted(c)
           /\ w' = IF r = "absent"
                     THEN [w EXCEPT !.pc = "recFinal", !.st = run]
                     ELSE [w EXCEPT !.pc = "bind", !.how = "order", !.res = r,
                                    !.c = c, !.ret = "recExitDone"]
      \/ Goto("recFinal") /\ NoFault
  BY DEF ReconcileExit, Answers
<1>4. c # 0 => c \in Chains
  BY <1>0, LastExitIs
<1> HIDE DEF c
<1>5. CASE Goto("recFinal") /\ NoFault
  <2>1. "recFinal" \in PCs /\ "recFinal" \in Calm
    BY DEF PCs, Calm
  <2>2. /\ w' \in Locals /\ w'.pc = "recFinal" /\ w'.pos = w.pos /\ w'.ec = w.ec
        /\ w'.again = w.again /\ w'.how = w.how
    BY <1>0, <1>5, <2>1, Going
  <2> QED
    BY <1>0, <1>1, <1>2, <1>5, <2>1, <2>2, CalmStep, FaultBound
<1>6. ASSUME NEW r \in Answers, LookedUp(Latest(c), r), c # 0, Attempted(c),
             w' = [w EXCEPT !.pc = "recFinal", !.st = run]
      PROVE  IInv'
  <2>1. /\ w' \in Locals /\ w'.pc = "recFinal" /\ w'.pos = w.pos /\ w'.ec = w.ec
        /\ w'.again = w.again /\ w'.how = w.how
    BY ZenonT(40), <1>0, <1>6 DEF Locals, PCs
  <2> QED
    BY <1>0, <1>1, <1>2, <1>6, <2>1, CalmStep, AskedBound DEF Calm
<1>7. ASSUME NEW r \in Answers, LookedUp(Latest(c), r), c # 0, Attempted(c), r # "absent",
             w' = [w EXCEPT !.pc = "bind", !.how = "order", !.res = r,
                            !.c = c, !.ret = "recExitDone"]
      PROVE  IInv'
  <2>0. c \in Chains /\ attempts[c] > 0
    BY <1>4, <1>7 DEF Attempted
  <2>1. /\ order[Latest(c)] # "absent"
        /\ r = "zero" => Dead(order, c) /\ ~HasFill(order, c)
        /\ r = "filled" => Dead(order, c) /\ HasFill(order, c)
    BY <1>0, <1>7, <2>0, LatestIs, LookupTells
  <2>2. w' \in Locals
    BY ZenonT(40), <1>0, <1>7, <2>0 DEF Locals, PCs
  <2>3. /\ w'.pc = "bind" /\ w'.ec = w.ec /\ w'.c = c /\ w'.how = "order" /\ w'.res = r
        /\ w'.pos = w.pos /\ w'.again = w.again
    BY <1>0, <1>7 DEF Locals
  <2>4. WorkerInv'
    BY <1>0, <1>1, <1>2, <1>7, <2>0, <2>1, <2>3
       DEF WorkerInv, AnswerInv, PlanInv, PlaceInv, durable, broker, Latest
  <2> QED
    BY <1>0, <1>1, <1>7, <2>2, <2>4, WorkerStep, AskedBound
<1> QED
  BY <1>3, <1>5, <1>6, <1>7

LEMMA ReconcilePositionsKeeps ==
  ASSUME IInv, ReconcilePositions
  PROVE  IInv'
<1>0. Typed /\ OrdersInv /\ RecordInv /\ WorkerInv /\ w \in Locals
  BY DEF IInv, Typed
<1>1. UNCHANGED <<durable, broker, phase, bounds>> /\ w.pc = "recFinal"
  BY DEF ReconcilePositions, At
<1>2. ~w.again /\ w.how # "cancel" /\ BoundsTyped'
  BY <1>0, <1>1 DEF WorkerInv, PlaceInv, Typed, BoundsTyped, bounds
<1>3. AllOrderChainsTerminal => Done(chain)
  <2> SUFFICES ASSUME AllOrderChainsTerminal PROVE Done(chain)
    OBVIOUS
  <2>1. Attempted(0)
    BY <1>0 DEF RecordInv, BooksInv, Attempted
  <2>2. chain[0] \in TerminalChainStates
    BY <2>1, Constants DEF AllOrderChainsTerminal
  <2>3. chain[0] \in {"CANCELED", "FILLED"}
    BY <1>0, <2>2, Constants DEF TerminalChainStates, Typed, BooksTyped, Books
  <2>4. chain[0] = "FILLED" => \E c \in Chains \ {0} : chain[c] = "FILLED"
    BY DEF AllOrderChainsTerminal
  <2> QED
    BY <2>3, <2>4, Constants DEF Done
<1>4. ASSUME NEW s \in RunStates, Says(s, order, chain),
             w' = [w EXCEPT !.pc = "run", !.todo = <<s>>, !.ret = "decide", !.err = "raise"]
      PROVE  IInv'
  <2> DEFINE todo == <<s>>
  <2>1. todo \in Seq(RunStates) /\ Plans(todo, order, chain)
    BY <1>4, ShortPlans
  <2>2. w' = [w EXCEPT !.pc = "run", !.todo = todo, !.ret = "decide", !.err = "raise"]
    BY <1>4
  <2> HIDE DEF todo
  <2>3. /\ w' \in Locals /\ w'.pc = "run" /\ w'.pos = w.pos /\ w'.ec = w.ec
        /\ w'.again = w.again /\ w'.how = w.how /\ w'.todo = todo
    BY ZenonT(40), <1>0, <2>1, <2>2 DEF Locals, PCs
  <2>4. WorkerInv'
    BY <1>0, <1>1, <1>2, <2>1, <2>3 DEF WorkerInv, AnswerInv, PlanInv, PlaceInv, durable, broker
  <2> QED
    BY <1>1, <1>2, <2>3, <2>4, WorkerStep
<1>5. CASE /\ w.pos
           /\ w' = [w EXCEPT !.pc = "run", !.todo = <<"POSITION_OPEN">>, !.ret = "decide",
                             !.err = "raise"]
  <2>1. "POSITION_OPEN" \in RunStates /\ Says("POSITION_OPEN", order, chain)
    BY <1>0, <1>5 DEF RunStates, Says, TERMINAL_STRATEGY_STATES, WorkerInv, PlaceInv
  <2> QED
    BY <1>4, <1>5, <2>1
<1>6. CASE /\ AllOrderChainsTerminal
           /\ w' = [w EXCEPT !.pc = "run", !.todo = <<"FLAT">>, !.ret = "decide", !.err = "raise"]
  <2>1. "FLAT" \in RunStates /\ Says("FLAT", order, chain)
    BY <1>3, <1>6 DEF RunStates, Says, TERMINAL_STRATEGY_STATES
  <2> QED
    BY <1>4, <1>6, <2>1
<1>7. CASE w' = [w EXCEPT !.pc = "decide"]
  <2>1. /\ w' \in Locals /\ w'.pc = "decide" /\ w'.pos = w.pos /\ w'.ec = w.ec
        /\ w'.again = w.again /\ w'.how = w.how
    BY <1>0, <1>7 DEF Locals, PCs
  <2> QED
    BY <1>1, <1>2, <2>1, CalmStep DEF Calm
<1> QED
  BY <1>5, <1>6, <1>7 DEF ReconcilePositions, EntryShown

-----------------------------------------------------------------------------
(* Deciding, the kill switch, the crash.                                     *)

LEMMA ManageKeeps ==
  ASSUME IInv, Manage
  PROVE  IInv'
<1>0. Typed /\ OrdersInv /\ RecordInv /\ WorkerInv /\ w \in Locals /\ run \in RunStates
  BY DEF IInv, Typed, BooksTyped
<1>1. UNCHANGED <<durable, broker, phase, bounds>> /\ w.pc = "decide"
  BY DEF Manage, At
<1>2. ~w.again /\ w.how # "cancel" /\ BoundsTyped' /\ (w.pos => HasFill(order, 0))
  BY <1>0, <1>1 DEF WorkerInv, PlaceInv, Typed, BoundsTyped, bounds
<1>3. CASE w' = Idle
  BY <1>1, <1>2, <1>3, IdlePlace, WorkerStep
<1>4. CASE w' = [w EXCEPT !.pc = "cancelId"]
  <2>1. /\ w' \in Locals /\ w'.pc = "cancelId" /\ w'.pos = w.pos /\ w'.ec = w.ec
        /\ w'.again = w.again /\ w'.how = w.how
    BY <1>0, <1>4 DEF Locals, PCs
  <2> QED
    BY <1>1, <1>2, <2>1, CalmStep DEF Calm
<1>5. ASSUME NEW c \in Chains, chain[c] # "NONE", w' = [w EXCEPT !.pc = "reprice", !.c = c]
      PROVE  IInv'
  <2>1. /\ w' \in Locals /\ w'.pc = "reprice" /\ w'.pos = w.pos /\ w'.ec = w.ec /\ w'.c = c
        /\ w'.again = w.again /\ w'.how = w.how
    BY ZenonT(40), <1>0, <1>5 DEF Locals, PCs
  <2>2. WorkerInv'
    BY <1>0, <1>1, <1>2, <1>5, <2>1 DEF WorkerInv, AnswerInv, PlanInv, PlaceInv, durable, broker
  <2> QED
    BY <1>1, <1>2, <2>1, <2>2, WorkerStep
<1>6. CASE w' = [w EXCEPT !.pc = "startExit"] /\ HasFill(order, 0)
  <2>1. /\ w' \in Locals /\ w'.pc = "startExit" /\ w'.pos = w.pos /\ w'.ec = w.ec
        /\ w'.again = w.again /\ w'.how = w.how
    BY <1>0, <1>6 DEF Locals, PCs
  <2>2. WorkerInv'
    BY <1>0, <1>1, <1>2, <1>6, <2>1 DEF WorkerInv, AnswerInv, PlanInv, PlaceInv, durable, broker
  <2> QED
    BY <1>1, <1>2, <2>1, <2>2, WorkerStep
<1>7. chain[0] # "NONE" /\ (LastExit # 0 => LastExit \in Chains /\ chain[LastExit] # "NONE")
  BY <1>0, LastExitIs, Constants DEF RecordInv, BooksInv
<1>8. run = "POSITION_OPEN" => HasFill(order, 0)
  BY <1>0 DEF RecordInv, Says
<1>9. \/ w' = Idle
      \/ w' = [w EXCEPT !.pc = "cancelId"]
      \/ w' = [w EXCEPT !.pc = "reprice", !.c = 0]
      \/ w' = [w EXCEPT !.pc = "reprice", !.c = LastExit] /\ LastExit # 0
      \/ w' = [w EXCEPT !.pc = "startExit"] /\ (w.pos \/ run = "POSITION_OPEN")
  <2> DEFINE exposed == w.pos /\ w.act # "closed"
  <2>1. CASE run \in TERMINAL_STRATEGY_STATES
    BY <2>1 DEF Manage, TERMINAL_STRATEGY_STATES, WorkingEntryStates, ExitStates
  <2>2. CASE run = "RISK_OFF"
    <3>1. w' = CASE AttemptIsOpen(0) -> [w EXCEPT !.pc = "cancelId"]
                 [] ~AttemptIsOpen(0) /\ LastExit # 0 /\ AttemptIsOpen(LastExit) ->
                      IF exposed THEN [w EXCEPT !.pc = "reprice", !.c = LastExit] ELSE Idle
                 [] OTHER ->
                      IF w.ords = {} /\ exposed THEN [w EXCEPT !.pc = "startExit"] ELSE Idle
      BY <2>2 DEF Manage, TERMINAL_STRATEGY_STATES, WorkingEntryStates, ExitStates
    <3> QED
      BY <3>1
  <2>3. CASE run \in WorkingEntryStates
    <3>1. w' = CASE Action = "CANCEL_UNFILLED" -> [w EXCEPT !.pc = "cancelId"]
                 [] Action = "ENTRY_SCAN" -> [w EXCEPT !.pc = "reprice", !.c = 0]
                 [] OTHER -> Idle
      BY <2>3 DEF Manage, TERMINAL_STRATEGY_STATES, WorkingEntryStates, ExitStates
    <3> QED
      BY <3>1
  <2>4. CASE run = "POSITION_OPEN"
    <3>1. w' = IF Action = "EXIT" THEN [w EXCEPT !.pc = "startExit"] ELSE Idle
      BY <2>4 DEF Manage, TERMINAL_STRATEGY_STATES, WorkingEntryStates, ExitStates
    <3> QED
      BY <2>4, <3>1
  <2>5. CASE run \in ExitStates
    <3>1. w' = IF Action = "EXIT" /\ LastExit # 0
                 THEN [w EXCEPT !.pc = "reprice", !.c = LastExit] ELSE Idle
      BY <2>5 DEF Manage, TERMINAL_STRATEGY_STATES, WorkingEntryStates, ExitStates
    <3> QED
      BY <3>1
  <2> QED
    BY <1>0, <2>1, <2>2, <2>3, <2>4, <2>5 DEF RunStates
<1>10. 0 \in Chains
  BY Constants
<1> QED
  BY <1>2, <1>3, <1>4, <1>5, <1>6, <1>7, <1>8, <1>9, <1>10

LEMMA RiskOff ==
  ASSUME RecordInv, run \in RunStates,
         run' = IF run \in TERMINAL_STRATEGY_STATES THEN run ELSE "RISK_OFF"
  PROVE  /\ run' \in RunStates /\ Says(run', order, chain)
         /\ run \notin TERMINAL_STRATEGY_STATES => run' \notin TERMINAL_STRATEGY_STATES
  BY DEF RecordInv, RunStates, Says, TERMINAL_STRATEGY_STATES

LEMMA KillKeeps ==
  ASSUME IInv, ActivateKill \/ OperatorKill
  PROVE  IInv'
<1>0. Typed /\ RecordInv /\ WorkerInv /\ w \in Locals /\ run \in RunStates
  BY DEF IInv, Typed, BooksTyped
<1>1. /\ UNCHANGED <<chain, exits, attempts, bound, broker, phase>> /\ kill' \in BOOLEAN
      /\ run' = IF run \in TERMINAL_STRATEGY_STATES THEN run ELSE "RISK_OFF"
  BY DEF ActivateKill, OperatorKill
<1>2. /\ run' \in RunStates /\ Says(run', order, chain)
      /\ run \notin TERMINAL_STRATEGY_STATES => run' \notin TERMINAL_STRATEGY_STATES
  BY <1>0, <1>1, RiskOff
<1>3. BoundsTyped'
  BY <1>0, Constants DEF ActivateKill, OperatorKill, Typed, BoundsTyped, bounds
<1>4. w' \in Locals /\ WorkerInv'
  <2>1. CASE ActivateKill
    BY <2>1, IdlePlace DEF ActivateKill, End
  <2>2. CASE OperatorKill
    <3>1. w' = w
      BY <2>2 DEF OperatorKill
    <3> QED
      BY <1>0, <1>1, <1>2, <3>1
         DEF WorkerInv, AnswerInv, PlanInv, PlaceInv, Latest, broker
  <2> QED
    BY <2>1, <2>2
<1> QED
  BY <1>1, <1>2, <1>3, <1>4, RunStep

LEMMA CrashKeeps ==
  ASSUME IInv, Crash
  PROVE  IInv'
<1>1. UNCHANGED <<durable, broker, phase, kills, faults>> /\ w' = Idle
  BY DEF Crash
<1>2. BoundsTyped'
  BY Constants DEF Crash, IInv, Typed, BoundsTyped
<1> QED
  BY <1>1, <1>2, IdlePlace, WorkerStep

LEMMA StutterKeeps ==
  ASSUME IInv, UNCHANGED vars
  PROVE  IInv'
<1>1. UNCHANGED <<durable, broker, phase, w, bounds>>
  BY DEF vars
<1>2. w' \in Locals /\ BoundsTyped'
  BY <1>1 DEF IInv, Typed, BoundsTyped, bounds
<1>3. WorkerInv'
  BY <1>1 DEF IInv, WorkerInv, AnswerInv, PlanInv, PlaceInv, Latest, durable, broker
<1> QED
  BY <1>1, <1>2, <1>3, WorkerStep

-----------------------------------------------------------------------------
(* Writing a chain state.                                                    *)

\* What the books must say for a chain to be put in the state s.
MayBe(c, s) ==
  /\ s = "PLANNED" => attempts[c] = 0
  /\ s = "SUBMITTING" => attempts[c] <= 1
  /\ s \notin {"PLANNED", "SUBMITTING"} => attempts[c] > 0
  /\ s = "REPLACEMENT_PENDING" => Latest(c) \in bound \/ attempts[c] > 1
  /\ s = "CANCELED" => Dead(order, c) /\ ~HasFill(order, c)
  /\ s = "FILLED" => Dead(order, c) /\ HasFill(order, c)

\* A closed chain stays what it is.
Closed == {"CANCELED", "FILLED"}
KeepsClosed(ch, next) == \A c \in Chains : ch[c] \in Closed => next[c] = ch[c]

LEMMA ClosedStays ==
  ASSUME NEW ch, NEW next, KeepsClosed(ch, next)
  PROVE  \A s, o : Says(s, o, ch) => Says(s, o, next)
  BY Constants DEF KeepsClosed, Closed, Says, Done

LEMMA ChainWritten ==
  ASSUME IInv, NEW c \in Chains, NEW s \in Books \ {"NONE"}, chain' = [chain EXCEPT ![c] = s],
         UNCHANGED <<run, kill, exits, attempts, bound, broker, phase>>,
         chain[c] # "NONE", chain[c] \in Closed => s = chain[c], MayBe(c, s),
         BoundsTyped', w' \in Locals, WorkerInv'
  PROVE  IInv'
<1>0. Typed /\ OrdersInv /\ RecordInv /\ chain \in [Chains -> Books]
  BY DEF IInv, Typed, BooksTyped
<1>1. \A d \in Chains : chain'[d] = IF d = c THEN s ELSE chain[d]
  BY <1>0
<1>2. Typed'
  BY <1>0 DEF Typed, BooksTyped, BrokerTyped, broker
<1>3. OrdersInv'
  BY <1>0 DEF OrdersInv, NetInv, broker
<1>4. BooksInv'
  BY <1>0, <1>1 DEF RecordInv, BooksInv, MayBe, Latest, broker
<1>5. ExitsInv'
  <2>1. ExitRows' = ExitRows
    BY <1>1, Constants DEF ExitRows
  <2>2. \A d \in ExitChains : chain'[d] # "NONE" => HasFill(order', 0) /\ d <= exits'
    BY <1>0, <1>1, Constants DEF RecordInv, ExitsInv, broker
  <2>3. \A d, e \in ExitChains :
          chain'[d] # "NONE" /\ chain'[e] # "NONE" /\ d < e => chain'[d] = "CANCELED"
    BY <1>0, <1>1, Constants DEF RecordInv, ExitsInv, Closed
  <2> QED
    BY <1>0, <2>1, <2>2, <2>3 DEF RecordInv, ExitsInv
<1>6. KeepsClosed(chain, chain')
  BY <1>1 DEF KeepsClosed
<1>7. Says(run, order, chain)'
  BY <1>0, <1>6, ClosedStays DEF RecordInv, broker
<1> QED
  BY <1>2, <1>3, <1>4, <1>5, <1>7 DEF IInv, RecordInv

LEMMA ClosedChainStep ==
  ASSUME NEW from \in Closed, NEW to, ChainStep(from, to)
  PROVE  to = from
<1>1. CASE from = "CANCELED"
  BY <1>1 DEF ChainStep, ORDER_CHAIN_TRANSITIONS
<1>2. CASE from = "FILLED"
  BY <1>2 DEF ChainStep, ORDER_CHAIN_TRANSITIONS
<1> QED
  BY <1>1, <1>2 DEF Closed

LEMMA BindKeeps ==
  ASSUME IInv, Bind
  PROVE  IInv'
<1>0. Typed /\ OrdersInv /\ RecordInv /\ WorkerInv /\ w \in Locals /\ w.c \in Chains
  BY DEF IInv, Typed, Locals
<1>1. /\ bound' = bound \cup {Latest(w.c)} /\ w.pc = "bind"
      /\ UNCHANGED <<run, kill, chain, exits, attempts, broker, phase, bounds>>
  BY DEF Bind, At
<1>2. w.how # "cancel" /\ attempts[w.c] > 0 /\ order[Latest(w.c)] # "absent"
  BY <1>0, <1>1 DEF WorkerInv, PlaceInv, AnswerInv
<1>3. Latest(w.c) \in OrderIds
  BY <1>0, <1>2, LatestIs
<1>4. w' \in Locals /\ WorkerInv'
  <2>1. CASE Return
    BY <1>0, <1>1, <1>2, <2>1, Returning DEF broker
  <2>2. CASE Goto("chain")
    <3>1. "chain" \in PCs
      BY DEF PCs
    <3>2. /\ w' \in Locals /\ w'.pc = "chain" /\ w'.pos = w.pos /\ w'.ec = w.ec /\ w'.c = w.c
          /\ w'.res = w.res /\ w'.again = w.again /\ w'.how = w.how /\ w'.ret = w.ret
      BY <1>0, <2>2, <3>1, Going
    <3> QED
      BY <1>0, <1>1, <1>2, <3>2 DEF WorkerInv, AnswerInv, PlanInv, PlaceInv, broker
  <2> QED
    BY <2>1, <2>2 DEF Bind
<1>5. Typed'
  BY <1>0, <1>1, <1>3, <1>4 DEF Typed, BooksTyped, BrokerTyped, BoundsTyped, broker, bounds
<1>6. OrdersInv'
  BY <1>0, <1>1, <1>2 DEF OrdersInv, NetInv, broker
<1>7. RecordInv'
  BY <1>0, <1>1 DEF RecordInv, BooksInv, ExitsInv, ExitRows, Latest, broker
<1> QED
  BY <1>4, <1>5, <1>6, <1>7 DEF IInv

\* Every run transition that follows an answer is true once the answer is booked.
LEMMA RunStepsSay ==
  ASSUME NEW how \in {"order", "replace", "cancel"}, NEW c \in Chains, NEW r \in Answers,
         NEW s, NEW o, NEW ch,
         r # "absent", how = "cancel" => r # "open" /\ c = 0,
         r = "zero" /\ c = 0 => ch[0] = "CANCELED",
         r = "filled" /\ c = 0 => HasFill(o, 0)
  PROVE  RunSteps(how, c, r, s) \in Seq(RunStates) /\ Plans(RunSteps(how, c, r, s), o, ch)
<1> DEFINE steps == RunSteps(how, c, r, s)
           fine == {"RISK_OFF", "EXIT_PENDING", "ORDER_PENDING"}
<1>1. \A t \in fine : t \in RunStates /\ Says(t, o, ch)
  BY DEF RunStates, WorkingEntryStates, ExitStates, Says, TERMINAL_STRATEGY_STATES
<1>2. r = "zero" /\ c = 0 => \A t \in {"FLAT", "NO_TRADE"} : t \in RunStates /\ Says(t, o, ch)
  BY DEF RunStates, TERMINAL_STRATEGY_STATES, Says, Done
<1>3. r = "filled" /\ c = 0 => "POSITION_OPEN" \in RunStates /\ Says("POSITION_OPEN", o, ch)
  BY DEF RunStates, TERMINAL_STRATEGY_STATES, Says
<1>4. \/ steps = <<>>
      \/ \E t \in fine : steps = <<t>>
      \/ r = "zero" /\ c = 0 /\ \E t \in {"FLAT", "NO_TRADE"} :
                                   steps \in {<<t>>, <<"CANCEL_PENDING", t>>}
      \/ r = "filled" /\ c = 0 /\ steps = <<"POSITION_OPEN">>
  <2>1. r \in {"open", "filled", "zero"}
    BY DEF Answers
  <2>2. CASE how = "cancel"
    <3>1. CASE r = "zero"
      BY <2>2, <3>1 DEF RunSteps
    <3>2. CASE r = "filled"
      BY <2>2, <3>2 DEF RunSteps
    <3> QED
      BY <2>1, <2>2, <3>1, <3>2
  <2>3. CASE how = "order"
    <3>1. CASE s = "RISK_OFF"
      BY <2>3, <3>1 DEF RunSteps
    <3>2. CASE s # "RISK_OFF" /\ c # 0
      BY <2>3, <3>2 DEF RunSteps
    <3>3. CASE s # "RISK_OFF" /\ c = 0 /\ r = "open"
      BY <2>3, <3>3 DEF RunSteps
    <3>4. CASE s # "RISK_OFF" /\ c = 0 /\ r = "zero"
      BY <2>3, <3>4 DEF RunSteps
    <3>5. CASE s # "RISK_OFF" /\ c = 0 /\ r = "filled"
      BY <2>3, <3>5 DEF RunSteps
    <3> QED
      BY <2>1, <3>1, <3>2, <3>3, <3>4, <3>5
  <2>4. CASE how = "replace"
    <3>1. CASE c = 0 /\ r = "filled"
      BY <2>4, <3>1 DEF RunSteps
    <3>2. CASE r = "open"
      BY <2>4, <3>2 DEF RunSteps
    <3>3. CASE r = "zero"
      BY <2>4, <3>3 DEF RunSteps
    <3>4. CASE c # 0 /\ r = "filled"
      BY <2>4, <3>4 DEF RunSteps
    <3> QED
      BY <2>1, <3>1, <3>2, <3>3, <3>4
  <2> QED
    BY <2>2, <2>3, <2>4
<1> HIDE DEF steps
<1>5. steps \in Seq(RunStates) /\ Plans(steps, o, ch)
  <2>1. CASE steps = <<>>
    BY <1>1, <2>1, ShortPlans
  <2>2. CASE \E t \in fine : steps = <<t>>
    BY <1>1, <2>2, ShortPlans
  <2>3. CASE r = "zero" /\ c = 0 /\ \E t \in {"FLAT", "NO_TRADE"} :
                                   steps \in {<<t>>, <<"CANCEL_PENDING", t>>}
    BY <1>2, <2>3, ShortPlans
  <2>4. CASE r = "filled" /\ c = 0 /\ steps = <<"POSITION_OPEN">>
    BY <1>3, <2>4, ShortPlans
  <2> QED
    BY <1>4, <2>1, <2>2, <2>3, <2>4
<1> QED
  BY <1>5 DEF steps

LEMMA ApplyChainKeeps ==
  ASSUME IInv, ApplyChain
  PROVE  IInv'
<1> DEFINE c == w.c
           s == ChainStateOf(w.res)
           todo == RunSteps(w.how, w.c, w.res, run)
<1>0. /\ Typed /\ OrdersInv /\ RecordInv /\ WorkerInv /\ w \in Locals /\ c \in Chains
      /\ chain \in [Chains -> Books] /\ w.how \in {"order", "replace", "cancel"}
  BY DEF IInv, Typed, BooksTyped, Locals
<1>1. UNCHANGED <<broker, phase, bounds>> /\ w.pc = "chain" /\ BoundsTyped'
  BY <1>0 DEF ApplyChain, At, Typed, BoundsTyped, bounds
<1>2. /\ w.res \in Answers /\ w.res # "absent" /\ attempts[c] > 0
      /\ w.how = "cancel" => w.res # "open" /\ c = 0
      /\ w.res = "zero" => Dead(order, c) /\ ~HasFill(order, c)
      /\ w.res = "filled" => Dead(order, c) /\ HasFill(order, c)
  BY <1>0, <1>1 DEF WorkerInv, AnswerInv, PlaceInv, Locals
<1>3. CASE Fail /\ UNCHANGED durable
  <2>1. w' \in Locals /\ WorkerInv'
    BY <1>0, <1>1, <1>3, Failing DEF durable, broker
  <2> QED
    BY <1>1, <1>3, <2>1, WorkerStep
<1>4. CASE /\ ChainStep(chain[c], s) /\ SetChain(c, s)
           /\ w' = [w EXCEPT !.pc = "run", !.todo = todo]
  <2>1. /\ w.res = "zero" => s = "CANCELED"
        /\ w.res = "filled" => s = "FILLED"
        /\ w.res = "open" => s = "PENDING"
        /\ w.res \in {"open", "filled", "zero"}
    BY <1>2 DEF ChainStateOf, Answers
  <2>2. chain' = [chain EXCEPT ![c] = s] /\ UNCHANGED <<run, kill, exits, attempts, bound>>
    BY <1>4 DEF SetChain
  <2> HIDE DEF s, c, todo
  <2>3. s \in Books \ {"NONE"} /\ chain[c] # "NONE" /\ MayBe(c, s)
    BY <1>0, <1>2, <2>1 DEF Books, MayBe, RecordInv, BooksInv
  <2>4. chain[c] \in Closed => s = chain[c]
    BY <1>4, ClosedChainStep
  <2>5. KeepsClosed(chain, chain')
    BY <1>0, <2>2, <2>4 DEF KeepsClosed
  <2>6. order' = order /\ chain'[c] = s
    BY <1>0, <1>1, <2>2 DEF broker
  <2>7. todo \in Seq(RunStates) /\ Plans(todo, order', chain')
    BY <1>0, <1>2, <2>1, <2>6, RunStepsSay DEF todo, c
  <2>8. /\ w' \in Locals /\ w'.pc = "run" /\ w'.todo = todo /\ w'.pos = w.pos /\ w'.ec = w.ec
        /\ w'.c = w.c /\ w'.again = w.again /\ w'.how = w.how /\ w'.ret = w.ret /\ w'.err = w.err
    <3>1. w' = [w EXCEPT !.pc = "run", !.todo = todo] /\ todo \in Seq(RunStates)
      BY <1>4, <2>7
    <3> QED
      BY ZenonT(40), <1>0, <3>1 DEF Locals, PCs
  <2>9. w'.ec = "CANCELED" => chain'[0] = "CANCELED"
    BY <1>0, <2>5, <2>8, Constants DEF KeepsClosed, Closed, WorkerInv, PlaceInv
  <2>10. WorkerInv'
    BY <1>0, <1>1, <2>2, <2>6, <2>7, <2>8, <2>9 DEF WorkerInv, AnswerInv, PlanInv, PlaceInv
  <2> QED
    BY <1>0, <1>1, <2>2, <2>3, <2>4, <2>8, <2>10, ChainWritten
<1> QED
  BY <1>3, <1>4 DEF ApplyChain

LEMMA ApplyRunKeeps ==
  ASSUME IInv, ApplyRun
  PROVE  IInv'
<1>0. Typed /\ OrdersInv /\ RecordInv /\ WorkerInv /\ w \in Locals /\ w.todo \in Seq(RunStates)
  BY DEF IInv, Typed, Locals
<1>1. UNCHANGED <<broker, phase, bounds>> /\ w.pc = "run" /\ BoundsTyped'
  BY <1>0 DEF ApplyRun, At, Typed, BoundsTyped, bounds
<1>2. Plans(w.todo, order, chain) /\ (w.how = "cancel" => w.ret = "idle")
  BY <1>0, <1>1 DEF WorkerInv, PlanInv, PlaceInv
<1>3. CASE (Return \/ Fail) /\ UNCHANGED durable
  <2>1. w' \in Locals /\ WorkerInv'
    BY <1>0, <1>1, <1>2, <1>3, Failing, Returning DEF durable, broker
  <2> QED
    BY <1>1, <1>3, <2>1, WorkerStep
<1>4. CASE w.todo # <<>> /\ SetRun(Head(w.todo)) /\ w' = [w EXCEPT !.todo = Tail(@)]
  <2> DEFINE rest == Tail(w.todo)
  <2>1. /\ Head(w.todo) = w.todo[1] /\ 1 \in 1 .. Len(w.todo) /\ Head(w.todo) \in RunStates
        /\ rest \in Seq(RunStates) /\ Len(rest) = Len(w.todo) - 1 /\ Len(w.todo) \in Nat
        /\ \A i \in 1 .. Len(rest) : rest[i] = w.todo[i + 1]
    BY <1>0, <1>4
  <2>2. w' = [w EXCEPT !.todo = rest]
    BY <1>4
  <2> HIDE DEF rest
  <2>3. \A i \in 1 .. Len(rest) : i + 1 \in 1 .. Len(w.todo)
    BY <2>1
  <2>4. Plans(rest, order, chain) /\ Says(Head(w.todo), order, chain)
    BY <1>2, <2>1, <2>3 DEF Plans
  <2>5. /\ w' \in Locals /\ w'.pc = "run" /\ w'.todo = rest /\ w'.pos = w.pos /\ w'.ec = w.ec
        /\ w'.c = w.c /\ w'.again = w.again /\ w'.how = w.how /\ w'.ret = w.ret /\ w'.err = w.err
    BY <1>0, <1>1, <2>1, <2>2 DEF Locals
  <2>6. run' = Head(w.todo) /\ UNCHANGED <<kill, chain, exits, attempts, bound>>
    BY <1>4 DEF SetRun
  <2>7. WorkerInv'
    BY <1>0, <1>1, <2>4, <2>5, <2>6 DEF WorkerInv, AnswerInv, PlanInv, PlaceInv, broker
  <2>8. kill' \in BOOLEAN
    BY <1>0, <2>6 DEF Typed, BooksTyped
  <2> QED
    BY <1>1, <2>1, <2>4, <2>5, <2>6, <2>7, <2>8, RunStep
<1> QED
  BY <1>3, <1>4 DEF ApplyRun

LEMMA RelookKeeps ==
  ASSUME IInv, Relook
  PROVE  IInv'
<1>0. Typed /\ OrdersInv /\ RecordInv /\ WorkerInv /\ w \in Locals /\ w.c \in Chains
  BY DEF IInv, Typed, Locals
<1>1. UNCHANGED <<durable, broker, phase, kills, crashes>> /\ w.pc = "relook"
  BY DEF Relook, At
<1>2. attempts[w.c] > 0 /\ w.how # "cancel"
  BY <1>0, <1>1 DEF WorkerInv, PlaceInv
<1>3. PICK r \in Answers :
        /\ LookedUp(Latest(w.c), r)
        /\ w' = IF r = "absent" THEN [w EXCEPT !.pc = "unknown", !.again = FALSE]
                ELSE [w EXCEPT !.pc = "bind", !.res = r, !.again = FALSE]
  BY DEF Relook, Answers
<1>4. CASE r = "absent"
  <2>1. /\ w' \in Locals /\ w'.pc = "unknown" /\ w'.pos = w.pos /\ w'.ec = w.ec /\ w'.c = w.c
        /\ ~w'.again /\ w'.how = w.how
    BY ZenonT(40), <1>0, <1>3, <1>4 DEF Locals, PCs
  <2>2. WorkerInv'
    BY <1>0, <1>1, <1>2, <2>1 DEF WorkerInv, AnswerInv, PlanInv, PlaceInv, durable, broker
  <2> QED
    BY <1>0, <1>1, <1>3, <2>1, <2>2, WorkerStep, AskedBound
<1>5. CASE r # "absent"
  <2>1. /\ order[Latest(w.c)] # "absent"
        /\ r = "zero" => Dead(order, w.c) /\ ~HasFill(order, w.c)
        /\ r = "filled" => Dead(order, w.c) /\ HasFill(order, w.c)
    BY <1>0, <1>2, <1>3, <1>5, LatestIs, LookupTells
  <2>2. /\ w' \in Locals /\ w'.pc = "bind" /\ w'.pos = w.pos /\ w'.ec = w.ec /\ w'.c = w.c
        /\ ~w'.again /\ w'.how = w.how /\ w'.res = r
    <3>1. w' = [w EXCEPT !.pc = "bind", !.res = r, !.again = FALSE]
      BY <1>3, <1>5
    <3> QED
      BY ZenonT(40), <1>0, <3>1 DEF Locals, PCs
  <2>3. WorkerInv'
    BY <1>0, <1>1, <1>2, <1>5, <2>1, <2>2
       DEF WorkerInv, AnswerInv, PlanInv, PlaceInv, durable, broker, Latest
  <2> QED
    BY <1>0, <1>1, <1>3, <2>2, <2>3, WorkerStep, AskedBound
<1> QED
  BY <1>4, <1>5

LEMMA UnresolvedKeeps ==
  ASSUME IInv, Unresolved
  PROVE  IInv'
<1>0. /\ Typed /\ OrdersInv /\ RecordInv /\ WorkerInv /\ w \in Locals /\ w.c \in Chains
      /\ chain \in [Chains -> Books]
  BY DEF IInv, Typed, BooksTyped, Locals
<1>1. UNCHANGED <<broker, phase, bounds>> /\ w.pc = "unknown" /\ BoundsTyped'
  BY <1>0 DEF Unresolved, At, Typed, BoundsTyped, bounds
<1>2. attempts[w.c] > 0 /\ w.how # "cancel" /\ ~w.again
  BY <1>0, <1>1 DEF WorkerInv, PlaceInv
<1>3. CASE Fail /\ UNCHANGED durable
  <2>1. w' \in Locals /\ WorkerInv'
    BY <1>0, <1>1, <1>3, Failing DEF durable, broker
  <2> QED
    BY <1>1, <1>3, <2>1, WorkerStep
<1>4. CASE /\ ChainStep(chain[w.c], "UNKNOWN") /\ SetChain(w.c, "UNKNOWN")
           /\ w' = IF w.how = "replace" THEN [w EXCEPT !.pc = "kill"]
                   ELSE [w EXCEPT !.pc = "run", !.todo = <<"RISK_OFF">>]
  <2>1. chain' = [chain EXCEPT ![w.c] = "UNKNOWN"] /\ UNCHANGED <<run, kill, exits, attempts, bound>>
    BY <1>4 DEF SetChain
  <2>2. "UNKNOWN" \in Books \ {"NONE"} /\ chain[w.c] # "NONE" /\ MayBe(w.c, "UNKNOWN")
    BY <1>0, <1>2 DEF Books, MayBe, RecordInv, BooksInv
  <2>3. chain[w.c] \notin Closed
    BY <1>4, ClosedChainStep DEF Closed
  <2>4. KeepsClosed(chain, chain')
    BY <1>0, <2>1, <2>3 DEF KeepsClosed
  <2>5. "RISK_OFF" \in RunStates /\ Says("RISK_OFF", order, chain')
    BY DEF RunStates, Says, TERMINAL_STRATEGY_STATES
  <2> DEFINE todo == <<"RISK_OFF">>
  <2>6. todo \in Seq(RunStates) /\ Plans(todo, order, chain')
    BY <2>5, ShortPlans
  <2>7. \/ w' = [w EXCEPT !.pc = "kill"]
        \/ w' = [w EXCEPT !.pc = "run", !.todo = todo]
    BY <1>4
  <2> HIDE DEF todo
  <2>8. /\ w' \in Locals /\ w'.pos = w.pos /\ w'.ec = w.ec /\ w'.again = w.again /\ w'.how = w.how
        /\ w'.pc = "kill" \/ (w'.pc = "run" /\ w'.todo = todo)
    <3>1. CASE w' = [w EXCEPT !.pc = "kill"]
      BY <1>0, <3>1 DEF Locals, PCs
    <3>2. CASE w' = [w EXCEPT !.pc = "run", !.todo = todo]
      <4>1. todo \in Seq(RunStates)
        BY <2>6
      <4> QED
        BY ZenonT(40), <1>0, <3>2, <4>1 DEF Locals, PCs
    <3> QED
      BY <2>7, <3>1, <3>2
  <2>9. w'.ec = "CANCELED" => chain'[0] = "CANCELED"
    BY <1>0, <2>4, <2>8, Constants DEF KeepsClosed, Closed, WorkerInv, PlaceInv
  <2>10. WorkerInv'
    BY <1>0, <1>1, <1>2, <2>1, <2>6, <2>8, <2>9 DEF WorkerInv, AnswerInv, PlanInv, PlaceInv, broker
  <2> QED
    BY <1>0, <1>1, <2>1, <2>2, <2>3, <2>8, <2>10, ChainWritten
<1> QED
  BY <1>3, <1>4 DEF Unresolved

-----------------------------------------------------------------------------
(* Calls to the broker.                                                      *)

LEMMA CallStep ==
  ASSUME IInv, order' \in Orders, Successive(order', attempts), Later(order, order'),
         SameFills(order, order'), UNCHANGED <<durable, fills, shown, phase>>,
         net' \subseteq Requests, NetInv', BoundsTyped', w' \in Locals, WorkerInv'
  PROVE  IInv'
<1>0. Typed /\ OrdersInv /\ RecordInv
  BY DEF IInv
<1>1. Typed'
  BY <1>0 DEF Typed, BooksTyped, BrokerTyped, durable
<1>2. RecordInv' /\ \A id \in bound' : order'[id] # "absent"
  BY <1>0, RecordLater
<1>3. fills' = Fills(order') /\ attempts' = attempts
  BY <1>0, SameFillsCount DEF OrdersInv, durable
<1>4. OrdersInv'
  BY <1>2, <1>3 DEF OrdersInv
<1> QED
  BY <1>1, <1>2, <1>4 DEF IInv

LEMMA SameLater ==
  ASSUME IInv
  PROVE  /\ order \in Orders /\ attempts \in Counts /\ net \subseteq Requests
         /\ Successive(order, attempts) /\ Later(order, order) /\ SameFills(order, order)
  BY DEF IInv, Typed, BooksTyped, BrokerTyped, OrdersInv, Later, SameFills

\* A call that was answered into the void, or not at all, is looked up.
LEMMA RelookPlace ==
  ASSUME Typed, WorkerInv, w.pc \in {"place", "replace"}, Goto("relook"), UNCHANGED durable,
         Later(order, order')
  PROVE  w' \in Locals /\ WorkerInv'
<1>0. w \in Locals /\ w.how # "cancel" /\ attempts[w.c] > 0
  <2>1. attempts[w.c] \in Int
    BY Constants DEF Typed, Locals, BooksTyped, Counts
  <2> QED
    BY <2>1 DEF Typed, WorkerInv, PlaceInv
<1>1. "relook" \in PCs
  BY DEF PCs
<1>2. /\ w' \in Locals /\ w'.pc = "relook" /\ w'.pos = w.pos /\ w'.ec = w.ec /\ w'.c = w.c
      /\ w'.again = w.again /\ w'.how = w.how /\ w'.ret = w.ret
  BY <1>0, <1>1, Going
<1>3. HasFill(order, 0) => HasFill(order', 0)
  BY Constants DEF Later
<1> QED
  BY <1>0, <1>2, <1>3 DEF WorkerInv, AnswerInv, PlanInv, PlaceInv, durable

LEMMA Answered ==
  ASSUME w \in Locals, NEW r \in Answers, w' = [w EXCEPT !.pc = "bind", !.res = r]
  PROVE  /\ w' \in Locals /\ w'.pc = "bind" /\ w'.res = r /\ w'.pos = w.pos /\ w'.ec = w.ec
         /\ w'.c = w.c /\ w'.again = w.again /\ w'.how = w.how /\ w'.ret = w.ret
<1>1. "bind" \in PCs
  BY DEF PCs
<1> QED
  BY <1>1 DEF Locals

LEMMA PlaceKeeps ==
  ASSUME IInv, Place
  PROVE  IInv'
<1>0. /\ Typed /\ OrdersInv /\ RecordInv /\ WorkerInv /\ w \in Locals /\ w.c \in Chains
  BY DEF IInv, Typed, Locals
<1> PICK c \in Chains : c = w.c
  BY <1>0
<1> DEFINE req == [kind |-> "place", id |-> <<c, 0>>]
<1>1. UNCHANGED <<durable, fills, shown, phase, kills, crashes>> /\ w.pc = "place"
  BY DEF Place, At
<1>2. attempts[c] = 1 /\ w.how # "cancel"
  BY <1>0, <1>1 DEF WorkerInv, PlaceInv
<1>3. Latest(c) = <<c, 0>>
  BY <1>2 DEF Latest
<1>4. BoundsTyped'
  BY <1>0, <1>1, FaultBound DEF Place
<1>5. /\ order' = order \/ Opens(order, order', c)
      /\ net' \in {net, net \cup {req}}
      /\ \/ Goto("relook")
         \/ Opens(order, order', c) /\ w' = [w EXCEPT !.pc = "bind", !.res = order'[<<c, 0>>]]
  <2>1. Accept(<<c, 0>>) /\ order' \in Placed(<<c, 0>>) => Opens(order, order', c)
    BY DEF Opens, Accept, Placed
  <2>2. \/ /\ Accept(<<c, 0>>) /\ order' \in Placed(<<c, 0>>) /\ UNCHANGED net
           /\ w' = [w EXCEPT !.pc = "bind", !.res = order'[<<c, 0>>]]
        \/ Goto("relook") /\ UNCHANGED <<order, net>>
        \/ Accept(<<c, 0>>) /\ order' \in Placed(<<c, 0>>) /\ Goto("relook") /\ UNCHANGED net
        \/ net' \in {net, net \cup {req}} /\ Goto("relook") /\ UNCHANGED order
    BY <1>3 DEF Place
  <2> QED
    BY <2>1, <2>2
<1>6. /\ order' \in Orders /\ Successive(order', attempts) /\ Later(order, order')
      /\ SameFills(order, order')
  BY <1>0, <1>2, <1>5, SameLater, OpensLater
<1>7. net' \subseteq Requests /\ NetInv'
  <2>1. req \in Requests /\ net \subseteq Requests
    BY <1>0, Ids, Constants, SameLater DEF Requests
  <2>2. req.kind = "place" /\ req.id[1] = c /\ req.id[2] = 0
    OBVIOUS
  <2>3. NetInv /\ attempts' = attempts
    BY <1>0, <1>1 DEF OrdersInv, durable
  <2> HIDE DEF req
  <2> QED
    BY <1>2, <1>5, <2>1, <2>2, <2>3 DEF NetInv
<1>8. CASE Goto("relook")
  <2>1. w' \in Locals /\ WorkerInv'
    BY <1>0, <1>1, <1>6, <1>8, RelookPlace
  <2> QED
    BY <1>1, <1>4, <1>6, <1>7, <2>1, CallStep
<1>9. CASE Opens(order, order', c) /\ w' = [w EXCEPT !.pc = "bind", !.res = order'[<<c, 0>>]]
  <2> DEFINE r == order'[<<c, 0>>]
  <2>0. <<c, 0>> \in OrderIds /\ 0 \in Seqs
    BY <1>0, Ids, Constants
  <2>1. r \in {"open", "zero"}
    BY <1>9, <2>0, SameLater DEF Opens, Orders
  <2>2. w' = [w EXCEPT !.pc = "bind", !.res = r]
    BY <1>9
  <2>3. r = "zero" => Dead(order', c) /\ ~HasFill(order', c)
    BY <1>0, <1>6, <2>0, SameLater, OneTells
  <2>4. Latest(c)' = <<c, 0>> /\ order'[<<c, 0>>] = r
    <3>1. attempts' = attempts
      BY <1>1 DEF durable
    <3>2. attempts'[c] = 1
      BY <1>2, <3>1
    <3>3. Latest(c)' = <<c, 1 - 1>>
      BY <3>2 DEF Latest
    <3> QED
      BY <3>3
  <2> HIDE DEF r
  <2>5. /\ w' \in Locals /\ w'.pc = "bind" /\ w'.res = r /\ w'.pos = w.pos /\ w'.ec = w.ec
        /\ w'.c = w.c /\ w'.again = w.again /\ w'.how = w.how /\ w'.ret = w.ret
    <3>1. r \in Answers
      BY <2>1 DEF Answers
    <3> QED
      BY <1>0, <2>2, <3>1, Answered
  <2>6. HasFill(order, 0) => HasFill(order', 0)
    BY <1>6, Constants DEF Later
  <2>7. AnswerInv'
    <3>1. w'.c = c /\ attempts'[c] > 0 /\ order'[Latest(c)'] # "absent" /\ r # "absent"
      BY <1>1, <1>2, <2>1, <2>4, <2>5 DEF durable
    <3>2. Latest(w.c)' = Latest(c)'
      BY <3>1
    <3> QED
      BY <1>2, <2>1, <2>3, <2>5, <3>1, <3>2 DEF AnswerInv
  <2>8. PlaceInv' /\ PlanInv'
    BY <1>0, <1>1, <1>2, <2>5, <2>6 DEF WorkerInv, PlaceInv, PlanInv, durable
  <2> QED
    BY <1>1, <1>4, <1>6, <1>7, <2>5, <2>7, <2>8, CallStep DEF WorkerInv
<1> QED
  BY <1>5, <1>8, <1>9

LEMMA ReplaceKeeps ==
  ASSUME IInv, Replace
  PROVE  IInv'
<1>0. /\ Typed /\ OrdersInv /\ RecordInv /\ WorkerInv /\ w \in Locals /\ w.c \in Chains
  BY DEF IInv, Typed, Locals
<1>1. UNCHANGED <<durable, fills, shown, phase, kills, crashes>> /\ w.pc = "replace"
  BY DEF Replace, At
<1> PICK c \in Chains : c = w.c
  BY <1>0
<1>2. attempts[c] > 1 /\ attempts[c] \in Nat /\ w.how # "cancel"
  BY <1>0, <1>1, Constants DEF WorkerInv, PlaceInv, Typed, BooksTyped, Counts
<1> DEFINE s == attempts[c] - 1
           req == [kind |-> "replace", id |-> <<c, s>>]
<1>3. Latest(c) = <<c, s>> /\ s \in Seqs /\ s < attempts[c] /\ s > 0 /\ s' = s
  BY <1>0, <1>1, <1>2, LatestIs DEF durable
<1>4. BoundsTyped'
  BY <1>0, <1>1, FaultBound DEF Replace
<1> HIDE DEF s
<1>5. /\ order' = order \/ Swaps(order, order', c, s)
      /\ net' \in {net, net \cup {req}}
      /\ \/ Goto("relook")
         \/ Swaps(order, order', c, s) /\ w' = [w EXCEPT !.pc = "bind", !.res = "open"]
  <2>1. Replaceable(<<c, s>>) /\ order' = Replaced(<<c, s>>) => Swaps(order, order', c, s)
    BY <1>3 DEF Swaps, Replaceable, Replaced, Prior
  <2>2. \/ /\ Replaceable(<<c, s>>) /\ order' = Replaced(<<c, s>>) /\ UNCHANGED net
           /\ w' = [w EXCEPT !.pc = "bind", !.res = "open"]
        \/ Goto("relook") /\ UNCHANGED <<order, net>>
        \/ Replaceable(<<c, s>>) /\ order' = Replaced(<<c, s>>) /\ Goto("relook") /\ UNCHANGED net
        \/ net' \in {net, net \cup {req}} /\ Goto("relook") /\ UNCHANGED order
    BY <1>3 DEF Replace
  <2> QED
    BY <2>1, <2>2
<1>6. /\ order' \in Orders /\ Successive(order', attempts) /\ Later(order, order')
      /\ SameFills(order, order')
  <2>1. CASE order' = order
    BY <2>1, SameLater
  <2>2. CASE Swaps(order, order', c, s)
    BY <1>3, <2>2, SameLater, SwapsLater
  <2> QED
    BY <1>5, <2>1, <2>2
<1>7. net' \subseteq Requests /\ NetInv'
  <2>1. req \in Requests /\ net \subseteq Requests
    BY <1>3, Ids, SameLater DEF Requests
  <2>2. req.kind = "replace" /\ req.id[1] = c /\ req.id[2] = s
    OBVIOUS
  <2>3. NetInv /\ attempts' = attempts
    BY <1>0, <1>1 DEF OrdersInv, durable
  <2> HIDE DEF req
  <2> QED
    BY <1>3, <1>5, <2>1, <2>2, <2>3 DEF NetInv
<1>8. CASE Goto("relook")
  <2>1. w' \in Locals /\ WorkerInv'
    BY <1>0, <1>1, <1>6, <1>8, RelookPlace
  <2> QED
    BY <1>1, <1>4, <1>6, <1>7, <2>1, CallStep
<1>9. CASE Swaps(order, order', c, s) /\ w' = [w EXCEPT !.pc = "bind", !.res = "open"]
  <2>1. <<c, s>> \in OrderIds /\ <<c, s - 1>> # <<c, s>>
    BY <1>3, Ids, Constants DEF Seqs
  <2>2. order'[<<c, s>>] = "open"
    BY <1>9, <2>1, SameLater DEF Swaps, Orders
  <2>3. Latest(c)' = <<c, s>>
    <3>1. attempts' = attempts
      BY <1>1 DEF durable
    <3> QED
      BY <3>1 DEF Latest, s
  <2>4. /\ w' \in Locals /\ w'.pc = "bind" /\ w'.res = "open" /\ w'.pos = w.pos /\ w'.ec = w.ec
        /\ w'.c = w.c /\ w'.again = w.again /\ w'.how = w.how /\ w'.ret = w.ret
    BY <1>0, <1>9, Answered DEF Answers
  <2>5. HasFill(order, 0) => HasFill(order', 0)
    BY <1>6, Constants DEF Later
  <2>6. AnswerInv'
    <3>1. w'.c = c /\ attempts'[c] > 0 /\ order'[Latest(c)'] # "absent"
      BY <1>1, <1>2, <2>2, <2>3, <2>4 DEF durable
    <3>2. Latest(w.c)' = Latest(c)'
      BY <3>1
    <3> QED
      BY <1>2, <2>4, <3>1, <3>2 DEF AnswerInv
  <2>7. PlaceInv' /\ PlanInv'
    BY <1>0, <1>1, <1>2, <2>4, <2>5 DEF WorkerInv, PlaceInv, PlanInv, durable
  <2> QED
    BY <1>1, <1>4, <1>6, <1>7, <2>4, <2>6, <2>7, CallStep DEF WorkerInv
<1> QED
  BY <1>5, <1>8, <1>9

-----------------------------------------------------------------------------
(* Cancelling the entry.                                                     *)

LEMMA CancelTargetIs ==
  ASSUME Typed, OrdersInv, RecordInv, Latest(0) \in bound \/ attempts[0] > 1
  PROVE  \E s \in Seqs : CancelTarget = <<0, s>> /\ order[<<0, s>>] # "absent"
<1>0. 0 \in Chains /\ attempts[0] > 0 /\ attempts[0] \in Nat /\ attempts[0] <= MaxSeq + 1
  BY Constants DEF RecordInv, BooksInv, Typed, BooksTyped, Counts
<1>1. CASE Latest(0) \in bound
  <2>1. CancelTarget = <<0, attempts[0] - 1>> /\ attempts[0] - 1 \in Seqs
    BY <1>0, <1>1, LatestIs DEF CancelTarget
  <2> QED
    BY <1>1, <2>1 DEF OrdersInv, Latest
<1>2. CASE Latest(0) \notin bound
  <2>1. CancelTarget = <<0, attempts[0] - 1 - 1>>
    BY <1>2 DEF CancelTarget, Latest, Prior
  <2>2. attempts[0] - 2 \in Seqs /\ attempts[0] - 1 - 1 = attempts[0] - 2
    BY <1>0, <1>2, Constants DEF Seqs
  <2>3. order[<<0, attempts[0] - 2>>] # "absent"
    BY <1>0, <1>2 DEF OrdersInv, Successive
  <2> QED
    BY <2>1, <2>2, <2>3
<1> QED
  BY <1>1, <1>2

LEMMA CancelRunKeeps ==
  ASSUME IInv, CancelRun
  PROVE  IInv'
<1>0. /\ Typed /\ OrdersInv /\ RecordInv /\ WorkerInv /\ w \in Locals /\ run \in RunStates
      /\ kill \in BOOLEAN
  BY DEF IInv, Typed, BooksTyped
<1>1. UNCHANGED <<broker, phase, bounds>> /\ w.pc = "cancelId" /\ BoundsTyped'
  BY <1>0 DEF CancelRun, At, Typed, BoundsTyped, bounds
<1>2. ~w.again /\ w.how # "cancel"
  BY <1>0, <1>1 DEF WorkerInv, PlaceInv
<1>3. CASE Goto("kill") /\ UNCHANGED durable
  <2>1. w' \in Locals /\ WorkerInv'
    BY <1>0, <1>1, <1>2, <1>3, CalmGoto DEF Calm, durable, broker
  <2> QED
    BY <1>1, <1>3, <2>1, WorkerStep
<1>4. CASE End /\ UNCHANGED durable
  BY <1>1, <1>4, IdlePlace, WorkerStep DEF End
<1>5. CASE /\ Latest(0) \in bound \/ attempts[0] > 1
           /\ SetRun(IF run = "RISK_OFF" THEN run ELSE "CANCEL_PENDING")
           /\ w' = [w EXCEPT !.pc = "cancelChain", !.st = run]
  <2>1. /\ run' \in {"RISK_OFF", "CANCEL_PENDING"}
        /\ UNCHANGED <<kill, chain, exits, attempts, bound>>
    BY <1>5 DEF SetRun
  <2>2. run' \in RunStates /\ Says(run', order, chain)
    BY <2>1 DEF RunStates, WorkingEntryStates, Says, TERMINAL_STRATEGY_STATES
  <2>3. /\ w' \in Locals /\ w'.pc = "cancelChain" /\ w'.pos = w.pos /\ w'.ec = w.ec
        /\ w'.again = w.again /\ w'.how = w.how
    BY ZenonT(40), <1>0, <1>5 DEF Locals, PCs
  <2>4. WorkerInv'
    BY <1>0, <1>1, <1>2, <1>5, <2>1, <2>3
       DEF WorkerInv, AnswerInv, PlanInv, PlaceInv, broker, Latest
  <2> QED
    BY <1>0, <1>1, <2>1, <2>2, <2>3, <2>4, RunStep
<1> QED
  BY <1>3, <1>4, <1>5 DEF CancelRun

LEMMA CancelChainKeeps ==
  ASSUME IInv, CancelChain
  PROVE  IInv'
<1>0. /\ Typed /\ OrdersInv /\ RecordInv /\ WorkerInv /\ w \in Locals
      /\ chain \in [Chains -> Books] /\ 0 \in Chains
  BY Constants DEF IInv, Typed, BooksTyped
<1>1. UNCHANGED <<broker, phase, bounds>> /\ w.pc = "cancelChain" /\ BoundsTyped'
  BY <1>0 DEF CancelChain, At, Typed, BoundsTyped, bounds
<1>2. ~w.again /\ w.how # "cancel" /\ (Latest(0) \in bound \/ attempts[0] > 1)
  BY <1>0, <1>1 DEF WorkerInv, PlaceInv
<1>3. CASE End /\ UNCHANGED durable
  BY <1>1, <1>3, IdlePlace, WorkerStep DEF End
<1>4. CASE /\ ChainStep(chain[0], "CANCEL_PENDING") /\ SetChain(0, "CANCEL_PENDING")
           /\ Goto("cancelCall")
  <2>1. /\ chain' = [chain EXCEPT ![0] = "CANCEL_PENDING"]
        /\ UNCHANGED <<run, kill, exits, attempts, bound>>
    BY <1>4 DEF SetChain
  <2>2. /\ "CANCEL_PENDING" \in Books \ {"NONE"} /\ chain[0] # "NONE" /\ attempts[0] > 0
        /\ MayBe(0, "CANCEL_PENDING")
    BY <1>0 DEF Books, MayBe, RecordInv, BooksInv
  <2>3. chain[0] \notin Closed
    BY <1>4, ClosedChainStep DEF Closed
  <2>4. "cancelCall" \in PCs
    BY DEF PCs
  <2>5. /\ w' \in Locals /\ w'.pc = "cancelCall" /\ w'.pos = w.pos /\ w'.ec = w.ec
        /\ w'.again = w.again /\ w'.how = w.how
    BY <1>0, <1>4, <2>4, Going
  <2>6. w'.ec # "CANCELED"
    BY <1>0, <2>3, <2>5 DEF WorkerInv, PlaceInv, Closed
  <2>7. WorkerInv'
    BY <1>0, <1>1, <1>2, <2>1, <2>5, <2>6
       DEF WorkerInv, AnswerInv, PlanInv, PlaceInv, broker, Latest
  <2> QED
    BY <1>0, <1>1, <2>1, <2>2, <2>3, <2>5, <2>7, ChainWritten
<1> QED
  BY <1>3, <1>4 DEF CancelChain

LEMMA CancelCallKeeps ==
  ASSUME IInv, CancelCall
  PROVE  IInv'
<1>0. /\ Typed /\ OrdersInv /\ RecordInv /\ WorkerInv /\ w \in Locals
  BY DEF IInv, Typed
<1>1. UNCHANGED <<durable, fills, shown, phase, kills, crashes>> /\ w.pc = "cancelCall"
  BY DEF CancelCall, At
<1>2. ~w.again /\ w.how # "cancel" /\ (Latest(0) \in bound \/ attempts[0] > 1)
  BY <1>0, <1>1 DEF WorkerInv, PlaceInv
<1>3. BoundsTyped'
  BY <1>0, <1>1, FaultBound DEF CancelCall
<1>4. CancelTarget \in OrderIds
  <2>1. PICK s \in Seqs : CancelTarget = <<0, s>>
    BY <1>0, <1>2, CancelTargetIs
  <2>2. <<0, s>> \in OrderIds
    BY Ids, Constants
  <2> QED
    BY <2>1, <2>2
<1> PICK t \in OrderIds : t = CancelTarget
  BY <1>4
<1>5. /\ \/ order' = [order EXCEPT ![t] = IF @ = "open" THEN "zero" ELSE @] /\ UNCHANGED net
         \/ net' = net \cup {[kind |-> "cancel", id |-> t]} /\ UNCHANGED order
         \/ UNCHANGED <<order, net>>
      /\ Goto("cancelGet")
  BY DEF CancelCall
<1>6. Ends(order, order', "zero")
  <2>1. CASE order' = order
    BY <2>1, SameLater DEF Ends
  <2>2. CASE order' = [order EXCEPT ![t] = IF @ = "open" THEN "zero" ELSE @]
    <3>1. order' \in Orders
      BY <2>2, SameLater DEF Orders, Answers
    <3> QED
      BY <2>2, <3>1, SameLater, Ids DEF Ends, Orders
  <2> QED
    BY <1>5, <2>1, <2>2
<1>7. /\ order' \in Orders /\ Successive(order', attempts) /\ Later(order, order')
      /\ SameFills(order, order')
  BY <1>6, SameLater, EndsLater
<1>8. net' \subseteq Requests /\ NetInv'
  <2> DEFINE req == [kind |-> "cancel", id |-> t]
  <2>1. req \in Requests /\ req.kind = "cancel" /\ net \subseteq Requests
    BY SameLater DEF Requests
  <2>2. net' \in {net, net \cup {req}}
    BY <1>5
  <2>3. NetInv /\ attempts' = attempts
    BY <1>0, <1>1 DEF OrdersInv, durable
  <2> HIDE DEF req
  <2> QED
    BY <2>1, <2>2, <2>3 DEF NetInv
<1>9. "cancelGet" \in PCs
  BY DEF PCs
<1>10. /\ w' \in Locals /\ w'.pc = "cancelGet" /\ w'.pos = w.pos /\ w'.ec = w.ec
       /\ w'.again = w.again /\ w'.how = w.how
  BY <1>0, <1>5, <1>9, Going
<1>11. HasFill(order, 0) => HasFill(order', 0)
  BY <1>7, Constants DEF Later
<1>12. WorkerInv'
  BY <1>0, <1>1, <1>2, <1>10, <1>11 DEF WorkerInv, AnswerInv, PlanInv, PlaceInv, durable, Latest
<1> QED
  BY <1>1, <1>3, <1>7, <1>8, <1>10, <1>12, CallStep

LEMMA CancelGetKeeps ==
  ASSUME IInv, CancelGet
  PROVE  IInv'
<1>0. /\ Typed /\ OrdersInv /\ RecordInv /\ WorkerInv /\ w \in Locals /\ 0 \in Chains
  BY Constants DEF IInv, Typed
<1>1. UNCHANGED <<durable, broker, phase, kills, crashes>> /\ w.pc = "cancelGet"
  BY DEF CancelGet, At
<1>2. ~w.again /\ w.how # "cancel" /\ (Latest(0) \in bound \/ attempts[0] > 1)
  BY <1>0, <1>1 DEF WorkerInv, PlaceInv
<1>3. BoundsTyped'
  BY <1>0, <1>1, FaultBound DEF CancelGet
<1>4. PICK s \in Seqs : CancelTarget = <<0, s>> /\ order[<<0, s>>] # "absent"
  BY <1>0, <1>2, CancelTargetIs
<1> DEFINE r == Seen(<<0, s>>)
<1>5. \/ w' = Idle
      \/ /\ r # "open"
         /\ w' = [w EXCEPT !.pc = "chain", !.c = 0, !.how = "cancel", !.res = r,
                           !.err = "raise", !.ret = "idle"]
  BY <1>4 DEF CancelGet, End
<1>6. r \in Answers /\ r # "absent"
  <2>1. order[<<0, s>>] \in Answers \cup {"replaced"}
    BY Ids, Constants, SameLater DEF Orders
  <2> QED
    BY <1>4, <2>1 DEF Seen, Answers
<1>7. /\ r = "zero" => Dead(order, 0) /\ ~HasFill(order, 0)
      /\ r = "filled" => Dead(order, 0) /\ HasFill(order, 0)
  BY <1>0, <1>6, LookupTells
<1> HIDE DEF r
<1>8. CASE w' = Idle
  BY <1>1, <1>3, <1>8, IdlePlace, WorkerStep
<1>9. CASE /\ r # "open"
           /\ w' = [w EXCEPT !.pc = "chain", !.c = 0, !.how = "cancel", !.res = r,
                             !.err = "raise", !.ret = "idle"]
  <2>1. w' \in Locals
    <3> DEFINE v == [w EXCEPT !.pc = "chain", !.c = 0, !.how = "cancel"]
    <3>1. v \in Locals /\ w' = [v EXCEPT !.res = r, !.err = "raise", !.ret = "idle"]
      BY ZenonT(40), <1>0, <1>9 DEF Locals, PCs
    <3> HIDE DEF v
    <3> QED
      BY <1>6, <3>1 DEF Locals
  <2>2. /\ w'.pc = "chain" /\ w'.pos = w.pos /\ w'.ec = w.ec /\ w'.c = 0 /\ w'.how = "cancel"
        /\ w'.again = w.again /\ w'.res = r /\ w'.err = "raise" /\ w'.ret = "idle"
    BY <1>0, <1>9 DEF Locals
  <2>3. attempts[0] > 0
    BY <1>0 DEF RecordInv, BooksInv
  <2>4. WorkerInv'
    BY <1>0, <1>1, <1>2, <1>6, <1>7, <1>9, <2>2, <2>3
       DEF WorkerInv, AnswerInv, PlanInv, PlaceInv, durable, broker
  <2> QED
    BY <1>1, <1>3, <2>1, <2>4, WorkerStep
<1> QED
  BY <1>5, <1>8, <1>9

-----------------------------------------------------------------------------
(* The exit.                                                                 *)

LEMMA Planned ==
  ASSUME w \in Locals, NEW l \in PCs, NEW c \in Chains, w' = Plain(l, c)
  PROVE  /\ w' \in Locals /\ w'.pc = l /\ w'.c = c /\ w'.how = "order" /\ w'.again = FALSE
         /\ w'.err = "raise" /\ w'.ret = "idle" /\ w'.pos = w.pos /\ w'.ec = w.ec
<1> DEFINE v == [w EXCEPT !.pc = l, !.c = c, !.how = "order"]
<1>1. /\ v \in Locals /\ v.pc = l /\ v.c = c /\ v.how = "order" /\ v.pos = w.pos /\ v.ec = w.ec
      /\ w' = [v EXCEPT !.again = FALSE, !.err = "raise", !.ret = "idle"]
  BY DEF Plain, Locals
<1> HIDE DEF v
<1> QED
  BY ZenonT(40), <1>1 DEF Locals

\* The next exit chain is new, and all those before it are closed zero fills.
LEMMA NextExit ==
  ASSUME Typed, RecordInv, ~ExitUnderway, ExitsLeft
  PROVE  exits + 1 \in Chains /\ exits + 1 \in ExitChains /\ AllCanceled(exits + 1, chain)
<1>0. exits \in Nat /\ exits < MaxExits
  BY Constants DEF Typed, BooksTyped, ExitsLeft
<1>1. exits + 1 \in Chains /\ exits + 1 \in ExitChains
  BY <1>0, Constants DEF Chains, ExitChains
<1>2. \A d \in ExitChains : chain[d] # "NONE" => d <= exits
  BY DEF RecordInv, ExitsInv
<1>3. ASSUME NEW d \in ExitChains, chain[d] # "NONE"
      PROVE  chain[d] = "CANCELED" /\ d < exits + 1
  <2>1. d \in Nat /\ d <= exits /\ d > 0
    BY <1>2, <1>3, Constants DEF ExitChains
  <2>2. exits > 0
    BY <1>0, <2>1
  <2>3. LastExit # 0 /\ chain[LastExit] = "CANCELED"
    BY <2>2 DEF ExitUnderway
  <2>4. LastExit \in ExitChains /\ chain[LastExit] # "NONE" /\ d <= LastExit
    BY <1>3, <2>3, LastExitIs
  <2>5. d = LastExit \/ d < LastExit
    BY <2>1, <2>4, Constants
  <2> QED
    BY <1>0, <1>3, <2>1, <2>3, <2>4, <2>5 DEF RecordInv, ExitsInv
<1> QED
  BY <1>1, <1>3 DEF AllCanceled

LEMMA StartExitKeeps ==
  ASSUME IInv, StartExit
  PROVE  IInv'
<1>0. /\ Typed /\ OrdersInv /\ RecordInv /\ WorkerInv /\ w \in Locals
  BY DEF IInv, Typed
<1>1. UNCHANGED <<durable, broker, phase, kills, crashes>> /\ w.pc = "startExit"
  BY DEF StartExit, At
<1>2. ~w.again /\ w.how # "cancel" /\ HasFill(order, 0)
  BY <1>0, <1>1 DEF WorkerInv, PlaceInv
<1>3. BoundsTyped'
  BY <1>0, <1>1, FaultBound DEF StartExit
<1>4. CASE w' = Idle
  BY <1>1, <1>3, <1>4, IdlePlace, WorkerStep
<1>5. CASE Goto("kill")
  <2>1. w' \in Locals /\ WorkerInv'
    BY <1>0, <1>1, <1>2, <1>5, CalmGoto DEF Calm, durable, broker
  <2> QED
    BY <1>1, <1>3, <2>1, WorkerStep
<1>6. CASE LastExit # 0 /\ w' = Plain("reprice", LastExit)
  <2>1. LastExit \in Chains /\ chain[LastExit] # "NONE" /\ "reprice" \in PCs
    BY <1>0, <1>6, LastExitIs DEF PCs
  <2>2. /\ w' \in Locals /\ w'.pc = "reprice" /\ w'.c = LastExit /\ w'.how = "order"
        /\ w'.again = FALSE /\ w'.pos = w.pos /\ w'.ec = w.ec
    BY <1>0, <1>6, <2>1, Planned
  <2>3. WorkerInv'
    BY <1>0, <1>1, <1>2, <2>1, <2>2 DEF WorkerInv, AnswerInv, PlanInv, PlaceInv, durable, broker
  <2> QED
    BY <1>1, <1>3, <2>2, <2>3, WorkerStep
<1>7. CASE ~ExitUnderway /\ ExitsLeft /\ w' = Plain("exitIntent", exits + 1)
  <2>1. exits + 1 \in Chains /\ AllCanceled(exits + 1, chain) /\ "exitIntent" \in PCs
    BY <1>0, <1>7, NextExit DEF PCs
  <2>2. /\ w' \in Locals /\ w'.pc = "exitIntent" /\ w'.c = exits + 1 /\ w'.how = "order"
        /\ w'.again = FALSE /\ w'.pos = w.pos /\ w'.ec = w.ec
    BY <1>0, <1>7, <2>1, Planned
  <2>3. WorkerInv'
    BY <1>0, <1>1, <1>2, <2>1, <2>2 DEF WorkerInv, AnswerInv, PlanInv, PlaceInv, durable, broker
  <2> QED
    BY <1>1, <1>3, <2>2, <2>3, WorkerStep
<1>8. \/ w' = Idle \/ Goto("kill")
      \/ LastExit # 0 /\ w' = Plain("reprice", LastExit)
      \/ ~ExitUnderway /\ ExitsLeft /\ w' = Plain("exitIntent", exits + 1)
  BY DEF StartExit, End
<1> QED
  BY <1>4, <1>5, <1>6, <1>7, <1>8

LEMMA PersistIntentKeeps ==
  ASSUME IInv, PersistIntent
  PROVE  IInv'
<1>0. /\ Typed /\ OrdersInv /\ RecordInv /\ WorkerInv /\ w \in Locals /\ w.c \in Chains
      /\ exits \in Nat /\ w.c \in Nat
  BY Constants DEF IInv, Typed, Locals, BooksTyped, Chains
<1>1. /\ exits' = w.c /\ Goto("exitPlan") /\ w.pc = "exitIntent"
      /\ UNCHANGED <<run, kill, chain, attempts, bound, broker, phase, bounds>>
  BY DEF PersistIntent, At
<1>2. /\ ~w.again /\ w.how # "cancel" /\ HasFill(order, 0)
      /\ w.c = exits + 1 /\ AllCanceled(w.c, chain)
  BY <1>0, <1>1 DEF WorkerInv, PlaceInv
<1>3. exits' \in 0 .. MaxExits /\ exits' = exits + 1 /\ exits' > 0
  BY <1>0, <1>1, <1>2 DEF Chains
<1>4. "exitPlan" \in PCs
  BY DEF PCs
<1>5. /\ w' \in Locals /\ w'.pc = "exitPlan" /\ w'.c = w.c /\ w'.pos = w.pos /\ w'.ec = w.ec
      /\ w'.again = w.again /\ w'.how = w.how
  BY <1>0, <1>1, <1>4, Going
<1>6. Typed'
  BY <1>0, <1>1, <1>3, <1>5 DEF Typed, BooksTyped, BrokerTyped, BoundsTyped, broker, bounds
<1>7. OrdersInv'
  BY <1>0, <1>1 DEF OrdersInv, NetInv, broker
<1>8. BooksInv'
  BY <1>0, <1>1 DEF RecordInv, BooksInv, Latest, broker
<1>9. ExitsInv'
  BY <1>0, <1>1, <1>3, Constants DEF RecordInv, ExitsInv, ExitRows, broker
<1>10. Says(run, order, chain)'
  BY <1>0, <1>1 DEF RecordInv, broker
<1>11. WorkerInv'
  BY <1>0, <1>1, <1>2, <1>3, <1>5 DEF WorkerInv, AnswerInv, PlanInv, PlaceInv, broker
<1> QED
  BY <1>5, <1>6, <1>7, <1>8, <1>9, <1>10, <1>11 DEF IInv, RecordInv

LEMMA PersistChainKeeps ==
  ASSUME IInv, PersistChain
  PROVE  IInv'
<1>0. /\ Typed /\ OrdersInv /\ RecordInv /\ WorkerInv /\ w \in Locals /\ w.c \in Chains
      /\ chain \in [Chains -> Books] /\ exits \in Nat
  BY Constants DEF IInv, Typed, Locals, BooksTyped
<1>1. /\ chain' = [chain EXCEPT ![w.c] = "PLANNED"] /\ Goto("exitSnapshot") /\ w.pc = "exitPlan"
      /\ UNCHANGED <<run, kill, exits, attempts, bound, broker, phase, bounds>>
  BY DEF PersistChain, SetChain, At
<1>2. /\ ~w.again /\ w.how # "cancel" /\ HasFill(order, 0)
      /\ w.c = exits /\ exits > 0 /\ AllCanceled(w.c, chain)
  BY <1>0, <1>1 DEF WorkerInv, PlaceInv
<1> PICK c \in ExitChains : c = w.c
  BY <1>0, <1>2, Constants
<1>3. /\ c \in Chains /\ c # 0 /\ chain[c] = "NONE" /\ attempts[c] = 0
      /\ \A d \in Chains : chain'[d] = IF d = c THEN "PLANNED" ELSE chain[d]
  BY <1>0, <1>1, <1>2, Constants DEF AllCanceled, RecordInv, BooksInv
<1>4. "exitSnapshot" \in PCs /\ "PLANNED" \in Books
  BY DEF PCs, Books
<1>5. /\ w' \in Locals /\ w'.pc = "exitSnapshot" /\ w'.c = c /\ w'.pos = w.pos /\ w'.ec = w.ec
      /\ w'.again = w.again /\ w'.how = w.how
  BY <1>0, <1>1, <1>4, Going
<1>6. Typed'
  BY <1>0, <1>1, <1>4, <1>5 DEF Typed, BooksTyped, BrokerTyped, BoundsTyped, broker, bounds
<1>7. OrdersInv'
  BY <1>0, <1>1 DEF OrdersInv, NetInv, broker
<1>8. BooksInv'
  BY <1>0, <1>1, <1>3 DEF RecordInv, BooksInv, Latest, broker
<1>9. ExitsInv'
  <2>1. \A d \in ExitChains : chain'[d] # "NONE" => d = c \/ (chain'[d] = "CANCELED" /\ d < c)
    BY <1>2, <1>3, Constants DEF AllCanceled
  <2>2. \A d \in ExitChains : chain'[d] # "NONE" => HasFill(order, 0) /\ d <= exits
    BY <1>2, <2>1, Constants
  <2>3. \A d, e \in ExitChains :
          chain'[d] # "NONE" /\ chain'[e] # "NONE" /\ d < e => chain'[d] = "CANCELED"
    BY <2>1, Constants
  <2>4. c \in ExitRows' /\ \A d \in ExitRows' : d <= c
    BY <1>3, <2>1, Constants DEF ExitRows
  <2> QED
    BY <1>1, <2>2, <2>3, <2>4 DEF ExitsInv, broker
<1>10. KeepsClosed(chain, chain')
  BY <1>3 DEF KeepsClosed, Closed
<1>11. Says(run, order, chain)'
  BY <1>0, <1>1, <1>10, ClosedStays DEF RecordInv, broker
<1>12. WorkerInv'
  BY <1>0, <1>1, <1>2, <1>3, <1>5, Constants DEF WorkerInv, AnswerInv, PlanInv, PlaceInv, broker
<1> QED
  BY <1>5, <1>6, <1>7, <1>8, <1>9, <1>11, <1>12 DEF IInv, RecordInv

LEMMA ExitSnapshotKeeps ==
  ASSUME IInv, ExitSnapshot
  PROVE  IInv'
<1>0. /\ Typed /\ OrdersInv /\ RecordInv /\ WorkerInv /\ w \in Locals
  BY DEF IInv, Typed
<1>1. UNCHANGED <<durable, broker, phase, kills, crashes>> /\ w.pc = "exitSnapshot"
  BY DEF ExitSnapshot, At
<1>2. ~w.again /\ w.how # "cancel" /\ w.c # 0 /\ chain[w.c] # "NONE"
  BY <1>0, <1>1 DEF WorkerInv, PlaceInv
<1>3. BoundsTyped'
  BY <1>0, <1>1, FaultBound DEF ExitSnapshot
<1>4. w' = Idle \/ Goto("kill") \/ Goto("exitRun")
  BY DEF ExitSnapshot, End, Goto
<1>5. CASE w' = Idle
  BY <1>1, <1>3, <1>5, IdlePlace, WorkerStep
<1>6. CASE Goto("kill")
  <2>1. w' \in Locals /\ WorkerInv'
    BY <1>0, <1>1, <1>2, <1>6, CalmGoto DEF Calm, durable, broker
  <2> QED
    BY <1>1, <1>3, <2>1, WorkerStep
<1>7. CASE Goto("exitRun")
  <2>1. "exitRun" \in PCs
    BY DEF PCs
  <2>2. /\ w' \in Locals /\ w'.pc = "exitRun" /\ w'.c = w.c /\ w'.pos = w.pos /\ w'.ec = w.ec
        /\ w'.again = w.again /\ w'.how = w.how
    BY <1>0, <1>7, <2>1, Going
  <2>3. WorkerInv'
    BY <1>0, <1>1, <1>2, <2>2 DEF WorkerInv, AnswerInv, PlanInv, PlaceInv, durable, broker
  <2> QED
    BY <1>1, <1>3, <2>2, <2>3, WorkerStep
<1> QED
  BY <1>4, <1>5, <1>6, <1>7

LEMMA ExitRunKeeps ==
  ASSUME IInv, ExitRun
  PROVE  IInv'
<1>0. /\ Typed /\ OrdersInv /\ RecordInv /\ WorkerInv /\ w \in Locals /\ kill \in BOOLEAN
  BY DEF IInv, Typed, BooksTyped
<1>1. UNCHANGED <<broker, phase, bounds>> /\ w.pc = "exitRun" /\ BoundsTyped'
  BY <1>0 DEF ExitRun, At, Typed, BoundsTyped, bounds
<1>2. ~w.again /\ w.how # "cancel" /\ w.c # 0 /\ chain[w.c] # "NONE"
  BY <1>0, <1>1 DEF WorkerInv, PlaceInv
<1>3. CASE End /\ UNCHANGED durable
  BY <1>1, <1>3, IdlePlace, WorkerStep DEF End
<1>4. CASE Undispatched(w.c) /\ Goto("exitAttempt") /\ UNCHANGED durable
  <2>1. chain[w.c] = "SUBMITTING" /\ attempts[w.c] = 0 /\ "exitAttempt" \in PCs
    <3>1. attempts[w.c] \in Nat
      BY <1>0, Constants DEF Typed, BooksTyped, Counts, Locals
    <3> QED
      BY <1>4, <3>1 DEF Undispatched, Attempted, PCs
  <2>2. /\ w' \in Locals /\ w'.pc = "exitAttempt" /\ w'.c = w.c /\ w'.pos = w.pos /\ w'.ec = w.ec
        /\ w'.again = w.again /\ w'.how = w.how
    BY <1>0, <1>4, <2>1, Going
  <2>3. WorkerInv'
    BY <1>0, <1>1, <1>2, <1>4, <2>1, <2>2
       DEF WorkerInv, AnswerInv, PlanInv, PlaceInv, durable, broker
  <2> QED
    BY <1>1, <1>4, <2>2, <2>3, WorkerStep
<1>5. CASE chain[w.c] = "PLANNED" /\ SetRun("EXIT_SUBMITTING") /\ Goto("exitChain")
  <2>1. run' = "EXIT_SUBMITTING" /\ UNCHANGED <<kill, chain, exits, attempts, bound>>
    BY <1>5 DEF SetRun
  <2>2. run' \in RunStates /\ Says(run', order, chain) /\ "exitChain" \in PCs
    BY <2>1 DEF RunStates, ExitStates, Says, TERMINAL_STRATEGY_STATES, PCs
  <2>3. /\ w' \in Locals /\ w'.pc = "exitChain" /\ w'.c = w.c /\ w'.pos = w.pos /\ w'.ec = w.ec
        /\ w'.again = w.again /\ w'.how = w.how
    BY <1>0, <1>5, <2>2, Going
  <2>4. WorkerInv'
    BY <1>0, <1>1, <1>2, <1>5, <2>1, <2>3 DEF WorkerInv, AnswerInv, PlanInv, PlaceInv, broker
  <2> QED
    BY <1>0, <1>1, <2>1, <2>2, <2>3, <2>4, RunStep
<1> QED
  BY <1>3, <1>4, <1>5 DEF ExitRun

LEMMA ExitChainKeeps ==
  ASSUME IInv, ExitChain
  PROVE  IInv'
<1>0. /\ Typed /\ OrdersInv /\ RecordInv /\ WorkerInv /\ w \in Locals /\ w.c \in Chains
      /\ chain \in [Chains -> Books]
  BY DEF IInv, Typed, BooksTyped, Locals
<1>1. /\ UNCHANGED <<broker, phase, bounds>> /\ w.pc = "exitChain" /\ BoundsTyped'
      /\ chain' = [chain EXCEPT ![w.c] = "SUBMITTING"] /\ Goto("exitAttempt")
      /\ UNCHANGED <<run, kill, exits, attempts, bound>>
  BY <1>0 DEF ExitChain, SetChain, At, Typed, BoundsTyped, bounds
<1>2. ~w.again /\ w.how # "cancel" /\ w.c # 0 /\ chain[w.c] = "PLANNED"
  BY <1>0, <1>1 DEF WorkerInv, PlaceInv
<1>3. /\ attempts[w.c] = 0 /\ "SUBMITTING" \in Books \ {"NONE"} /\ MayBe(w.c, "SUBMITTING")
      /\ chain[w.c] \notin Closed /\ "exitAttempt" \in PCs
  BY <1>0, <1>2 DEF RecordInv, BooksInv, Books, MayBe, Closed, PCs
<1>4. /\ w' \in Locals /\ w'.pc = "exitAttempt" /\ w'.c = w.c /\ w'.pos = w.pos /\ w'.ec = w.ec
      /\ w'.again = w.again /\ w'.how = w.how
  BY <1>0, <1>1, <1>3, Going
<1>5. chain'[0] = chain[0] /\ chain'[w.c] = "SUBMITTING"
  BY <1>0, <1>1, <1>2, Constants
<1>6. WorkerInv'
  BY <1>0, <1>1, <1>2, <1>3, <1>4, <1>5 DEF WorkerInv, AnswerInv, PlanInv, PlaceInv, broker
<1> QED
  BY <1>0, <1>1, <1>2, <1>3, <1>4, <1>6, ChainWritten

LEMMA RecordAttemptKeeps ==
  ASSUME IInv, RecordAttempt
  PROVE  IInv'
<1>0. /\ Typed /\ OrdersInv /\ RecordInv /\ WorkerInv /\ w \in Locals /\ w.c \in Chains
      /\ attempts \in Counts
  BY DEF IInv, Typed, BooksTyped, Locals
<1>1. /\ UNCHANGED <<run, kill, chain, exits, bound, broker, phase, bounds>>
      /\ w.pc \in {"exitAttempt", "replaceAttempt"}
      /\ attempts' = [attempts EXCEPT ![w.c] = @ + 1]
      /\ Goto(IF At("exitAttempt") THEN "place" ELSE "replace")
  BY DEF RecordAttempt
<1> PICK c \in Chains : c = w.c
  BY <1>0
<1>2. /\ ~w.again /\ w.how # "cancel"
      /\ w.pc = "exitAttempt" => chain[c] = "SUBMITTING" /\ attempts[c] = 0
      /\ w.pc = "replaceAttempt" =>
           /\ Latest(c) \in bound /\ chain[c] = "REPLACEMENT_PENDING" /\ attempts[c] <= MaxSeq
           /\ attempts[c] > 0
  BY <1>0, <1>1 DEF WorkerInv, PlaceInv, RecordInv, BooksInv
<1>3. /\ \A d \in Chains : attempts[d] \in 0 .. MaxSeq + 1
      /\ \A d \in Chains : attempts'[d] = IF d = c THEN attempts[c] + 1 ELSE attempts[d]
  BY <1>0, <1>1 DEF Counts
<1>4. attempts[c] <= MaxSeq
  BY <1>1, <1>2, Constants
<1>5. attempts' \in Counts
  <2>1. attempts[c] + 1 \in 0 .. MaxSeq + 1
    BY <1>3, <1>4, Constants
  <2> QED
    BY <1>0, <1>1, <2>1 DEF Counts
<1>6. /\ w.pc = "exitAttempt" => w'.pc = "place"
      /\ w.pc = "replaceAttempt" => w'.pc = "replace"
      /\ w' \in Locals /\ w'.c = c /\ w'.pos = w.pos /\ w'.ec = w.ec
      /\ w'.again = w.again /\ w'.how = w.how
  <2>1. "place" \in PCs /\ "replace" \in PCs
    BY DEF PCs
  <2>2. CASE w.pc = "exitAttempt"
    BY <1>0, <1>1, <2>1, <2>2, Going DEF At
  <2>3. CASE w.pc = "replaceAttempt"
    BY <1>0, <1>1, <2>1, <2>3, Going DEF At
  <2> QED
    BY <1>1, <2>2, <2>3
<1>7. Typed'
  BY <1>0, <1>1, <1>5, <1>6 DEF Typed, BooksTyped, BrokerTyped, BoundsTyped, broker, bounds
<1>8. Successive(order, attempts')
  <2>0. Successive(order, attempts)
    BY <1>0 DEF OrdersInv
  <2>1. \A d \in Chains, s \in Seqs : order[<<d, s>>] # "absent" => s < attempts'[d]
    BY <2>0, <1>3, Constants DEF Successive
  <2>2. ASSUME NEW d \in Chains, attempts'[d] > 1 PROVE order[<<d, attempts'[d] - 2>>] # "absent"
    <3>1. CASE d # c
      BY <2>0, <2>2, <3>1, <1>3 DEF Successive
    <3>2. CASE d = c
      <4>1. attempts'[d] - 2 = attempts[c] - 1 /\ attempts[c] # 0
        BY <1>3, <2>2, <3>2
      <4>2. order[Latest(c)] # "absent"
        BY <1>0, <1>1, <1>2, <4>1 DEF OrdersInv
      <4> QED
        BY <3>2, <4>1, <4>2 DEF Latest
    <3> QED
      BY <3>1, <3>2
  <2> QED
    BY <2>0, <2>1, <2>2 DEF Successive
<1>9. NetInv'
  <2>1. \A m \in net : m.id[1] \in Chains /\ m.id[2] \in Int
    <3> TAKE m \in net
    <3>1. m.id \in OrderIds
      BY <1>0 DEF Typed, BrokerTyped, Requests
    <3> QED
      BY <3>1, Ids, Constants
  <2>2. \A d \in Chains : attempts[d] <= attempts'[d] /\ attempts[d] \in Int /\ attempts'[d] \in Int
    BY <1>3
  <2>3. net' = net /\ NetInv
    BY <1>0, <1>1 DEF OrdersInv, broker
  <2>4. ASSUME NEW m \in net
        PROVE  /\ m.kind = "place" => m.id[2] = 0 /\ 0 < attempts'[m.id[1]]
               /\ m.kind = "replace" => 0 < m.id[2] /\ m.id[2] < attempts'[m.id[1]]
    BY <2>1, <2>2, <2>3 DEF NetInv
  <2> QED
    BY <2>3, <2>4 DEF NetInv
<1>10. OrdersInv'
  BY <1>0, <1>1, <1>8, <1>9 DEF OrdersInv, broker
<1>11. BooksInv'
  <2>1. BooksInv
    BY <1>0 DEF RecordInv
  <2>2. attempts'[0] > 0
    BY <1>3, <2>1, Constants DEF BooksInv
  <2>3. \A d \in Chains \ {c} : attempts'[d] = attempts[d] /\ Latest(d)' = Latest(d)
    BY <1>3 DEF Latest
  <2>4. /\ chain[c] \in {"SUBMITTING", "REPLACEMENT_PENDING"}
        /\ chain[c] = "SUBMITTING" => attempts'[c] = 1
        /\ chain[c] = "REPLACEMENT_PENDING" => attempts'[c] > 1
    BY <1>1, <1>2, <1>3
  <2>5. order' = order /\ chain' = chain /\ bound' = bound
    BY <1>1 DEF broker
  <2>6. ASSUME NEW d \in Chains
        PROVE  /\ chain'[d] \in {"NONE", "PLANNED"} => attempts'[d] = 0
               /\ chain'[d] = "SUBMITTING" => attempts'[d] <= 1
               /\ chain'[d] \notin {"NONE", "PLANNED", "SUBMITTING"} => attempts'[d] > 0
               /\ chain'[d] = "REPLACEMENT_PENDING" => Latest(d)' \in bound' \/ attempts'[d] > 1
               /\ chain'[d] = "CANCELED" => Dead(order', d) /\ ~HasFill(order', d)
               /\ chain'[d] = "FILLED" => Dead(order', d) /\ HasFill(order', d)
    <3>1. CASE d # c
      BY <2>1, <2>3, <2>5, <3>1 DEF BooksInv
    <3>2. CASE d = c
      <4>1. attempts'[c] \in Int
        BY <1>3
      <4> QED
        BY <2>4, <2>5, <3>2, <4>1
    <3> QED
      BY <3>1, <3>2
  <2> QED
    BY <2>2, <2>6 DEF BooksInv
<1>12. ExitsInv' /\ Says(run, order, chain)'
  BY <1>0, <1>1 DEF RecordInv, ExitsInv, ExitRows, broker
<1>13. WorkerInv'
  <2>1. /\ w'.pc = "place" => attempts'[c] = 1
        /\ w'.pc = "replace" => attempts'[c] > 1
        /\ w'.pc \in {"place", "replace"}
    BY <1>1, <1>2, <1>3, <1>6
  <2> QED
    BY <1>0, <1>1, <1>2, <1>6, <2>1 DEF WorkerInv, AnswerInv, PlanInv, PlaceInv, broker
<1> QED
  BY <1>7, <1>10, <1>11, <1>12, <1>13 DEF IInv, RecordInv

-----------------------------------------------------------------------------
(* Repricing and resuming.                                                   *)

LEMMA Replanned ==
  ASSUME w \in Locals, NEW l \in PCs, NEW c \in Chains,
         w' = [Plain(l, c) EXCEPT !.how = "replace"]
  PROVE  /\ w' \in Locals /\ w'.pc = l /\ w'.c = c /\ w'.how = "replace" /\ w'.again = FALSE
         /\ w'.err = "raise" /\ w'.ret = "idle" /\ w'.pos = w.pos /\ w'.ec = w.ec
<1> DEFINE v == [w EXCEPT !.pc = l, !.c = c, !.how = "order"]
           u == [v EXCEPT !.again = FALSE, !.err = "raise", !.ret = "idle"]
<1>1. v \in Locals /\ v.pc = l /\ v.c = c /\ v.how = "order" /\ v.pos = w.pos /\ v.ec = w.ec
  BY DEF Locals
<1>2. w' = [u EXCEPT !.how = "replace"]
  BY DEF Plain
<1> HIDE DEF v
<1>3. /\ u \in Locals /\ u.pc = l /\ u.c = c /\ u.pos = w.pos /\ u.ec = w.ec
      /\ u.again = FALSE /\ u.err = "raise" /\ u.ret = "idle"
  BY <1>1 DEF Locals
<1> HIDE DEF u
<1> QED
  BY <1>2, <1>3 DEF Locals

LEMMA RepriceKeeps ==
  ASSUME IInv, Reprice
  PROVE  IInv'
<1>0. /\ Typed /\ OrdersInv /\ RecordInv /\ WorkerInv /\ w \in Locals /\ w.c \in Chains
  BY DEF IInv, Typed, Locals
<1>1. UNCHANGED <<durable, broker, phase, bounds>> /\ w.pc = "reprice" /\ BoundsTyped'
  BY <1>0 DEF Reprice, At, Typed, BoundsTyped, bounds
<1> PICK c \in Chains : c = w.c
  BY <1>0
<1>2. ~w.again /\ w.how # "cancel" /\ chain[c] # "NONE"
  BY <1>0, <1>1 DEF WorkerInv, PlaceInv
<1>3. \/ w' = Idle
      \/ w' = [w EXCEPT !.pc = "kill"]
      \/ c # 0 /\ w' = Plain("exitSnapshot", c)
      \/ /\ chain[c] = "SUBMITTING" /\ Attempted(c)
         /\ \E l \in {"resumeEntry", "resumeExit"} : w' = Plain(l, c)
      \/ /\ chain[c] = "REPLACEMENT_PENDING" /\ Unbound(c)
         /\ w' = [Plain("resumeReplace", c) EXCEPT !.how = "replace"]
      \/ ~Unbound(c) /\ w' = [Plain("replaceChain", c) EXCEPT !.how = "replace"]
  BY DEF Reprice
<1>4. CASE w' = Idle
  BY <1>1, <1>4, IdlePlace, WorkerStep
<1>5. CASE w' = [w EXCEPT !.pc = "kill"]
  <2>1. /\ w' \in Locals /\ w'.pc = "kill" /\ w'.pos = w.pos /\ w'.ec = w.ec
        /\ w'.again = w.again /\ w'.how = w.how
    BY <1>0, <1>5 DEF Locals, PCs
  <2> QED
    BY <1>1, <1>2, <2>1, CalmStep DEF Calm
<1>6. CASE c # 0 /\ w' = Plain("exitSnapshot", c)
  <2>1. "exitSnapshot" \in PCs
    BY DEF PCs
  <2>2. /\ w' \in Locals /\ w'.pc = "exitSnapshot" /\ w'.c = c /\ w'.how = "order"
        /\ w'.again = FALSE /\ w'.pos = w.pos /\ w'.ec = w.ec
    BY <1>0, <1>6, <2>1, Planned
  <2>3. WorkerInv'
    BY <1>0, <1>1, <1>2, <1>6, <2>2 DEF WorkerInv, AnswerInv, PlanInv, PlaceInv, durable, broker
  <2> QED
    BY <1>1, <2>2, <2>3, WorkerStep
<1>7. ASSUME chain[c] = "SUBMITTING", Attempted(c),
             NEW l \in {"resumeEntry", "resumeExit"}, w' = Plain(l, c)
      PROVE  IInv'
  <2>1. l \in PCs
    BY DEF PCs
  <2>2. /\ w' \in Locals /\ w'.pc = l /\ w'.c = c /\ w'.how = "order"
        /\ w'.again = FALSE /\ w'.ret = "idle" /\ w'.pos = w.pos /\ w'.ec = w.ec
    BY <1>0, <1>7, <2>1, Planned
  <2>3. WorkerInv'
    BY <1>0, <1>1, <1>2, <1>7, <2>2
       DEF WorkerInv, AnswerInv, PlanInv, PlaceInv, durable, broker, Attempted
  <2> QED
    BY <1>1, <2>2, <2>3, WorkerStep
<1>8. CASE /\ chain[c] = "REPLACEMENT_PENDING" /\ Unbound(c)
           /\ w' = [Plain("resumeReplace", c) EXCEPT !.how = "replace"]
  <2>1. "resumeReplace" \in PCs /\ attempts[c] > 1
    BY <1>0, <1>8 DEF PCs, RecordInv, BooksInv, Unbound
  <2>2. /\ w' \in Locals /\ w'.pc = "resumeReplace" /\ w'.c = c /\ w'.how = "replace"
        /\ w'.again = FALSE /\ w'.pos = w.pos /\ w'.ec = w.ec
    BY <1>0, <1>8, <2>1, Replanned
  <2>3. WorkerInv'
    BY <1>0, <1>1, <1>2, <2>1, <2>2 DEF WorkerInv, AnswerInv, PlanInv, PlaceInv, durable, broker
  <2> QED
    BY <1>1, <2>2, <2>3, WorkerStep
<1>9. CASE ~Unbound(c) /\ w' = [Plain("replaceChain", c) EXCEPT !.how = "replace"]
  <2>1. "replaceChain" \in PCs /\ Latest(c) \in bound
    BY <1>9 DEF PCs, Unbound
  <2>2. /\ w' \in Locals /\ w'.pc = "replaceChain" /\ w'.c = c /\ w'.how = "replace"
        /\ w'.again = FALSE /\ w'.pos = w.pos /\ w'.ec = w.ec
    BY <1>0, <1>9, <2>1, Replanned
  <2>3. WorkerInv'
    BY <1>0, <1>1, <1>2, <2>1, <2>2
       DEF WorkerInv, AnswerInv, PlanInv, PlaceInv, durable, broker, Latest
  <2> QED
    BY <1>1, <2>2, <2>3, WorkerStep
<1> QED
  BY <1>3, <1>4, <1>5, <1>6, <1>7, <1>8, <1>9

LEMMA ReplaceChainKeeps ==
  ASSUME IInv, ReplaceChain
  PROVE  IInv'
<1>0. /\ Typed /\ OrdersInv /\ RecordInv /\ WorkerInv /\ w \in Locals /\ w.c \in Chains
      /\ chain \in [Chains -> Books]
  BY DEF IInv, Typed, BooksTyped, Locals
<1>1. UNCHANGED <<broker, phase, bounds>> /\ w.pc = "replaceChain" /\ BoundsTyped'
  BY <1>0 DEF ReplaceChain, At, Typed, BoundsTyped, bounds
<1> PICK c \in Chains : c = w.c
  BY <1>0
<1>2. ~w.again /\ w.how # "cancel" /\ Latest(c) \in bound /\ chain[c] # "NONE"
  BY <1>0, <1>1 DEF WorkerInv, PlaceInv
<1>3. CASE End /\ UNCHANGED durable
  BY <1>1, <1>3, IdlePlace, WorkerStep DEF End
<1>4. CASE /\ ChainStep(chain[c], "REPLACEMENT_PENDING") /\ attempts[c] <= MaxSeq
           /\ SetChain(c, "REPLACEMENT_PENDING") /\ Goto("replaceAttempt")
  <2>1. /\ chain' = [chain EXCEPT ![c] = "REPLACEMENT_PENDING"]
        /\ UNCHANGED <<run, kill, exits, attempts, bound>>
    BY <1>4 DEF SetChain
  <2>2. attempts[c] > 0
    <3>1. Latest(c) \in OrderIds /\ attempts[c] \in Nat
      BY <1>0, <1>2, Constants DEF Typed, BooksTyped, Counts
    <3>2. attempts[c] - 1 \in Seqs
      BY <3>1 DEF Latest, OrderIds, Seqs
    <3> QED
      BY <3>1, <3>2 DEF Seqs
  <2>3. /\ "REPLACEMENT_PENDING" \in Books \ {"NONE"} /\ MayBe(c, "REPLACEMENT_PENDING")
        /\ "replaceAttempt" \in PCs
    BY <1>2, <2>2 DEF Books, MayBe, PCs
  <2>4. chain[c] \notin Closed
    BY <1>4, ClosedChainStep DEF Closed
  <2>5. /\ w' \in Locals /\ w'.pc = "replaceAttempt" /\ w'.c = c /\ w'.pos = w.pos /\ w'.ec = w.ec
        /\ w'.again = w.again /\ w'.how = w.how
    BY <1>0, <1>4, <2>3, Going
  <2>6. KeepsClosed(chain, chain') /\ chain'[c] = "REPLACEMENT_PENDING"
    BY <1>0, <2>1, <2>4 DEF KeepsClosed
  <2>7. w'.ec = "CANCELED" => chain'[0] = "CANCELED"
    BY <1>0, <2>5, <2>6, Constants DEF KeepsClosed, Closed, WorkerInv, PlaceInv
  <2>8. Latest(c)' = Latest(c)
    BY <2>1 DEF Latest
  <2>9. WorkerInv'
    BY <1>0, <1>1, <1>2, <1>4, <2>1, <2>5, <2>6, <2>7, <2>8
       DEF WorkerInv, AnswerInv, PlanInv, PlaceInv, broker
  <2> QED
    BY <1>0, <1>1, <1>2, <2>1, <2>3, <2>4, <2>5, <2>9, ChainWritten
<1> QED
  BY <1>3, <1>4 DEF ReplaceChain

LEMMA ResumeReplacementKeeps ==
  ASSUME IInv, ResumeReplacement
  PROVE  IInv'
<1>0. Typed /\ OrdersInv /\ RecordInv /\ WorkerInv /\ w \in Locals /\ w.c \in Chains
  BY DEF IInv, Typed, Locals
<1>1. UNCHANGED <<durable, broker, phase, kills, crashes>> /\ w.pc = "resumeReplace"
  BY DEF ResumeReplacement, At
<1>2. attempts[w.c] > 1 /\ attempts[w.c] > 0 /\ w.how # "cancel" /\ ~w.again
  <2>1. attempts[w.c] \in Int
    BY <1>0, Constants DEF Typed, BooksTyped, Counts
  <2> QED
    BY <1>0, <1>1, <2>1 DEF WorkerInv, PlaceInv
<1>3. PICK r \in Answers :
        /\ LookedUp(Latest(w.c), r)
        /\ w' = IF r = "absent" THEN [w EXCEPT !.pc = "replace"]
                ELSE [w EXCEPT !.pc = "bind", !.res = r]
  BY DEF ResumeReplacement, Answers
<1>4. CASE r = "absent"
  <2>1. /\ w' \in Locals /\ w'.pc = "replace" /\ w'.pos = w.pos /\ w'.ec = w.ec /\ w'.c = w.c
        /\ w'.again = w.again /\ w'.how = w.how
    BY <1>0, <1>3, <1>4 DEF Locals, PCs
  <2>2. WorkerInv'
    BY <1>0, <1>1, <1>2, <2>1 DEF WorkerInv, AnswerInv, PlanInv, PlaceInv, durable, broker
  <2> QED
    BY <1>0, <1>1, <1>3, <2>1, <2>2, WorkerStep, AskedBound
<1>5. CASE r # "absent"
  <2>1. /\ order[Latest(w.c)] # "absent"
        /\ r = "zero" => Dead(order, w.c) /\ ~HasFill(order, w.c)
        /\ r = "filled" => Dead(order, w.c) /\ HasFill(order, w.c)
    BY <1>0, <1>2, <1>3, <1>5, LatestIs, LookupTells
  <2>2. /\ w' \in Locals /\ w'.pc = "bind" /\ w'.pos = w.pos /\ w'.ec = w.ec /\ w'.c = w.c
        /\ w'.again = w.again /\ w'.how = w.how /\ w'.res = r
    BY <1>0, <1>3, <1>5, Answered
  <2>3. WorkerInv'
    BY <1>0, <1>1, <1>2, <1>5, <2>1, <2>2
       DEF WorkerInv, AnswerInv, PlanInv, PlaceInv, durable, broker, Latest
  <2> QED
    BY <1>0, <1>1, <1>3, <2>2, <2>3, WorkerStep, AskedBound
<1> QED
  BY <1>4, <1>5

LEMMA ResumeKeeps ==
  ASSUME IInv, Resume
  PROVE  IInv'
<1>0. Typed /\ OrdersInv /\ RecordInv /\ WorkerInv /\ w \in Locals /\ w.c \in Chains
  BY DEF IInv, Typed, Locals
<1>1. UNCHANGED <<durable, broker, phase, kills, crashes>> /\ w.pc \in {"resumeEntry", "resumeExit"}
  BY DEF Resume
<1>2. /\ chain[w.c] = "SUBMITTING" /\ attempts[w.c] > 0 /\ w.how = "order" /\ w.ret = "idle"
      /\ ~w.again
  BY <1>0, <1>1 DEF WorkerInv, PlaceInv
<1>3. \/ End /\ NoFault
      \/ \E r \in Answers :
           /\ LookedUp(Latest(w.c), r)
           /\ w' = IF r = "absent" THEN [w EXCEPT !.pc = "resumeSnapshot"]
                   ELSE [w EXCEPT !.pc = "bind", !.res = r]
  BY DEF Resume, Answers
<1>4. CASE End /\ NoFault
  BY <1>0, <1>1, <1>4, IdlePlace, WorkerStep, FaultBound DEF End
<1>5. ASSUME NEW r \in Answers, LookedUp(Latest(w.c), r), r = "absent",
             w' = [w EXCEPT !.pc = "resumeSnapshot"]
      PROVE  IInv'
  <2>1. /\ w' \in Locals /\ w'.pc = "resumeSnapshot" /\ w'.pos = w.pos /\ w'.ec = w.ec
        /\ w'.c = w.c /\ w'.again = w.again /\ w'.how = w.how /\ w'.ret = w.ret
    BY <1>0, <1>5 DEF Locals, PCs
  <2>2. WorkerInv'
    BY <1>0, <1>1, <1>2, <2>1 DEF WorkerInv, AnswerInv, PlanInv, PlaceInv, durable, broker
  <2> QED
    BY <1>0, <1>1, <1>5, <2>1, <2>2, WorkerStep, AskedBound
<1>6. ASSUME NEW r \in Answers, LookedUp(Latest(w.c), r), r # "absent",
             w' = [w EXCEPT !.pc = "bind", !.res = r]
      PROVE  IInv'
  <2>1. /\ order[Latest(w.c)] # "absent"
        /\ r = "zero" => Dead(order, w.c) /\ ~HasFill(order, w.c)
        /\ r = "filled" => Dead(order, w.c) /\ HasFill(order, w.c)
    BY <1>0, <1>2, <1>6, LatestIs, LookupTells
  <2>2. /\ w' \in Locals /\ w'.pc = "bind" /\ w'.pos = w.pos /\ w'.ec = w.ec /\ w'.c = w.c
        /\ w'.again = w.again /\ w'.how = w.how /\ w'.res = r
    BY <1>0, <1>6, Answered
  <2>3. WorkerInv'
    BY <1>0, <1>1, <1>2, <1>6, <2>1, <2>2
       DEF WorkerInv, AnswerInv, PlanInv, PlaceInv, durable, broker, Latest
  <2> QED
    BY <1>0, <1>1, <1>6, <2>2, <2>3, WorkerStep, AskedBound
<1> QED
  BY <1>3, <1>4, <1>5, <1>6

LEMMA ResumeSnapshotKeeps ==
  ASSUME IInv, ResumeSnapshot
  PROVE  IInv'
<1>0. /\ Typed /\ OrdersInv /\ RecordInv /\ WorkerInv /\ w \in Locals /\ w.c \in Chains
      /\ chain \in [Chains -> Books]
  BY DEF IInv, Typed, BooksTyped, Locals
<1>1. UNCHANGED <<broker, phase, kills, crashes>> /\ w.pc = "resumeSnapshot"
  BY DEF ResumeSnapshot, At
<1> PICK c \in Chains : c = w.c
  BY <1>0
<1>2. /\ chain[c] = "SUBMITTING" /\ attempts[c] > 0 /\ w.how = "order" /\ w.ret = "idle"
      /\ ~w.again
  BY <1>0, <1>1 DEF WorkerInv, PlaceInv
<1>3. attempts[c] = 1
  <2>1. attempts[c] \in Nat /\ attempts[c] <= 1
    BY <1>0, <1>2, Constants DEF Typed, BooksTyped, Counts, RecordInv, BooksInv
  <2> QED
    BY <1>2, <2>1
<1>4. BoundsTyped'
  BY <1>0, <1>1, FaultBound DEF ResumeSnapshot
<1> DEFINE first == (c = 0)
<1>5. \/ Latest(c) \in OpenOrders /\ w' = [w EXCEPT !.pc = "bind", !.res = "open"] /\ UNCHANGED durable
      \/ SetChain(c, "UNKNOWN") /\ Goto("kill")
      \/ w' = [w EXCEPT !.pc = "place", !.again = first] /\ UNCHANGED durable
      \/ End /\ UNCHANGED durable
  BY DEF ResumeSnapshot
<1>6. first \in BOOLEAN
  OBVIOUS
<1> HIDE DEF first
<1>7. CASE Latest(c) \in OpenOrders /\ w' = [w EXCEPT !.pc = "bind", !.res = "open"] /\ UNCHANGED durable
  <2>1. order[Latest(c)] = "open"
    BY <1>7 DEF OpenOrders
  <2>2. /\ w' \in Locals /\ w'.pc = "bind" /\ w'.pos = w.pos /\ w'.ec = w.ec /\ w'.c = w.c
        /\ w'.again = w.again /\ w'.how = w.how /\ w'.res = "open"
    BY <1>0, <1>7, Answered DEF Answers
  <2>3. WorkerInv'
    BY <1>0, <1>1, <1>2, <1>7, <2>1, <2>2
       DEF WorkerInv, AnswerInv, PlanInv, PlaceInv, durable, broker, Latest
  <2> QED
    BY <1>1, <1>4, <1>7, <2>2, <2>3, WorkerStep
<1>8. CASE SetChain(c, "UNKNOWN") /\ Goto("kill")
  <2>1. chain' = [chain EXCEPT ![c] = "UNKNOWN"] /\ UNCHANGED <<run, kill, exits, attempts, bound>>
    BY <1>8 DEF SetChain
  <2>2. /\ "UNKNOWN" \in Books \ {"NONE"} /\ MayBe(c, "UNKNOWN") /\ chain[c] \notin Closed
        /\ "kill" \in PCs
    BY <1>2 DEF Books, MayBe, Closed, PCs
  <2>3. /\ w' \in Locals /\ w'.pc = "kill" /\ w'.pos = w.pos /\ w'.ec = w.ec
        /\ w'.again = w.again /\ w'.how = w.how
    BY <1>0, <1>8, <2>2, Going
  <2>4. KeepsClosed(chain, chain')
    BY <1>0, <2>1, <2>2 DEF KeepsClosed
  <2>5. w'.ec = "CANCELED" => chain'[0] = "CANCELED"
    BY <1>0, <2>3, <2>4, Constants DEF KeepsClosed, Closed, WorkerInv, PlaceInv
  <2>6. WorkerInv'
    BY <1>0, <1>1, <1>2, <2>3, <2>5, CalmPlace DEF Calm, WorkerInv, PlaceInv, broker
  <2> QED
    BY <1>1, <1>2, <1>4, <2>1, <2>2, <2>3, <2>6, ChainWritten
<1>9. CASE w' = [w EXCEPT !.pc = "place", !.again = first] /\ UNCHANGED durable
  <2>1. /\ w' \in Locals /\ w'.pc = "place" /\ w'.pos = w.pos /\ w'.ec = w.ec
        /\ w'.how = w.how /\ w'.ret = w.ret /\ w'.c = w.c
    BY ZenonT(40), <1>0, <1>6, <1>9 DEF Locals, PCs
  <2>2. WorkerInv'
    BY <1>0, <1>1, <1>2, <1>3, <1>9, <2>1
       DEF WorkerInv, AnswerInv, PlanInv, PlaceInv, durable, broker
  <2> QED
    BY <1>1, <1>4, <1>9, <2>1, <2>2, WorkerStep
<1>10. CASE End /\ UNCHANGED durable
  BY <1>1, <1>4, <1>10, IdlePlace, WorkerStep DEF End
<1> QED
  BY <1>5, <1>7, <1>8, <1>9, <1>10

-----------------------------------------------------------------------------
(* The invariant.                                                            *)

LEMMA Start ==
  ASSUME Init
  PROVE  IInv
<1> USE Constants
<1>0. /\ run = "SUBMITTING" /\ kill = FALSE /\ exits = 0 /\ bound = {} /\ net = {}
      /\ fills = 0 /\ shown = 0 /\ phase = "entry" /\ kills = 0 /\ crashes = 0 /\ faults = 0
      /\ chain = [c \in Chains |-> IF c = 0 THEN "SUBMITTING" ELSE "NONE"]
      /\ attempts = [c \in Chains |-> IF c = 0 THEN 1 ELSE 0]
      /\ order = [id \in OrderIds |-> "absent"]
  BY DEF Init
<1>1. /\ w \in Locals /\ w.pc = "place" /\ w.c = 0 /\ w.how = "order" /\ w.ret = "idle"
      /\ w.pos = FALSE /\ w.ec = "NONE"
  <2>1. Idle \in Locals /\ w = [Idle EXCEPT !.pc = "place", !.again = TRUE, !.err = "kill"]
    BY Init0 DEF Init
  <2>2. Idle.c = 0 /\ Idle.how = "order" /\ Idle.ret = "idle" /\ Idle.pos = FALSE /\ Idle.ec = "NONE"
    BY DEF Idle
  <2> QED
    BY ZenonT(40), <2>1, <2>2 DEF Locals, PCs
<1>2. /\ chain[0] = "SUBMITTING" /\ \A c \in ExitChains : chain[c] = "NONE" /\ attempts[c] = 0
      /\ attempts[0] = 1 /\ \A c \in Chains : c = 0 \/ (chain[c] = "NONE" /\ attempts[c] = 0)
  BY <1>0
<1>3. \A c \in Chains, s \in Seqs : order[<<c, s>>] = "absent"
  BY <1>0, Ids
<1>4. BooksTyped
  <2>1. run \in RunStates /\ kill \in BOOLEAN /\ exits \in 0 .. MaxExits /\ bound \subseteq OrderIds
    <3>1. run \in RunStates
      BY <1>0 DEF RunStates, WorkingEntryStates
    <3>2. kill \in BOOLEAN /\ bound \subseteq OrderIds
      BY <1>0
    <3>3. exits \in 0 .. MaxExits
      BY <1>0
    <3> QED
      BY <3>1, <3>2, <3>3
  <2>2. chain \in [Chains -> Books]
    <3>1. \A c \in Chains : (IF c = 0 THEN "SUBMITTING" ELSE "NONE") \in Books
      BY DEF Books
    <3> QED
      BY <1>0, <3>1
  <2>3. attempts \in Counts
    BY <1>0 DEF Counts
  <2> QED
    BY <2>1, <2>2, <2>3 DEF BooksTyped
<1>5. BrokerTyped
  BY <1>0 DEF BrokerTyped, Orders, Answers, Phases
<1>6. Typed
  BY <1>0, <1>1, <1>4, <1>5 DEF Typed, BoundsTyped
<1>7. OrdersInv
  <2>1. Successive(order, attempts)
    <3>1. \A c \in Chains : attempts[c] <= 1 /\ ~(attempts[c] > 1)
      BY <1>2
    <3> QED
      BY <1>3, <3>1 DEF Successive
  <2>2. Fills(order) = 0
    <3>1. \A c \in Chains : ~HasFill(order, c)
      BY <1>3 DEF HasFill
    <3> QED
      BY <3>1 DEF Fills, ExitFilled
  <2> QED
    BY <1>0, <2>1, <2>2 DEF OrdersInv, NetInv
<1>8. RecordInv
  <2>1. BooksInv
    BY <1>2 DEF BooksInv
  <2>2. ExitsInv
    BY <1>2 DEF ExitsInv, ExitRows
  <2>3. Says(run, order, chain)
    BY <1>0 DEF Says, TERMINAL_STRATEGY_STATES
  <2> QED
    BY <2>1, <2>2, <2>3 DEF RecordInv
<1>9. WorkerInv
  BY <1>1, <1>2 DEF WorkerInv, AnswerInv, PlanInv, PlaceInv
<1> QED
  BY <1>6, <1>7, <1>8, <1>9 DEF IInv

LEMMA Step ==
  ASSUME IInv, [Next]_vars
  PROVE  IInv'
<1>1. CASE Reconcile
  BY <1>1, SnapshotKeeps, CheckActivitiesKeeps, ReconcileEntryKeeps, ReconcileDoneKeeps,
     TerminalEntryKeeps, ReconcileExitKeeps, ReconcilePositionsKeeps DEF Reconcile
<1>2. CASE Apply
  BY <1>2, BindKeeps, ApplyChainKeeps, ApplyRunKeeps, RelookKeeps, UnresolvedKeeps, KillKeeps
     DEF Apply
<1>3. CASE Handle
  BY <1>3, ManageKeeps, PlaceKeeps, ReplaceKeeps, CancelRunKeeps, CancelChainKeeps,
     CancelCallKeeps, CancelGetKeeps, StartExitKeeps, PersistIntentKeeps, PersistChainKeeps,
     ExitSnapshotKeeps, ExitRunKeeps, ExitChainKeeps, RecordAttemptKeeps, RepriceKeeps,
     ReplaceChainKeeps, ResumeReplacementKeeps, ResumeKeeps, ResumeSnapshotKeeps DEF Handle
<1>4. CASE Broker
  BY <1>4, FillKeeps, ExpireKeeps, DeliverKeeps, ShowKeeps DEF Broker
<1>5. CASE OperatorKill \/ NextPhase \/ Crash \/ UNCHANGED vars
  BY <1>5, KillKeeps, NextPhaseKeeps, CrashKeeps, StutterKeeps
<1> QED
  BY <1>1, <1>2, <1>3, <1>4, <1>5 DEF Next, Worker

\* What the books, the broker and the worker know of each other holds in every
\* reachable state.
THEOREM Invariant == Spec => []IInv
<1>1. Init => IInv
  BY Start
<1>2. IInv /\ [Next]_vars => IInv'
  BY Step
<1> QED
  BY <1>1, <1>2, PTL DEF Spec

-----------------------------------------------------------------------------
(* What follows for the account.                                             *)

LEMMA OneOpen ==
  ASSUME IInv, NEW a \in OpenOrders, NEW b \in OpenOrders
  PROVE  a = b
<1>0. Typed /\ OrdersInv /\ RecordInv
  BY DEF IInv
<1>1. PICK c \in Chains, s \in Seqs : a = <<c, s>>
  BY Ids DEF OpenOrders
<1>2. PICK d \in Chains, t \in Seqs : b = <<d, t>>
  BY Ids DEF OpenOrders
<1>3. order[<<c, s>>] = "open" /\ order[<<d, t>>] = "open"
  BY <1>1, <1>2 DEF OpenOrders
<1>4. HasOpen(order, c) /\ HasOpen(order, d)
  BY <1>3 DEF HasOpen
<1>5. c = d
  BY <1>0, <1>4, ExitWorks, EntryWorks, Constants
<1>6. s = t
  BY <1>3, <1>5, SameLater, OneTells
<1> QED
  BY <1>1, <1>2, <1>5, <1>6

\* How many fills there are, by what is filled.
LEMMA FillsAre ==
  ASSUME IInv
  PROVE  /\ fills = 0 <=> ~HasFill(order, 0)
         /\ fills = 1 <=> HasFill(order, 0) /\ ~ExitFilled(order)
         /\ fills = 2 <=> HasFill(order, 0) /\ ExitFilled(order)
         /\ fills \in 0 .. 2
<1>1. ExitFilled(order) => HasFill(order, 0)
  BY ExitNeedsEntry DEF IInv
<1>2. fills = Fills(order)
  BY DEF IInv, OrdersInv
<1> QED
  BY <1>1, <1>2 DEF Fills

\* Once the trade is over no chain has an order to come or to fill.
LEMMA DoneIsOver ==
  ASSUME IInv, Done(chain)
  PROVE  /\ \A c \in Chains : attempts[c] > 0 => Dead(order, c)
         /\ chain[0] = "CANCELED" => fills = 0
         /\ chain[0] # "CANCELED" => fills = 2
         /\ OpenOrders = {}
         /\ \A m \in net : m.kind = "cancel" \/ (m.kind = "replace" /\ ~Replaceable(m.id))
                           \/ (m.kind = "place" /\ ~Accept(m.id))
<1>0. Typed /\ OrdersInv /\ RecordInv /\ 0 \in Chains
  BY Constants DEF IInv
<1>1. /\ chain[0] = "CANCELED" => fills = 0 /\ \A c \in ExitChains : chain[c] = "NONE"
      /\ chain[0] # "CANCELED" => fills = 2
  <2>1. CASE chain[0] = "CANCELED"
    <3>1. ~HasFill(order, 0)
      BY <1>0, <2>1 DEF RecordInv, BooksInv
    <3> QED
      BY <1>0, <2>1, <3>1, FillsAre DEF RecordInv, ExitsInv
  <2>2. CASE chain[0] # "CANCELED"
    <3>1. HasFill(order, 0)
      BY <1>0, <2>2 DEF Done, RecordInv, BooksInv
    <3>2. ExitFilled(order)
      BY <1>0, <2>2, Constants DEF Done, ExitFilled, RecordInv, BooksInv
    <3> QED
      BY <2>2, <3>1, <3>2, FillsAre
  <2> QED
    BY <2>1, <2>2
<1>2. ASSUME NEW c \in Chains, attempts[c] > 0
      PROVE  Dead(order, c)
  <2>1. CASE c = 0
    BY <1>0, <2>1 DEF Done, RecordInv, BooksInv
  <2>2. CASE c # 0
    <3>1. c \in ExitChains /\ chain[c] # "NONE"
      BY <1>0, <1>2, <2>2, Constants DEF RecordInv, BooksInv
    <3>2. PICK d \in ExitChains : chain[d] = "FILLED"
      BY <1>1, <3>1 DEF Done
    <3>3. ~(d < c)
      BY <1>0, <3>1, <3>2 DEF RecordInv, ExitsInv
    <3>4. c = d \/ c < d
      BY <3>1, <3>3, Constants
    <3>5. chain[c] \in {"CANCELED", "FILLED"}
      BY <1>0, <3>1, <3>2, <3>4 DEF RecordInv, ExitsInv
    <3> QED
      BY <1>0, <3>5 DEF RecordInv, BooksInv
  <2> QED
    BY <2>1, <2>2
<1>3. \A c \in Chains, s \in Seqs : order[<<c, s>>] # "open"
  <2> SUFFICES ASSUME NEW c \in Chains, NEW s \in Seqs, order[<<c, s>>] = "open" PROVE FALSE
    OBVIOUS
  <2>1. attempts[c] > 0
    BY <1>0, HasRow
  <2> QED
    BY <1>2, <2>1 DEF Dead, HasOpen
<1>4. OpenOrders = {}
  BY <1>3, Ids DEF OpenOrders
<1>5. ASSUME NEW m \in net
      PROVE  m.kind = "cancel" \/ (m.kind = "replace" /\ ~Replaceable(m.id))
             \/ (m.kind = "place" /\ ~Accept(m.id))
  <2>1. m.kind \in {"place", "replace", "cancel"} /\ m.id \in OrderIds
    BY <1>0 DEF Typed, BrokerTyped, Requests
  <2>2. PICK c \in Chains, s \in Seqs : m.id = <<c, s>>
    BY <2>1, Ids
  <2>3. CASE m.kind = "place"
    <3>1. s = 0 /\ attempts[c] > 0
      BY <1>0, <2>2, <2>3 DEF OrdersInv, NetInv
    <3>2. order[<<c, 0>>] # "absent"
      BY <1>2, <3>1 DEF Dead
    <3> QED
      BY <2>2, <2>3, <3>1, <3>2 DEF Accept
  <2>4. CASE m.kind = "replace"
    <3>1. s > 0 /\ s \in Seqs
      BY <1>0, <2>2, <2>4 DEF OrdersInv, NetInv
    <3>2. s - 1 \in Seqs
      BY <3>1, Constants DEF Seqs
    <3>3. order[<<c, s - 1>>] # "open"
      BY <1>3, <3>2
    <3> QED
      BY <2>2, <2>4, <3>3 DEF Replaceable, Prior
  <2> QED
    BY <2>1, <2>3, <2>4
<1> QED
  BY <1>1, <1>2, <1>4, <1>5

-----------------------------------------------------------------------------
(* The theorems.                                                             *)

\* Every variable keeps its type: in particular there are never more than two
\* fills, one of the entry and one of an exit.
THEOREM TypesAreKept == Spec => []TypeOK
<1>1. IInv => TypeOK
  <2> SUFFICES ASSUME IInv PROVE TypeOK
    OBVIOUS
  <2>0. Typed /\ w \in Locals
    BY DEF IInv, Typed
  <2>1. run \in STRATEGY_STATES /\ kill \in BOOLEAN /\ exits \in 0..MaxExits /\ bound \subseteq OrderIds
    BY <2>0 DEF Typed, BooksTyped, RunStates, STRATEGY_STATES
  <2>2. chain \in [Chains -> ORDER_CHAIN_STATES \cup {"NONE"}]
    <3>1. Books \subseteq ORDER_CHAIN_STATES \cup {"NONE"}
      BY DEF Books, ORDER_CHAIN_STATES, WORKING_CHAIN_STATES, TerminalChainStates
    <3> QED
      BY <2>0, <3>1 DEF Typed, BooksTyped
  <2>3. attempts \in [Chains -> 0..(MaxSeq + 1)]
    BY <2>0 DEF Typed, BooksTyped, Counts
  <2>4. order \in [OrderIds -> {"absent", "open", "filled", "zero", "replaced"}]
    <3>1. Answers \cup {"replaced"} = {"absent", "open", "filled", "zero", "replaced"}
      BY DEF Answers
    <3> QED
      BY <2>0, <3>1 DEF Typed, BrokerTyped, Orders
  <2>5. net \subseteq [kind: {"place", "replace", "cancel"}, id: OrderIds]
    BY <2>0 DEF Typed, BrokerTyped, Requests
  <2>6. fills \in 0..2 /\ shown \in 0..fills
    BY <2>0, FillsAre DEF Typed, BrokerTyped
  <2>7. phase \in {"entry", "cancel", "closed", "exit"}
    BY <2>0 DEF Typed, BrokerTyped, Phases
  <2>8. w.pc \in PCs /\ w.c \in Chains /\ w.ords \subseteq OrderIds
    BY <2>0 DEF Locals
  <2>9. kills \in 0..MaxKills /\ crashes \in 0..MaxCrashes /\ faults \in 0..MaxFaults
    BY <2>0 DEF Typed, BoundsTyped
  <2> QED
    BY <2>1, <2>2, <2>3, <2>4, <2>5, <2>6, <2>7, <2>8, <2>9 DEF TypeOK
<1> QED
  BY <1>1, Invariant, PTL

\* The broker never works two orders of the run at once, whatever was replaced,
\* resent, lost or recovered.
THEOREM OneOrderIsWorked == Spec => []OneWorkingOrder
<1>1. IInv => OneWorkingOrder
  <2> SUFFICES ASSUME IInv PROVE Cardinality(OpenOrders) <= 1
    BY DEF OneWorkingOrder
  <2>1. CASE OpenOrders = {}
    BY <2>1, FS_EmptySet
  <2>2. CASE OpenOrders # {}
    <3>1. PICK a : a \in OpenOrders
      BY <2>2
    <3>2. OpenOrders = {a}
      BY <3>1, OneOpen
    <3>3. Cardinality({a}) = 1
      BY FS_Singleton
    <3> QED
      BY <3>2, <3>3
  <2> QED
    BY <2>1, <2>2
<1> QED
  BY <1>1, Invariant, PTL

\* An exit is worked only while there is a position to close, an entry only
\* before there is one: the run never turns the position around.
THEOREM ExitsOnlyReduce == Spec => []ExitOrdersReduce
<1>1. IInv => ExitOrdersReduce
  <2> SUFFICES ASSUME IInv, NEW id \in OpenOrders
               PROVE  (id[1] # 0 => fills = 1) /\ (id[1] = 0 => fills = 0)
    BY DEF ExitOrdersReduce
  <2>1. PICK c \in Chains, s \in Seqs : id = <<c, s>>
    BY Ids DEF OpenOrders
  <2>2. HasOpen(order, c) /\ id[1] = c
    BY <2>1 DEF OpenOrders, HasOpen
  <2>3. CASE c = 0
    <3>1. ~HasFill(order, 0)
      BY <2>2, <2>3, EntryWorks DEF IInv
    <3> QED
      BY <2>2, <2>3, <3>1, FillsAre
  <2>4. CASE c # 0
    <3>1. HasFill(order, 0) /\ ~ExitFilled(order)
      BY <2>2, <2>4, ExitWorks, Constants DEF IInv
    <3> QED
      BY <2>2, <2>4, <3>1, FillsAre
  <2> QED
    BY <2>3, <2>4
<1> QED
  BY <1>1, Invariant, PTL

\* A run recorded as finished left nothing at the broker: no position, no
\* working order, no request that could still become one, and no fill when it is
\* NO_TRADE.
THEOREM FinishedIsFlat == Spec => []FinishedRunsAreFlat
<1>1. IInv => FinishedRunsAreFlat
  <2> SUFFICES ASSUME IInv, run \in TERMINAL_STRATEGY_STATES
               PROVE  /\ fills % 2 = 0 /\ OpenOrders = {}
                      /\ \A m \in net :
                           m.kind = "cancel" \/ (m.kind = "replace" /\ ~Replaceable(m.id))
                             \/ (m.kind = "place" /\ ~Accept(m.id))
                      /\ run = "NO_TRADE" => fills = 0
    BY DEF FinishedRunsAreFlat
  <2>1. Done(chain) /\ (run = "NO_TRADE" => chain[0] = "CANCELED")
    BY DEF IInv, RecordInv, Says
  <2>2. fills = 0 \/ fills = 2
    BY <2>1, DoneIsOver
  <2>3. fills % 2 = 0
    BY <2>2
  <2> QED
    BY <2>1, <2>3, DoneIsOver
<1> QED
  BY <1>1, Invariant, PTL

\* What a closed order chain says is what happened to its orders: a FILLED one
\* has a fill, a CANCELED one none, and neither has an order still working.
THEOREM ClosedChainsAreTrue == Spec => []ClosedChainsTellTheTruth
<1>1. IInv => ClosedChainsTellTheTruth
  <2> SUFFICES ASSUME IInv, NEW c \in Chains,
                      NEW states, states = {order[<<c, s>>] : s \in Seqs}
               PROVE  /\ chain[c] = "FILLED" => "filled" \in states /\ "open" \notin states
                      /\ chain[c] = "CANCELED" => {"filled", "open"} \cap states = {}
    BY DEF ClosedChainsTellTheTruth, Seqs
  <2>1. /\ chain[c] = "FILLED" => HasFill(order, c) /\ ~HasOpen(order, c)
        /\ chain[c] = "CANCELED" => ~HasFill(order, c) /\ ~HasOpen(order, c)
    BY DEF IInv, RecordInv, BooksInv, Dead
  <2>2. "filled" \in states <=> HasFill(order, c)
    BY DEF HasFill
  <2>3. "open" \in states <=> HasOpen(order, c)
    BY DEF HasOpen
  <2> QED
    BY <2>1, <2>2, <2>3
<1> QED
  BY <1>1, Invariant, PTL

-----------------------------------------------------------------------------
(* OrderLifecycle implements Exposure.                                       *)

\* What the account sees of a state.
Account ==
  /\ fills \in 0 .. 2
  /\ Worked({0}) => fills = 0 /\ ~Worked(ExitChains)
  /\ Worked(ExitChains) => fills = 1
  /\ run \in TERMINAL_STRATEGY_STATES =>
       ~Worked({0}) /\ ~Worked(ExitChains) /\ fills # 1 /\ (run = "NO_TRADE" => fills = 0)

LEMMA Accounts == IInv => Account
<1> SUFFICES ASSUME IInv PROVE Account
  OBVIOUS
<1>1. \A id \in OpenOrders : (id[1] # 0 => fills = 1) /\ (id[1] = 0 => fills = 0)
  <2> TAKE id \in OpenOrders
  <2>1. PICK c \in Chains, s \in Seqs : id = <<c, s>>
    BY Ids DEF OpenOrders
  <2>2. HasOpen(order, c) /\ id[1] = c
    BY <2>1 DEF OpenOrders, HasOpen
  <2>3. CASE c = 0
    <3>1. ~HasFill(order, 0)
      BY <2>2, <2>3, EntryWorks DEF IInv
    <3> QED
      BY <2>2, <2>3, <3>1, FillsAre
  <2>4. CASE c # 0
    <3>1. HasFill(order, 0) /\ ~ExitFilled(order)
      BY <2>2, <2>4, ExitWorks, Constants DEF IInv
    <3> QED
      BY <2>2, <2>4, <3>1, FillsAre
  <2> QED
    BY <2>3, <2>4
<1>2. Worked({0}) => fills = 0
  BY <1>1 DEF Worked
<1>3. Worked(ExitChains) => fills = 1
  BY <1>1, Constants DEF Worked
<1>4. ASSUME run \in TERMINAL_STRATEGY_STATES
      PROVE  OpenOrders = {} /\ fills # 1 /\ (run = "NO_TRADE" => fills = 0)
  <2>1. Done(chain) /\ (run = "NO_TRADE" => chain[0] = "CANCELED")
    BY <1>4 DEF IInv, RecordInv, Says
  <2>2. /\ OpenOrders = {} /\ (chain[0] = "CANCELED" => fills = 0)
        /\ (chain[0] # "CANCELED" => fills = 2)
    BY <2>1, DoneIsOver
  <2>3. fills = 0 \/ fills = 2
    BY <2>2
  <2> QED
    BY <2>1, <2>2, <2>3
<1>5. fills \in 0 .. 2
  BY FillsAre
<1> QED
  BY <1>2, <1>3, <1>4, <1>5 DEF Account, Worked

\* A finished run has no transition.
LEMMA Finished ==
  ASSUME NEW s, StrategyStep(run, s), run \in TERMINAL_STRATEGY_STATES
  PROVE  s = run
<1>1. CASE run = "FLAT"
  BY <1>1 DEF StrategyStep, STRATEGY_TRANSITIONS
<1>2. CASE run = "NO_TRADE"
  BY <1>2 DEF StrategyStep, STRATEGY_TRANSITIONS
<1> QED
  BY <1>1, <1>2 DEF TERMINAL_STRATEGY_STATES

\* One step either moves the broker or the run, and never a finished run; the run
\* moves by the table or by the kill switch.
Separate ==
  /\ fills' = fills \/ \E id \in OrderIds : Fill(id)
  /\ run' = run \/ (/\ order' = order /\ fills' = fills
                    /\ run \notin TERMINAL_STRATEGY_STATES
                    /\ StrategyStep(run, run') \/ run' = "RISK_OFF")

LEMMA ReconcileMoves ==
  ASSUME IInv, Reconcile
  PROVE  Separate
<1> USE DEF Separate, durable, broker
<1>1. CASE BeginCycle
  BY <1>1 DEF BeginCycle
<1>2. CASE ReadOrders
  BY <1>2 DEF ReadOrders
<1>3. CASE ReadPositions
  BY <1>3 DEF ReadPositions
<1>4. CASE CheckActivities
  <2>1. run \notin TERMINAL_STRATEGY_STATES
    BY <1>4 DEF CheckActivities, At, IInv, WorkerInv, PlaceInv
  <2> QED
    BY <1>4, <2>1 DEF CheckActivities
<1>5. CASE ReconcileEntry
  BY <1>5 DEF ReconcileEntry
<1>6. CASE ReconcileEntryDone
  BY <1>6 DEF ReconcileEntryDone
<1>7. CASE TerminalEntry
  BY <1>7 DEF TerminalEntry
<1>8. CASE ReconcileExit
  BY <1>8 DEF ReconcileExit
<1>9. CASE ReconcileExitDone
  BY <1>9 DEF ReconcileExitDone
<1>10. CASE ReconcilePositions
  BY <1>10 DEF ReconcilePositions
<1> QED
  BY <1>1, <1>2, <1>3, <1>4, <1>5, <1>6, <1>7, <1>8, <1>9, <1>10 DEF Reconcile

LEMMA ApplyMoves ==
  ASSUME IInv, Apply
  PROVE  Separate
<1> USE DEF Separate, durable, broker
<1>1. CASE Bind
  BY <1>1 DEF Bind
<1>2. CASE ApplyChain
  BY <1>2 DEF ApplyChain, SetChain
<1>3. CASE ApplyRun
  <2>1. run' = run \/ StrategyStep(run, run')
    BY <1>3 DEF ApplyRun, SetRun
  <2>2. run \in TERMINAL_STRATEGY_STATES => run' = run
    BY <2>1, Finished
  <2> QED
    BY <1>3, <2>1, <2>2 DEF ApplyRun
<1>4. CASE Relook
  BY <1>4 DEF Relook
<1>5. CASE Unresolved
  BY <1>5 DEF Unresolved, SetChain
<1>6. CASE ActivateKill
  BY <1>6 DEF ActivateKill
<1> QED
  BY <1>1, <1>2, <1>3, <1>4, <1>5, <1>6 DEF Apply

LEMMA HandleMoves ==
  ASSUME IInv, Handle
  PROVE  Separate
<1> USE DEF Separate, durable, broker
<1>1. CASE Manage
  BY <1>1 DEF Manage
<1>2. CASE Place
  BY <1>2 DEF Place
<1>3. CASE Replace
  BY <1>3 DEF Replace
<1>4. CASE CancelRun
  <2>1. run' = run \/ StrategyStep(run, run')
    BY <1>4 DEF CancelRun, SetRun
  <2>2. run \in TERMINAL_STRATEGY_STATES => run' = run
    BY <2>1, Finished
  <2> QED
    BY <1>4, <2>1, <2>2 DEF CancelRun
<1>5. CASE CancelChain
  BY <1>5 DEF CancelChain, SetChain
<1>6. CASE CancelCall
  BY <1>6 DEF CancelCall
<1>7. CASE CancelGet
  BY <1>7 DEF CancelGet
<1>8. CASE StartExit
  BY <1>8 DEF StartExit
<1>9. CASE PersistIntent
  BY <1>9 DEF PersistIntent
<1>10. CASE PersistChain
  BY <1>10 DEF PersistChain, SetChain
<1>11. CASE ExitSnapshot
  BY <1>11 DEF ExitSnapshot
<1>12. CASE ExitRun
  <2>1. run' = run \/ StrategyStep(run, run')
    BY <1>12 DEF ExitRun, SetRun
  <2>2. run \in TERMINAL_STRATEGY_STATES => run' = run
    BY <2>1, Finished
  <2> QED
    BY <1>12, <2>1, <2>2 DEF ExitRun
<1>13. CASE ExitChain
  BY <1>13 DEF ExitChain, SetChain
<1>14. CASE RecordAttempt
  BY <1>14 DEF RecordAttempt
<1>15. CASE Reprice
  BY <1>15 DEF Reprice
<1>16. CASE ReplaceChain
  BY <1>16 DEF ReplaceChain, SetChain
<1>17. CASE ResumeReplacement
  BY <1>17 DEF ResumeReplacement
<1>18. CASE Resume
  BY <1>18 DEF Resume
<1>19. CASE ResumeSnapshot
  BY <1>19 DEF ResumeSnapshot, SetChain
<1> QED
  BY <1>1, <1>2, <1>3, <1>4, <1>5, <1>6, <1>7, <1>8, <1>9, <1>10, <1>11, <1>12, <1>13, <1>14,
     <1>15, <1>16, <1>17, <1>18, <1>19 DEF Handle

LEMMA Moves ==
  ASSUME IInv, [Next]_vars
  PROVE  Separate
<1> USE DEF Separate, durable, broker
<1>1. CASE Worker
  BY <1>1, ReconcileMoves, ApplyMoves, HandleMoves DEF Worker
<1>2. CASE Broker
  BY <1>2 DEF Broker, Fill, Expire, Deliver, Show
<1>3. CASE OperatorKill
  BY <1>3 DEF OperatorKill
<1>4. CASE NextPhase \/ Crash \/ UNCHANGED vars
  BY <1>4 DEF NextPhase, Crash, vars
<1> QED
  BY <1>1, <1>2, <1>3, <1>4 DEF Next

\* A fill leaves nothing working.
LEMMA FillEnds ==
  ASSUME IInv, NEW id \in OrderIds, Fill(id)
  PROVE  /\ OpenOrders' = {} /\ (Worked({0}) \/ Worked(ExitChains))
         /\ run' = run /\ fills' = fills + 1
<1>1. id \in OpenOrders /\ order' = [order EXCEPT ![id] = "filled"] /\ run' = run /\ fills' = fills + 1
  BY DEF Fill, OpenOrders, durable
<1>2. order \in Orders
  BY SameLater
<1>3. \A a \in OrderIds : a # id => order'[a] = order[a] /\ order[a] # "open"
  BY <1>1, <1>2, OneOpen DEF OpenOrders, Orders
<1>4. order'[id] = "filled"
  BY <1>1, <1>2 DEF Orders
<1>5. OpenOrders' = {}
  BY <1>3, <1>4 DEF OpenOrders
<1>6. id[1] = 0 \/ id[1] \in ExitChains
  BY Ids, Constants
<1> QED
  BY <1>1, <1>5, <1>6 DEF Worked

\* The account's view of a state, as Exposure's variables see it.
Working == IF Worked({0}) THEN "entry" ELSE IF Worked(ExitChains) THEN "exit" ELSE "none"
Position == CASE fills = 0 -> "never" [] fills = 1 -> "held" [] OTHER -> "closed"
Booked == IF run \in TERMINAL_STRATEGY_STATES THEN run ELSE "none"

LEMMA FillSimulates ==
  ASSUME IInv, Account, Account', NEW id \in OrderIds, Fill(id)
  PROVE  Promise!Fill
<1>1. /\ ~Worked({0})' /\ ~Worked(ExitChains)' /\ (Worked({0}) \/ Worked(ExitChains))
      /\ run' = run /\ fills' = fills + 1
  BY FillEnds DEF Worked
<1>2. run \notin TERMINAL_STRATEGY_STATES
  BY <1>1 DEF Account
<1>3. CASE Worked({0})
  <2>1. fills = 0 /\ fills' = 1
    BY <1>1, <1>3 DEF Account
  <2>2. Working = "entry" /\ Working' = "none"
    BY <1>1, <1>3 DEF Working
  <2>3. Position' = "held"
    BY <2>1 DEF Position
  <2>4. Booked = "none" /\ Booked' = Booked
    BY <1>1, <1>2 DEF Booked
  <2> QED
    BY <2>2, <2>3, <2>4 DEF Promise!Fill, Promise!Live, Working, Position, Booked
<1>4. CASE Worked(ExitChains) /\ ~Worked({0})
  <2>1. fills = 1 /\ fills' = 2
    BY <1>1, <1>4 DEF Account
  <2>2. Working = "exit" /\ Working' = "none"
    BY <1>1, <1>4 DEF Working
  <2>3. Position' = "closed"
    BY <2>1 DEF Position
  <2>4. Booked = "none" /\ Booked' = Booked
    BY <1>1, <1>2 DEF Booked
  <2> QED
    BY <2>2, <2>3, <2>4 DEF Promise!Fill, Promise!Live, Working, Position, Booked
<1> QED
  BY <1>1, <1>3, <1>4

LEMMA Simulation ==
  ASSUME IInv, Account, Account', [Next]_vars
  PROVE  [Promise!Next]_(Promise!vars)
<1> USE DEF Promise!Next, Promise!vars, Promise!WorkEntry, Promise!WorkExit, Promise!End,
            Promise!Fill, Promise!Book, Promise!Live
<1>0. Separate
  BY Moves
<1>1. CASE \E id \in OrderIds : Fill(id)
  BY <1>1, FillSimulates
<1>2. CASE fills' = fills /\ run' = run
  <2>1. CASE run \in TERMINAL_STRATEGY_STATES
    <3>1. /\ ~Worked({0}) /\ ~Worked(ExitChains)
          /\ ~Worked({0})' /\ ~Worked(ExitChains)'
      BY <1>2, <2>1 DEF Account
    <3> QED
      BY <1>2, <3>1
  <2>2. CASE run \notin TERMINAL_STRATEGY_STATES
    <3>1. /\ Worked({0}) => fills = 0
          /\ Worked(ExitChains) => fills = 1
          /\ Worked({0})' => fills = 0
          /\ Worked(ExitChains)' => fills = 1
          /\ fills \in {0, 1, 2}
      BY <1>2 DEF Account
    <3>2. CASE fills = 0
      BY <1>2, <2>2, <3>1, <3>2
    <3>3. CASE fills = 1
      BY <1>2, <2>2, <3>1, <3>3
    <3>4. CASE fills = 2
      BY <1>2, <2>2, <3>1, <3>4
    <3> QED
      BY <3>1, <3>2, <3>3, <3>4
  <2> QED
    BY <2>1, <2>2
<1>3. CASE order' = order /\ fills' = fills /\ run \notin TERMINAL_STRATEGY_STATES
  <2>1. (Worked({0})' <=> Worked({0})) /\ (Worked(ExitChains)' <=> Worked(ExitChains))
    BY <1>3 DEF Worked, OpenOrders
  <2>2. CASE run' \notin TERMINAL_STRATEGY_STATES
    BY <1>3, <2>1, <2>2
  <2>3. CASE run' \in TERMINAL_STRATEGY_STATES
    <3>1. /\ ~Worked({0}) /\ ~Worked(ExitChains) /\ fills # 1
          /\ run' = "NO_TRADE" => fills = 0
          /\ run' \in {"FLAT", "NO_TRADE"} /\ run' # "none"
      BY <1>3, <2>1, <2>3 DEF Account, TERMINAL_STRATEGY_STATES
    <3>2. CASE fills = 0
      BY <1>3, <2>1, <2>3, <3>1, <3>2
    <3>3. CASE fills # 0
      BY <1>3, <2>1, <2>3, <3>1, <3>3
    <3> QED
      BY <3>2, <3>3
  <2> QED
    BY <2>2, <2>3
<1> QED
  BY <1>0, <1>1, <1>2, <1>3 DEF Separate

\* Seen from the account, every step of the worker, its crashes and retries, the
\* broker and the operator is one that Exposure allows or none at all.
THEOREM Implements == Spec => ImplementsExposure
<1>1. Init => Promise!Init
  <2> SUFFICES ASSUME Init PROVE Promise!Init
    OBVIOUS
  <2>1. ~Worked({0}) /\ ~Worked(ExitChains)
    BY DEF Init, Worked, OpenOrders
  <2>2. fills = 0 /\ run \notin TERMINAL_STRATEGY_STATES
    BY DEF Init, TERMINAL_STRATEGY_STATES
  <2> QED
    BY <2>1, <2>2 DEF Promise!Init
<1>2. IInv /\ Account /\ Account' /\ [Next]_vars => [Promise!Next]_(Promise!vars)
  BY Simulation
<1> QED
  BY <1>1, <1>2, Accounts, Invariant, PTL DEF Spec, ImplementsExposure, Promise!Spec

-----------------------------------------------------------------------------
(* OrderLifecycle implements AttemptedRun.                                   *)

First == <<0, 0>>

LEMMA FirstIs == First \in OrderIds /\ 0 \in Chains /\ 0 \in Seqs
  BY Constants DEF First, OrderIds, Seqs

\* A broker that has had an order does not forget it.
Remembers == \A id \in OrderIds : order[id] # "absent" => order'[id] # "absent"

LEMMA SetRemembers ==
  ASSUME order \in Orders, NEW id, NEW x, x # "absent", order' = [order EXCEPT ![id] = x]
  PROVE  Remembers
  BY DEF Remembers, Orders

LEMMA ReplacedRemembers ==
  ASSUME order \in Orders, NEW id, order' = Replaced(id)
  PROVE  Remembers
  BY DEF Remembers, Orders, Replaced

LEMMA CallsRemember ==
  ASSUME IInv, Place \/ Replace \/ CancelCall
  PROVE  Remembers
<1>0. order \in Orders
  BY SameLater
<1>1. order' = order => Remembers
  BY DEF Remembers
<1>2. CASE Place
  <2>1. order' = order \/ order' \in Placed(Latest(w.c))
    BY <1>2 DEF Place
  <2>2. order' = order \/ \E x \in {"open", "zero"} : order' = [order EXCEPT ![Latest(w.c)] = x]
    BY <2>1 DEF Placed
  <2> QED
    BY <1>0, <1>1, <2>2, SetRemembers
<1>3. CASE Replace
  <2>1. order' = order \/ order' = Replaced(Latest(w.c))
    BY <1>3 DEF Replace
  <2> QED
    BY <1>0, <1>1, <2>1, ReplacedRemembers
<1>4. CASE CancelCall
  <2>1. order' = order \/ order' = [order EXCEPT ![CancelTarget] = IF @ = "open" THEN "zero" ELSE @]
    BY <1>4 DEF CancelCall
  <2> QED
    BY <1>0, <1>1, <2>1 DEF Remembers, Orders
<1> QED
  BY <1>2, <1>3, <1>4

LEMMA BrokerRemembers ==
  ASSUME IInv, Broker \/ NextPhase
  PROVE  Remembers
<1>0. order \in Orders
  BY SameLater
<1>1. order' = order => Remembers
  BY DEF Remembers
<1>2. ASSUME NEW id \in OrderIds, Fill(id) \/ Expire(id) PROVE Remembers
  <2>1. order' = [order EXCEPT ![id] = "filled"] \/ order' = [order EXCEPT ![id] = "zero"]
    BY <1>2 DEF Fill, Expire
  <2> QED
    BY <1>0, <2>1, SetRemembers
<1>3. ASSUME NEW m \in net, Deliver(m) PROVE Remembers
  <2>1. \/ order' = [order EXCEPT ![m.id] = "open"]
        \/ order' = Replaced(m.id)
        \/ order' = [order EXCEPT ![m.id] = "zero"]
        \/ order' = order
    BY <1>3 DEF Deliver
  <2> QED
    BY <1>0, <1>1, <2>1, SetRemembers, ReplacedRemembers
<1>4. CASE Show
  BY <1>1, <1>4 DEF Show
<1>5. CASE NextPhase
  BY <1>0, <1>1, <1>5 DEF NextPhase, Remembers
<1> QED
  BY <1>2, <1>3, <1>4, <1>5 DEF Broker

LEMMA Remembering ==
  ASSUME IInv, [Next]_vars
  PROVE  Remembers
<1>1. order' = order => Remembers
  BY DEF Remembers
<1>2. CASE Reconcile
  <2>1. order' = order
    BY <1>2 DEF Reconcile, BeginCycle, ReadOrders, ReadPositions, CheckActivities, ReconcileEntry,
       ReconcileEntryDone, TerminalEntry, ReconcileExit, ReconcileExitDone, ReconcilePositions, broker
  <2> QED
    BY <1>1, <2>1
<1>3. CASE Apply
  <2>1. order' = order
    BY <1>3 DEF Apply, Bind, ApplyChain, ApplyRun, Relook, Unresolved, ActivateKill, broker
  <2> QED
    BY <1>1, <2>1
<1>4. CASE Handle
  <2>1. Place \/ Replace \/ CancelCall \/ order' = order
    BY <1>4 DEF Handle, Manage, CancelRun, CancelChain, CancelGet, StartExit, PersistIntent,
       PersistChain, ExitSnapshot, ExitRun, ExitChain, RecordAttempt, Reprice, ReplaceChain,
       ResumeReplacement, Resume, ResumeSnapshot, broker
  <2> QED
    BY <1>1, <2>1, CallsRemember
<1>5. CASE OperatorKill \/ Crash \/ UNCHANGED vars
  BY <1>1, <1>5 DEF OperatorKill, Crash, vars, broker
<1> QED
  BY <1>2, <1>3, <1>4, <1>5, BrokerRemembers DEF Next, Worker

\* A run is finished only when the broker has had its entry order.
LEMMA FinishedWasPlaced ==
  ASSUME IInv
  PROVE  /\ run \in TERMINAL_STRATEGY_STATES => order[First] # "absent"
         /\ run \notin TERMINAL_STRATEGY_STATES => run \in Fate!Unfinished
<1>1. ASSUME run \in TERMINAL_STRATEGY_STATES PROVE order[First] # "absent"
  <2>1. chain[0] \in {"CANCELED", "FILLED"}
    BY <1>1 DEF IInv, RecordInv, Says, Done
  <2>2. Dead(order, 0)
    BY <2>1, FirstIs DEF IInv, RecordInv, BooksInv
  <2> QED
    BY <2>2 DEF Dead, First
<1>2. run \in RunStates
  BY DEF IInv, Typed, BooksTyped
<1> QED
  BY <1>1, <1>2 DEF RunStates, Fate!Unfinished, Fate!WorkingEntryStates, Fate!ExitStates,
     WorkingEntryStates, ExitStates

LEMMA FateSimulation ==
  ASSUME IInv, IInv', [Next]_vars
  PROVE  [Fate!Next]_(Fate!vars)
<1> DEFINE placed == order[<<0, 0>>] # "absent" /\ run \notin TERMINAL_STRATEGY_STATES
<1> USE DEF Fate!Next, Fate!vars
<1>0. Separate /\ (order[<<0, 0>>] # "absent" => order'[<<0, 0>>] # "absent")
  BY Moves, Remembering, FirstIs DEF Remembers, First
<1>1. CASE run' = run
  <2>1. CASE run \in TERMINAL_STRATEGY_STATES
    BY <1>1, <2>1
  <2>2. CASE run \notin TERMINAL_STRATEGY_STATES
    <3>1. run \in Fate!Unfinished
      BY <2>2, FinishedWasPlaced
    <3>2. placed' = placed \/ placed'
      BY <1>0, <1>1, <2>2
    <3> QED
      BY <1>1, <3>1, <3>2 DEF Fate!Reach
  <2> QED
    BY <2>1, <2>2
<1>2. CASE run' # run
  <2>1. /\ order' = order /\ run \in Fate!Unfinished /\ run \notin TERMINAL_STRATEGY_STATES
        /\ StrategyStep(run, run') \/ run' = "RISK_OFF"
    BY <1>0, <1>2, FinishedWasPlaced DEF Separate
  <2>2. StrategyStep(run, run') => Fate!StrategyStep(run, run')
    BY DEF StrategyStep, STRATEGY_TRANSITIONS, Fate!StrategyStep, Fate!STRATEGY_TRANSITIONS
  <2>3. CASE run' \in TERMINAL_STRATEGY_STATES
    <3>1. order'[First] # "absent"
      <4>1. (run \in TERMINAL_STRATEGY_STATES => order[First] # "absent")'
        BY FinishedWasPlaced, PTL
      <4> QED
        BY <2>3, <4>1 DEF First
    <3>2. placed /\ ~placed'
      BY <2>1, <2>3, <3>1 DEF First
    <3>3. run' # "RISK_OFF"
      BY <2>3 DEF TERMINAL_STRATEGY_STATES
    <3>4. run' \in Fate!TERMINAL_STRATEGY_STATES
      BY <2>3 DEF Fate!TERMINAL_STRATEGY_STATES, TERMINAL_STRATEGY_STATES
    <3> QED
      BY <2>1, <2>2, <3>2, <3>3, <3>4 DEF Fate!Finish
  <2>4. CASE run' \notin TERMINAL_STRATEGY_STATES
    <3>1. placed' = placed
      BY <2>1, <2>4
    <3>2. run' \in Fate!Unfinished
      <4>1. (run \notin TERMINAL_STRATEGY_STATES => run \in Fate!Unfinished)'
        BY FinishedWasPlaced, PTL
      <4> QED
        BY <2>4, <4>1
    <3> QED
      BY <2>1, <2>2, <3>1, <3>2 DEF Fate!Move, Fate!RiskOff
  <2> QED
    BY <2>3, <2>4
<1> QED
  BY <1>1, <1>2

\* However answers are lost, calls repeated and processes killed, an attempted entry
\* leaves its run as AttemptedRun says: moved by the table or the kill switch and never
\* back to screening, and finished only after the broker has had the order.
THEOREM AttemptIsSeenThrough == Spec => ImplementsAttemptedRun
<1>1. Init => Fate!Init
  BY FirstIs DEF Init, Fate!Init, First
<1>2. IInv /\ IInv' /\ [Next]_vars => [Fate!Next]_(Fate!vars)
  BY FateSimulation
<1> QED
  BY <1>1, <1>2, Invariant, PTL DEF Spec, ImplementsAttemptedRun, Fate!Spec
=============================================================================
