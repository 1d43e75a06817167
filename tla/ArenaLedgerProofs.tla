------------------------- MODULE ArenaLedgerProofs -------------------------
(***************************************************************************)
(* Proofs about ArenaLedger for all names, prices, disagreements and own   *)
(* services.  TotalSpend is a recursive sum: what it adds up to is proved  *)
(* from a least counterexample.                                            *)
(***************************************************************************)
EXTENDS ArenaLedger, FiniteSetTheorems, WellFoundedInduction, TLAPS

\* A set of naturals that is not empty has a least element.
LEMMA LeastElement ==
  ASSUME NEW T, T \subseteq Nat, T # {}
  PROVE  \E m \in T : \A k \in T : m <= k
<1>1. \E m \in T : \A k \in T : ~ (<<k, m>> \in OpToRel(<, Nat))
  BY NatLessThanWellFounded, WFMin
<1>2. PICK m \in T : \A k \in T : ~ (<<k, m>> \in OpToRel(<, Nat))
  BY <1>1
<1>3. ASSUME NEW k \in T PROVE m <= k
  <2>1. k \in Nat /\ m \in Nat
    OBVIOUS
  <2>2. ~ (<<k, m>> \in {ss \in Nat \X Nat : ss[1] < ss[2]})
    BY <1>2 DEF OpToRel
  <2> QED BY <2>1, <2>2
<1> QED BY <1>3

Bought == [service_id : Ids, credits : Nat]

\* what a list of purchases can be
Purchases == Seq(Bought)

\* g is the running sum of the first k purchases: what TotalSpend chooses.
Sums(g, ps, k) ==
  g = [n \in 0..k |-> IF n = 0 THEN 0 ELSE g[n - 1] + ps[n].credits]

\* the first k purchases are the same
StartAlike(ps, qs, k) == \A i \in 1..k : ps[i] = qs[i]

\* There is a running sum of the first k purchases, of naturals: a least k
\* without one would have one, that of k - 1 and the k-th price
\* (arena.py total_spend).
LEMMA SumsExist ==
  ASSUME NEW ps \in Purchases, NEW k \in 0..Len(ps)
  PROVE  \E g \in [0..k -> Nat] : Sums(g, ps, k)
<1> DEFINE T == {j \in 0..Len(ps) : ~ \E g \in [0..j -> Nat] : Sums(g, ps, j)}
<1> SUFFICES ASSUME T # {} PROVE FALSE
  OBVIOUS
<1>1. PICK m \in T : \A j \in T : m <= j
  <2>1. T \subseteq Nat
    BY DEF Purchases
  <2> HIDE DEF T
  <2> QED BY <2>1, LeastElement
<1>2. CASE m = 0
  <2>1. Sums([n \in 0..0 |-> 0], ps, 0)
    BY DEF Sums
  <2> QED BY <1>2, <2>1
<1>3. CASE m # 0
  <2>1. m \in Nat /\ m - 1 \in 0..Len(ps) /\ m - 1 \notin T /\ m \in 1..Len(ps)
    <3>1. m \in 0..Len(ps) /\ Len(ps) \in Nat
      BY DEF Purchases
    <3>2. m - 1 \in 0..Len(ps) /\ m \in 1..Len(ps) /\ ~(m <= m - 1)
      BY <3>1, <1>3
    <3> QED BY <3>1, <3>2, <1>1
  <2>2. PICK g \in [0..(m - 1) -> Nat] : Sums(g, ps, m - 1)
    BY <2>1 DEF T
  <2>3. ps[m].credits \in Nat
    <3>1. ps[m] \in Bought
      BY <2>1 DEF Purchases
    <3> QED BY <3>1 DEF Bought
  <2> DEFINE h == [n \in 0..m |-> IF n = m THEN g[m - 1] + ps[m].credits ELSE g[n]]
  <2>4. h \in [0..m -> Nat]
    BY <2>1, <2>2, <2>3
  <2>5. ASSUME NEW n \in 0..m
        PROVE  h[n] = IF n = 0 THEN 0 ELSE h[n - 1] + ps[n].credits
    BY <2>1, <2>2 DEF Sums
  <2>6. Sums(h, ps, m)
    BY <2>4, <2>5 DEF Sums
  <2> QED BY <2>4, <2>6, <1>1
<1> QED BY <1>2, <1>3

\* Running sums of lists that start alike agree as far as the lists do.
LEMMA SumsAgree ==
  ASSUME NEW ps \in Purchases, NEW qs \in Purchases,
         NEW k \in 0..Len(ps), NEW l \in 0..Len(qs), k <= l,
         StartAlike(ps, qs, k),
         NEW g, Sums(g, ps, k), NEW h, Sums(h, qs, l)
  PROVE  g[k] = h[k]
<1> DEFINE T == {n \in 0..k : g[n] # h[n]}
<1> SUFFICES ASSUME T # {} PROVE FALSE
  <2>1. k \in 0..k
    BY DEF Purchases
  <2> QED BY <2>1
<1>1. PICK m \in T : \A j \in T : m <= j
  <2>1. T \subseteq Nat
    BY DEF Purchases
  <2> HIDE DEF T
  <2> QED BY <2>1, LeastElement
<1>2. m \in 0..k /\ g[m] # h[m] /\ m \in 0..l
  BY DEF Purchases
<1>3. /\ g[m] = IF m = 0 THEN 0 ELSE g[m - 1] + ps[m].credits
      /\ h[m] = IF m = 0 THEN 0 ELSE h[m - 1] + qs[m].credits
  BY <1>2, Zenon DEF Sums
<1>4. m # 0
  BY <1>2, <1>3
<1>5. m - 1 \in 0..k /\ m - 1 \notin T /\ m \in 1..k
  BY <1>1, <1>2, <1>4
<1>6. g[m - 1] = h[m - 1] /\ ps[m] = qs[m]
  BY <1>5 DEF StartAlike
<1> QED BY <1>2, <1>3, <1>4, <1>6

\* total_spend is the last of the running sums (arena.py total_spend).
LEMMA TotalSpendIsSum ==
  ASSUME NEW ps \in Purchases
  PROVE  \E g \in [0..Len(ps) -> Nat] : Sums(g, ps, Len(ps)) /\ TotalSpend(ps) = g[Len(ps)]
<1> DEFINE spent == CHOOSE g : Sums(g, ps, Len(ps))
<1>a. Len(ps) \in 0..Len(ps)
  BY DEF Purchases
<1>1. PICK g \in [0..Len(ps) -> Nat] : Sums(g, ps, Len(ps))
  BY <1>a, SumsExist
<1>2. Sums(spent, ps, Len(ps))
  BY <1>1
<1>3. TotalSpend(ps) = spent[Len(ps)]
  BY DEF TotalSpend, Sums
<1> HIDE DEF spent
<1>4. spent[Len(ps)] = g[Len(ps)]
  <2>1. StartAlike(ps, ps, Len(ps)) /\ Len(ps) <= Len(ps)
    BY DEF StartAlike, Purchases
  <2> QED BY <1>a, <1>1, <1>2, <2>1, SumsAgree
<1> QED BY <1>1, <1>3, <1>4

\* Nothing is spent when a round begins (arena.py total_spend).
LEMMA TotalSpendOfNone == TotalSpend(<< >>) = 0
<1>1. << >> \in Purchases /\ Len(<< >>) = 0
  BY DEF Purchases
<1> QED BY <1>1, TotalSpendIsSum DEF Sums

\* A purchase adds its price to what was spent (arena.py record_purchase).
LEMMA TotalSpendOfAppend ==
  ASSUME NEW ps \in Purchases, NEW p \in Bought
  PROVE  TotalSpend(Append(ps, p)) = TotalSpend(ps) + p.credits
<1>a. /\ Append(ps, p) \in Purchases
      /\ Len(ps) \in Nat /\ Len(Append(ps, p)) = Len(ps) + 1 /\ Append(ps, p)[Len(ps) + 1] = p
      /\ \A i \in 1..Len(ps) : ps[i] = Append(ps, p)[i]
  BY DEF Purchases
<1>1. PICK qs \in Purchases : qs = Append(ps, p)
  BY <1>a
<1>2. PICK n \in Nat : n = Len(ps) /\ Len(qs) = n + 1 /\ qs[n + 1] = p
  BY <1>a, <1>1
<1>3. StartAlike(ps, qs, n)
  BY <1>a, <1>1, <1>2 DEF StartAlike
<1>4. PICK g \in [0..n -> Nat] : Sums(g, ps, n) /\ TotalSpend(ps) = g[n]
  BY <1>2, TotalSpendIsSum
<1>5. PICK h \in [0..(n + 1) -> Nat] : Sums(h, qs, n + 1) /\ TotalSpend(qs) = h[n + 1]
  BY <1>1, <1>2, TotalSpendIsSum
<1>6. g[n] = h[n]
  <2>1. n \in 0..Len(ps) /\ n + 1 \in 0..Len(qs) /\ n <= n + 1
    BY <1>2
  <2> QED BY <1>3, <1>4, <1>5, <2>1, SumsAgree
<1>7. h[n + 1] = h[n] + qs[n + 1].credits
  BY <1>2, <1>5 DEF Sums
<1> QED BY <1>1, <1>2, <1>4, <1>5, <1>6, <1>7

\* CompleteIsQualified needs to know that no purchase is the team's own, which
\* only RecordPurchase checks, and that what Finish checked cannot change.
NoOwnPurchase == PurchasedServices(purchases) \cap SelfServiceIds = {}

\* What is counted can be counted: the lists are finite.
Countable ==
  /\ purchases \in Purchases
  /\ IsFiniteSet(DOMAIN trials) /\ IsFiniteSet(PurchasedServices(purchases))

LedgerInv ==
  /\ TypeOK /\ RankingIsOfTrials /\ CompleteIsQualified /\ BudgetIsKept
  /\ NoOwnPurchase /\ Countable

\* A new round has no trials and no purchases (arena.py, the field defaults).
LEMMA EmptyLists ==
  /\ ToSet(<< >>) = {} /\ IsInjective(<< >>) /\ PurchasedServices(<< >>) = {}
BY DEF ToSet, IsInjective, PurchasedServices

\* A purchase adds its service and no other (arena.py purchased_service_count).
LEMMA ServicesOfAppend ==
  ASSUME NEW ps \in Purchases, NEW p \in Bought
  PROVE  PurchasedServices(Append(ps, p)) = PurchasedServices(ps) \cup {p.service_id}
<1>1. /\ DOMAIN Append(ps, p) = DOMAIN ps \cup {Len(ps) + 1}
      /\ Append(ps, p)[Len(ps) + 1] = p
      /\ \A i \in DOMAIN ps : Append(ps, p)[i] = ps[i]
  BY DEF Purchases
<1> QED BY <1>1 DEF PurchasedServices

\* What one purchase changes: one service of another team more, and a price of
\* at least one credit that the budget still holds (arena.py record_purchase).
LEMMA PurchaseFacts ==
  ASSUME Countable, NEW name \in Names, NEW credits \in Credits,
         RecordPurchase(name, credits)
  PROVE  /\ Strip[name] \in Ids \ SelfServiceIds
         /\ purchases' \in Purchases
         /\ PurchasedServices(purchases') = PurchasedServices(purchases) \cup {Strip[name]}
         /\ TotalSpend(purchases) \in Nat /\ credits \in Nat /\ credits > 0
         /\ TotalSpend(purchases') = TotalSpend(purchases) + credits
         /\ TotalSpend(purchases') <= 100
<1> DEFINE p == [service_id |-> Strip[name], credits |-> credits]
<1>1. Strip[name] \in Ids \ SelfServiceIds
  BY DEF RecordPurchase, Ids
<1>2. p \in Bought /\ credits \in Nat
  BY <1>1, LedgerAssumption DEF Bought
<1>3. purchases' = Append(purchases, p) /\ credits > 0
      /\ TotalSpend(purchases) + credits <= 100
  BY DEF RecordPurchase, Budget
<1>4. p.service_id = Strip[name] /\ p.credits = credits
  OBVIOUS
<1> HIDE DEF p
<1>5. purchases \in Purchases
  BY DEF Countable
<1>6. TotalSpend(purchases) \in Nat
  <2>1. PICK g \in [0..Len(purchases) -> Nat] : TotalSpend(purchases) = g[Len(purchases)]
    BY <1>5, TotalSpendIsSum
  <2> QED BY <1>5, <2>1 DEF Purchases
<1>7. purchases' \in Purchases
  BY <1>2, <1>3, <1>5 DEF Purchases
<1> QED
  BY <1>1, <1>2, <1>3, <1>4, <1>5, <1>6, <1>7, ServicesOfAppend, TotalSpendOfAppend

\* LedgerInv holds when a round begins.
LEMMA LedgerInvInit == Init => LedgerInv
<1> SUFFICES ASSUME Init PROVE LedgerInv
  OBVIOUS
<1>1. phase = "PREP" /\ trials = << >> /\ ranking = << >> /\ purchases = << >>
  BY DEF Init
<1>2. Countable
  BY <1>1, EmptyLists, FS_EmptySet DEF Countable, Purchases
<1> QED BY <1>1, <1>2, EmptyLists, TotalSpendOfNone
  DEF LedgerInv, TypeOK, RankingIsOfTrials, CompleteIsQualified, BudgetIsKept, Budget,
      NoOwnPurchase

\* LedgerInv is preserved by every call the ledger accepts.
LEMMA LedgerInvNext == LedgerInv /\ [Next]_lvars => LedgerInv'
<1> SUFFICES ASSUME LedgerInv, [Next]_lvars PROVE LedgerInv'
  OBVIOUS
<1> USE DEF LedgerInv, TypeOK, RankingIsOfTrials, CompleteIsQualified, BudgetIsKept,
            NoOwnPurchase
<1>1. CASE BeginCritique
  BY <1>1 DEF BeginCritique, Countable
<1>2. ASSUME NEW name \in Names, NEW d \in Disagreements, RecordTrial(name, d)
      PROVE  LedgerInv'
  <2>1. Strip[name] \in Ids
    BY <1>2 DEF RecordTrial, Ids
  <2>2. /\ DOMAIN trials' = DOMAIN trials \cup {Strip[name]}
        /\ \A t \in DOMAIN trials' : trials'[t] # Blank
        /\ phase = "CRITIQUE" /\ UNCHANGED <<phase, ranking, purchases>>
    BY <1>2 DEF RecordTrial
  <2>3. Countable'
    BY <2>2, FS_AddElement DEF Countable
  <2> QED BY <2>1, <2>2, <2>3
<1>3. ASSUME NEW names \in Rankings, SubmitRanking(names) PROVE LedgerInv'
  BY <1>3 DEF SubmitRanking, Countable
<1>4. CASE BeginMarket
  BY <1>4 DEF BeginMarket, Countable
<1>5. ASSUME NEW name \in Names, NEW credits \in Credits, RecordPurchase(name, credits)
      PROVE  LedgerInv'
  <2>1. phase = "MARKET" /\ UNCHANGED <<phase, trials, ranking>>
    BY <1>5 DEF RecordPurchase
  <2>2. /\ Strip[name] \in Ids \ SelfServiceIds
        /\ purchases' \in Purchases
        /\ PurchasedServices(purchases') = PurchasedServices(purchases) \cup {Strip[name]}
        /\ TotalSpend(purchases') <= 100
    BY <1>5, PurchaseFacts
  <2>3. Countable'
    BY <2>1, <2>2, FS_AddElement DEF Countable
  <2> QED BY <2>1, <2>2, <2>3 DEF Budget
<1>6. CASE Finish
  <2>1. /\ Cardinality(DOMAIN trials) >= 3 /\ ranking # << >>
        /\ TotalSpend(purchases) >= 80
        /\ Cardinality(PurchasedServices(purchases)) >= 3
    <3>1. /\ Status["tried_at_least_three"] /\ Status["ranking_submitted"]
          /\ Status["spent_at_least_80"] /\ Status["purchased_from_at_least_three_services"]
      BY <1>6 DEF Finish, Status
    <3> QED BY <3>1 DEF Status, MinTrials, MinSpend, MinPurchasedServices
  <2>2. PurchasedServices(purchases) \ SelfServiceIds = PurchasedServices(purchases)
    OBVIOUS
  <2> QED BY <1>6, <2>1, <2>2 DEF Finish, Countable
<1>7. CASE UNCHANGED lvars
  BY <1>7 DEF lvars, Countable
<1> QED BY <1>1, <1>2, <1>3, <1>4, <1>5, <1>6, <1>7 DEF Next

\* Only stripped ids are recorded, and nothing before its phase (arena.py).
THEOREM LedgerTypeCorrect == LedgerSpec => []TypeOK
<1>1. LedgerInv => TypeOK
  BY DEF LedgerInv
<1> QED BY LedgerInvInit, LedgerInvNext, <1>1, PTL DEF LedgerSpec

\* A round that is COMPLETE met its obligations and bought nothing from itself,
\* however it got there (arena.py finish).
THEOREM LedgerCompleteIsQualified == LedgerSpec => []CompleteIsQualified
<1>1. LedgerInv => CompleteIsQualified
  BY DEF LedgerInv
<1> QED BY LedgerInvInit, LedgerInvNext, <1>1, PTL DEF LedgerSpec

\* The ranking stays a ranking of tried products (arena.py submit_ranking).
THEOREM LedgerRankingIsOfTrials == LedgerSpec => []RankingIsOfTrials
<1>1. LedgerInv => RankingIsOfTrials
  BY DEF LedgerInv
<1> QED BY LedgerInvInit, LedgerInvNext, <1>1, PTL DEF LedgerSpec

\* The accounting stays within the budget whatever is bought, in whatever order
\* and at whatever prices (arena.py record_purchase).
THEOREM LedgerBudgetIsKept == LedgerSpec => []BudgetIsKept
<1>1. LedgerInv => BudgetIsKept
  BY DEF LedgerInv
<1> QED BY LedgerInvInit, LedgerInvNext, <1>1, PTL DEF LedgerSpec

---------------------------------------------------------------------------

\* What the obligations count only grows: no accepted call takes back a trial,
\* a ranking, a purchased service or a credit that was spent (arena.py).
LEMMA LedgerGrows ==
  ASSUME LedgerInv, [Next]_lvars
  PROVE  /\ DOMAIN trials \subseteq DOMAIN trials'
         /\ ranking # << >> => ranking' # << >>
         /\ PurchasedServices(purchases) \subseteq PurchasedServices(purchases')
         /\ \/ purchases' = purchases
            \/ /\ TotalSpend(purchases) \in Nat /\ TotalSpend(purchases') \in Nat
               /\ TotalSpend(purchases) < TotalSpend(purchases')
<1>1. CASE BeginCritique \/ BeginMarket \/ Finish \/ UNCHANGED lvars
  BY <1>1 DEF BeginCritique, BeginMarket, Finish, lvars
<1>2. ASSUME NEW name \in Names, NEW d \in Disagreements, RecordTrial(name, d)
      PROVE  DOMAIN trials \subseteq DOMAIN trials' /\ UNCHANGED <<ranking, purchases>>
  BY <1>2 DEF RecordTrial
<1>3. ASSUME NEW names \in Rankings, SubmitRanking(names)
      PROVE  ranking' # << >> /\ UNCHANGED <<trials, purchases>>
  BY <1>3 DEF SubmitRanking
<1>4. ASSUME NEW name \in Names, NEW credits \in Credits, RecordPurchase(name, credits)
      PROVE  /\ UNCHANGED <<trials, ranking>>
             /\ PurchasedServices(purchases) \subseteq PurchasedServices(purchases')
             /\ TotalSpend(purchases) \in Nat /\ TotalSpend(purchases') \in Nat
             /\ TotalSpend(purchases) < TotalSpend(purchases')
  <2>1. UNCHANGED <<trials, ranking>>
    BY <1>4 DEF RecordPurchase
  <2>2. Countable
    BY DEF LedgerInv
  <2> QED BY <1>4, <2>1, <2>2, PurchaseFacts
<1> QED BY <1>1, <1>2, <1>3, <1>4 DEF Next

\* No call takes an obligation back that was met: a larger set of trials or
\* services is not smaller in number, and no disagreement is blanked
\* (arena.py obligations).
THEOREM LedgerObligationsStayMet == LedgerSpec => ObligationsStayMet
<1> DEFINE Stays == \A obligation \in DOMAIN Status : Status[obligation] => Status'[obligation]
<1>1. ASSUME LedgerInv, LedgerInv', [Next]_lvars PROVE Stays
  <2>1. /\ DOMAIN trials \subseteq DOMAIN trials'
        /\ ranking # << >> => ranking' # << >>
        /\ PurchasedServices(purchases) \subseteq PurchasedServices(purchases')
        /\ \/ purchases' = purchases
           \/ /\ TotalSpend(purchases) \in Nat /\ TotalSpend(purchases') \in Nat
              /\ TotalSpend(purchases) < TotalSpend(purchases')
    BY <1>1, LedgerGrows
  <2>2. /\ IsFiniteSet(DOMAIN trials) /\ IsFiniteSet(PurchasedServices(purchases))
        /\ IsFiniteSet(DOMAIN trials') /\ IsFiniteSet(PurchasedServices(purchases'))
        /\ \A t \in DOMAIN trials' : trials'[t] # Blank
    BY <1>1 DEF LedgerInv, Countable, TypeOK
  <2>3. ASSUME NEW S, NEW T, IsFiniteSet(S), IsFiniteSet(T), S \subseteq T, Cardinality(S) >= 3
        PROVE  Cardinality(T) >= 3
    BY <2>3, FS_Subset, FS_CardinalityType
  <2>4. Status.tried_at_least_three => Status'.tried_at_least_three
    BY <2>1, <2>2, <2>3 DEF Status, MinTrials
  <2>5. Status'.specific_disagreement_per_trial
    BY <2>2 DEF Status
  <2>6. Status.ranking_submitted => Status'.ranking_submitted
    BY <2>1 DEF Status
  <2>7. Status.spent_at_least_80 => Status'.spent_at_least_80
    <3>1. TotalSpend(purchases) >= 80 => TotalSpend(purchases') >= 80
      BY <2>1
    <3> QED BY <3>1 DEF Status, MinSpend
  <2>8. Status.purchased_from_at_least_three_services
          => Status'.purchased_from_at_least_three_services
    BY <2>1, <2>2, <2>3 DEF Status, MinPurchasedServices
  <2>9. DOMAIN Status = {"tried_at_least_three", "specific_disagreement_per_trial",
                         "ranking_submitted", "spent_at_least_80",
                         "purchased_from_at_least_three_services"}
    BY DEF Status
  <2> QED BY <2>4, <2>5, <2>6, <2>7, <2>8, <2>9
<1>2. LedgerInv /\ LedgerInv' /\ [Next]_lvars => [Stays]_lvars
  BY <1>1
<1> QED BY LedgerInvInit, LedgerInvNext, <1>2, PTL DEF LedgerSpec, ObligationsStayMet

---------------------------------------------------------------------------
(* The ledger implements the event rules.                                  *)

\* A new ledger is a new round (arena.py, the field defaults).
LEMMA RoundBegins == Init => Round!RoundInit
BY EmptyLists, TotalSpendOfNone DEF Init, Round!RoundInit

\* Every accepted call is a step of the round, or changes nothing it counts.
LEMMA LedgerStepIsRoundStep ==
  LedgerInv /\ LedgerInv' /\ [Next]_lvars => [Round!RoundNext]_(Round!rvars)
<1> SUFFICES ASSUME LedgerInv, LedgerInv', [Next]_lvars
             PROVE  Round!RoundNext \/ UNCHANGED Round!rvars
  OBVIOUS
<1> DEFINE Kept == /\ DOMAIN trials' = DOMAIN trials /\ ranking' = ranking
                   /\ TotalSpend(purchases') = TotalSpend(purchases)
                   /\ PurchasedServices(purchases') = PurchasedServices(purchases)
<1>1. CASE BeginCritique
  <2>1. phase = "PREP" /\ phase' = "CRITIQUE" /\ Kept
    BY <1>1 DEF BeginCritique
  <2> QED BY <2>1 DEF Round!RoundNext, Round!Advance, Round!EnterCritique
<1>2. ASSUME NEW name \in Names, NEW d \in Disagreements, RecordTrial(name, d)
      PROVE  Round!RoundNext
  <2>1. /\ phase = "CRITIQUE" /\ UNCHANGED <<phase, ranking, purchases>>
        /\ DOMAIN trials' = DOMAIN trials \cup {Strip[name]}
    BY <1>2 DEF RecordTrial
  <2>2. DOMAIN trials' \subseteq Ids
    BY DEF LedgerInv, TypeOK
  <2> QED BY <2>1, <2>2 DEF Round!RoundNext, Round!Critique
<1>3. ASSUME NEW names \in Rankings, SubmitRanking(names) PROVE Round!RoundNext
  <2>1. /\ phase = "CRITIQUE" /\ UNCHANGED <<phase, trials, purchases>>
        /\ Cardinality(DOMAIN trials) >= 3
        /\ ranking' # << >> /\ IsInjective(ranking') /\ ToSet(ranking') \subseteq DOMAIN trials
    BY <1>3 DEF SubmitRanking, MinTrials
  <2>2. DOMAIN trials' \subseteq Ids
    BY DEF LedgerInv, TypeOK
  <2> QED BY <2>1, <2>2 DEF Round!RoundNext, Round!Critique,
    Round!Cardinality, Cardinality, Round!IsInjective, IsInjective, Round!ToSet, ToSet
<1>4. CASE BeginMarket
  <2>1. /\ phase = "CRITIQUE" /\ phase' = "MARKET" /\ Kept
        /\ Cardinality(DOMAIN trials) >= 3 /\ ranking # << >>
    BY <1>4 DEF BeginMarket, MinTrials
  <2> QED BY <2>1 DEF Round!RoundNext, Round!Advance, Round!EnterMarket,
    Round!Cardinality, Cardinality
<1>5. ASSUME NEW name \in Names, NEW credits \in Credits, RecordPurchase(name, credits)
      PROVE  Round!RoundNext
  <2>1. phase = "MARKET" /\ UNCHANGED <<phase, trials, ranking>>
    BY <1>5 DEF RecordPurchase
  <2>2. /\ Strip[name] \in Ids \ SelfServiceIds
        /\ PurchasedServices(purchases') = PurchasedServices(purchases) \cup {Strip[name]}
        /\ TotalSpend(purchases) < TotalSpend(purchases') /\ TotalSpend(purchases') <= 100
    BY <1>5, PurchaseFacts DEF LedgerInv
  <2> QED BY <2>1, <2>2 DEF Round!RoundNext, Round!Purchase
<1>6. CASE Finish
  <2>1. phase = "MARKET" /\ phase' = "COMPLETE" /\ Kept
    BY <1>6 DEF Finish
  <2>2. CompleteIsQualified'
    BY DEF LedgerInv
  <2>3. NoOwnPurchase /\ PurchasedServices(purchases) \ SelfServiceIds = PurchasedServices(purchases)
    BY DEF LedgerInv, NoOwnPurchase
  <2>4. /\ Cardinality(DOMAIN trials) >= 3 /\ ranking # << >>
        /\ TotalSpend(purchases) >= 80 /\ Cardinality(PurchasedServices(purchases)) >= 3
    BY <2>1, <2>2, <2>3 DEF CompleteIsQualified
  <2> QED BY <2>1, <2>4 DEF Round!RoundNext, Round!Advance, Round!Complete,
    Round!Cardinality, Cardinality
<1>7. CASE UNCHANGED lvars
  BY <1>7 DEF lvars, Round!rvars
<1> QED BY <1>1, <1>2, <1>3, <1>4, <1>5, <1>6, <1>7 DEF Next

\* Whatever calls are made, a round keeps the event rules: it only moves
\* forward, leaves each phase with what the rules ask for and takes nothing
\* back (arena.py).
THEOREM RulesAreKept == LedgerSpec => KeepsRules
BY LedgerInvInit, LedgerInvNext, RoundBegins, LedgerStepIsRoundStep, PTL
   DEF LedgerSpec, KeepsRules, Round!RoundRules
=============================================================================
