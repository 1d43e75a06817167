----------------------------- MODULE ArenaLedger -----------------------------
(***************************************************************************)
(* The Arena obligation ledger of arena.py: PREP, CRITIQUE, MARKET and     *)
(* COMPLETE, the trials, the ranking and the purchases.  A call the code   *)
(* refuses with a ValueError changes nothing and is no step.               *)
(***************************************************************************)
EXTENDS Naturals, Sequences, FiniteSets, SequencesExt

CONSTANTS
  Names,            \* product and service ids as the representative writes them
  Strip,            \* text -> the same text without surrounding white space
  Blank,
  Disagreements,    \* texts of disagreements
  Credits,          \* prices the representative tries to pay
  SelfServiceIds    \* self_service_ids, as configured

ASSUME LedgerAssumption == Credits \subseteq Nat

MinTrials == 3
MinSpend == 80
MinPurchasedServices == 3
Budget == 100

VARIABLES phase, trials, ranking, purchases

lvars == <<phase, trials, ranking, purchases>>

Init ==
  /\ phase = "PREP"
  /\ trials = << >>        \* product id -> its disagreement
  /\ ranking = << >>
  /\ purchases = << >>

\* total_spend: spent[n] is the sum of the first n purchases
TotalSpend(ps) ==
  LET spent[n \in 0..Len(ps)] == IF n = 0 THEN 0 ELSE spent[n - 1] + ps[n].credits
  IN spent[Len(ps)]

PurchasedServices(ps) == {ps[i].service_id : i \in DOMAIN ps}

BeginCritique ==
  /\ phase = "PREP"
  /\ phase' = "CRITIQUE"
  /\ UNCHANGED <<trials, ranking, purchases>>

\* A bug a rewrite could bring in: names are recorded as they were written.
RecordTrialUnstripped(name, disagreement) ==
  /\ phase = "CRITIQUE"
  /\ Strip[name] # Blank /\ Strip[disagreement] # Blank
  /\ trials' = [t \in DOMAIN trials \cup {name} |->
                  IF t = name THEN disagreement ELSE trials[t]]
  /\ UNCHANGED <<phase, ranking, purchases>>

RecordTrial(name, disagreement) ==
  LET id == Strip[name] IN
  /\ phase = "CRITIQUE"
  /\ id # Blank /\ Strip[disagreement] # Blank
  /\ trials' = [t \in DOMAIN trials \cup {id} |->
                  IF t = id THEN Strip[disagreement] ELSE trials[t]]
  /\ UNCHANGED <<phase, ranking, purchases>>

\* submit_ranking strips the names, drops the blank ones and replaces the ranking
Normalized(names) ==
  SelectSeq([i \in DOMAIN names |-> Strip[names[i]]], LAMBDA id : id # Blank)

\* A bug a rewrite could bring in: names are compared before they are stripped.
SubmitRankingUnstripped(names) ==
  /\ phase = "CRITIQUE"
  /\ IsInjective(names)
  /\ Cardinality(DOMAIN trials) >= MinTrials
  /\ Normalized(names) # << >>
  /\ ToSet(Normalized(names)) \subseteq DOMAIN trials
  /\ ranking' = Normalized(names)
  /\ UNCHANGED <<phase, trials, purchases>>

SubmitRanking(names) ==
  /\ phase = "CRITIQUE"
  /\ IsInjective(Normalized(names))
  /\ Cardinality(DOMAIN trials) >= MinTrials
  /\ Normalized(names) # << >>
  /\ ToSet(Normalized(names)) \subseteq DOMAIN trials
  /\ ranking' = Normalized(names)
  /\ UNCHANGED <<phase, trials, purchases>>

\* A bug a rewrite could bring in: the market starts with a clean ranking.
BeginMarketAfresh ==
  /\ phase = "CRITIQUE"
  /\ Cardinality(DOMAIN trials) >= MinTrials /\ ranking # << >>
  /\ phase' = "MARKET" /\ ranking' = << >>
  /\ UNCHANGED <<trials, purchases>>

\* A bug a rewrite could bring in: the market opens without a ranking.
BeginMarketUnranked ==
  /\ phase = "CRITIQUE"
  /\ Cardinality(DOMAIN trials) >= MinTrials
  /\ phase' = "MARKET"
  /\ UNCHANGED <<trials, ranking, purchases>>

BeginMarket ==
  /\ phase = "CRITIQUE"
  /\ Cardinality(DOMAIN trials) >= MinTrials /\ ranking # << >>
  /\ phase' = "MARKET"
  /\ UNCHANGED <<trials, ranking, purchases>>

\* A bug a rewrite could bring in: the budget is checked before the purchase
\* is added to it.
RecordPurchaseLateCheck(name, credits) ==
  LET id == Strip[name] IN
  /\ phase = "MARKET"
  /\ id # Blank /\ id \notin SelfServiceIds
  /\ credits > 0 /\ TotalSpend(purchases) < Budget
  /\ purchases' = Append(purchases, [service_id |-> id, credits |-> credits])
  /\ UNCHANGED <<phase, trials, ranking>>

RecordPurchase(name, credits) ==
  LET id == Strip[name] IN
  /\ phase = "MARKET"
  /\ id # Blank /\ id \notin SelfServiceIds
  /\ credits > 0 /\ TotalSpend(purchases) + credits <= Budget
  /\ purchases' = Append(purchases, [service_id |-> id, credits |-> credits])
  /\ UNCHANGED <<phase, trials, ranking>>

\* A bug a rewrite could bring in: purchases are counted, not services.
StatusCountingPurchases ==
  [tried_at_least_three |-> Cardinality(DOMAIN trials) >= MinTrials,
   specific_disagreement_per_trial |-> \A t \in DOMAIN trials : trials[t] # Blank,
   ranking_submitted |-> ranking # << >>,
   spent_at_least_80 |-> TotalSpend(purchases) >= MinSpend,
   purchased_from_at_least_three_services |-> Len(purchases) >= MinPurchasedServices]

\* obligations(), the five that finish() requires
Status ==
  [tried_at_least_three |-> Cardinality(DOMAIN trials) >= MinTrials,
   specific_disagreement_per_trial |-> \A t \in DOMAIN trials : trials[t] # Blank,
   ranking_submitted |-> ranking # << >>,
   spent_at_least_80 |-> TotalSpend(purchases) >= MinSpend,
   purchased_from_at_least_three_services |->
     Cardinality(PurchasedServices(purchases)) >= MinPurchasedServices]

Finish ==
  /\ phase = "MARKET"
  /\ \A obligation \in DOMAIN Status : Status[obligation]
  /\ phase' = "COMPLETE"
  /\ UNCHANGED <<trials, ranking, purchases>>

Rankings == UNION {[1..n -> Names] : n \in 0..MinTrials}

Next ==
  \/ BeginCritique \/ BeginMarket \/ Finish
  \/ \E name \in Names, d \in Disagreements : RecordTrial(name, d)
  \/ \E names \in Rankings : SubmitRanking(names)
  \/ \E name \in Names, credits \in Credits : RecordPurchase(name, credits)

LedgerSpec == Init /\ [][Next]_lvars

---------------------------------------------------------------------------
(* Properties.                                                             *)

Ids == {Strip[name] : name \in Names} \ {Blank}

\* Only stripped, non-blank ids are ever recorded, and nothing is bought before
\* the market or ranked before the critique (arena.py _require_phase).
TypeOK ==
  /\ phase \in {"PREP", "CRITIQUE", "MARKET", "COMPLETE"}
  /\ DOMAIN trials \subseteq Ids
  /\ \A t \in DOMAIN trials : trials[t] # Blank
  /\ ToSet(ranking) \subseteq Ids
  /\ PurchasedServices(purchases) \subseteq Ids
  /\ phase = "PREP" => trials = << >> /\ ranking = << >>
  /\ phase \in {"PREP", "CRITIQUE"} => purchases = << >>

\* The representative cannot finish a round early (the docstring of arena.py):
\* COMPLETE means three products tried, each with a disagreement, a ranking of
\* products that were tried, and 80 to 100 credits spent on three services that
\* are not its own, whatever was resubmitted or tried again on the way.
CompleteIsQualified ==
  phase = "COMPLETE" =>
    /\ Cardinality(DOMAIN trials) >= 3 /\ \A t \in DOMAIN trials : trials[t] # Blank
    /\ ranking # << >>
    /\ Cardinality(PurchasedServices(purchases) \ SelfServiceIds) >= 3
    /\ TotalSpend(purchases) >= 80

\* The accounting never exceeds the budget (arena.py record_purchase).
BudgetIsKept == TotalSpend(purchases) <= Budget

\* The ranking names products that were tried, each once, also after more
\* trials and a second ranking (arena.py submit_ranking).
RankingIsOfTrials ==
  IsInjective(ranking) /\ ToSet(ranking) \subseteq DOMAIN trials

\* An obligation once met stays met, whatever is recorded later: no trial,
\* ranking, purchase or phase change takes one back (arena.py obligations).
\* The disagreement of a trial may be rewritten but never blanked.
ObligationsStayMet ==
  [][\A obligation \in DOMAIN Status : Status[obligation] => Status'[obligation]]_lvars

Round == INSTANCE ArenaRound WITH
  Products <- Ids,
  OwnServices <- SelfServiceIds,
  tried <- DOMAIN trials,
  ranked <- ranking,
  spent <- TotalSpend(purchases),
  services <- PurchasedServices(purchases)

\* The ledger implements the event rules of ArenaRound: whatever calls it
\* accepts, in whatever order, are steps of a round that only moves forward,
\* leaves a phase with what it asks for, and takes nothing back (arena.py).
KeepsRules == Round!RoundRules

\* docs/ARENA_RUNBOOK.md: the ledger is the local guard against accidental
\* disqualification.  In the market the obligations can still be met with the
\* credits left: every missing service costs at least one credit.
StillWinnable ==
  phase = "MARKET" =>
    LET missing == MinPurchasedServices - Cardinality(PurchasedServices(purchases))
    IN missing > 0 => TotalSpend(purchases) + missing <= Budget

\* docs/ARENA_RUNBOOK.md: try at least 3 other products.  A round that is
\* COMPLETE has three trials of products that are not the team's own.
TrialsAreOfOthers ==
  phase = "COMPLETE" => Cardinality(DOMAIN trials \ SelfServiceIds) >= 3
=============================================================================
