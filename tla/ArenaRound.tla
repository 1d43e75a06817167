----------------------------- MODULE ArenaRound -----------------------------
(***************************************************************************)
(* The event rules a round is held to, as the ledger of arena.py keeps     *)
(* them.  There are no texts, no prices and no refused calls here: a round *)
(* only moves forward, nothing that counts is taken back, and a phase is   *)
(* left only when what it asks for is there.                               *)
(***************************************************************************)
EXTENDS Naturals, FiniteSets, SequencesExt

CONSTANTS
  Products,           \* what can be tried or bought
  OwnServices

VARIABLES
  phase,
  tried,              \* products
  ranked,             \* a list of products
  spent, services     \* credits, and the services they were spent on

rvars == <<phase, tried, ranked, spent, services>>

RoundInit == phase = "PREP" /\ tried = {} /\ ranked = << >> /\ spent = 0 /\ services = {}

\* Products are tried, and once three are, some of them are ranked, each once.
Critique ==
  /\ phase = "CRITIQUE"
  /\ tried \subseteq tried' /\ tried' \subseteq Products
  /\ \/ ranked' = ranked
     \/ /\ Cardinality(tried) >= 3
        /\ ranked' # << >> /\ IsInjective(ranked') /\ ToSet(ranked') \subseteq tried
  /\ UNCHANGED <<phase, spent, services>>

\* Credits of the budget of 100 buy a service of another team.
Purchase ==
  /\ phase = "MARKET"
  /\ \E s \in Products \ OwnServices : services' = services \cup {s}
  /\ spent < spent' /\ spent' <= 100
  /\ UNCHANGED <<phase, tried, ranked>>

EnterCritique == phase = "PREP" /\ phase' = "CRITIQUE"

EnterMarket ==
  /\ phase = "CRITIQUE" /\ phase' = "MARKET"
  /\ Cardinality(tried) >= 3 /\ ranked # << >>

Complete ==
  /\ phase = "MARKET" /\ phase' = "COMPLETE"
  /\ Cardinality(tried) >= 3 /\ ranked # << >>
  /\ spent >= 80 /\ Cardinality(services) >= 3

Advance ==
  /\ EnterCritique \/ EnterMarket \/ Complete
  /\ UNCHANGED <<tried, ranked, spent, services>>

RoundNext == Critique \/ Purchase \/ Advance

RoundRules == RoundInit /\ [][RoundNext]_rvars
=============================================================================
