-------------------------- MODULE ProofBeforeAction --------------------------
(***************************************************************************)
(* What the service promises those who act on its answers: proofs are only *)
(* ever added, and a decision is one atomic look at the proofs and the     *)
(* clock.  There are no instances, no rows, no locks and no digests here.  *)
(***************************************************************************)
EXTENDS Naturals

CONSTANTS Actors, Artifacts, Keys, None

VARIABLES
  proofs,     \* proofs there are: [artifact, until, signer]
  clock,
  decided     \* actor -> the decision it holds, or None

pvars == <<proofs, clock, decided>>

\* ALLOW needs a current proof for the artifact and, where a signature is
\* required, one signed with the key the decision was made with.
Justified(d, p, time) ==
  /\ p.artifact = d.artifact
  /\ time < p.until
  /\ d.signed => p.signer = d.key /\ d.key # None

PInit == proofs = {} /\ clock = 0 /\ decided = [a \in Actors |-> None]

Proof == [artifact : Artifacts, until : Nat, signer : Keys \cup {None}]

Prove ==
  /\ proofs \subseteq proofs' /\ proofs' \subseteq Proof
  /\ UNCHANGED <<clock, decided>>

Decide(a) ==
  \E artifact \in Artifacts, signed \in BOOLEAN, key \in Keys \cup {None},
     decision \in {"ALLOW", "BLOCK"} :
    LET d == [artifact |-> artifact, signed |-> signed, key |-> key, decision |-> decision]
    IN /\ decided[a] = None
       /\ decision = "ALLOW" => \E p \in proofs : Justified(d, p, clock)
       /\ decided' = [decided EXCEPT ![a] = d]
       /\ UNCHANGED <<proofs, clock>>

\* decisions are taken note of, or lost
Forget(gone) ==
  /\ decided' = [a \in Actors |-> IF a \in gone THEN None ELSE decided[a]]
  /\ UNCHANGED <<proofs, clock>>

\* a wall clock: it may be set back
Pass == clock' \in Nat /\ UNCHANGED <<proofs, decided>>

PNext ==
  \/ Prove \/ Pass
  \/ \E a \in Actors : Decide(a)
  \/ \E gone \in SUBSET Actors : Forget(gone)

Promise == PInit /\ [][PNext]_pvars
=============================================================================
