---------------------- MODULE SentinelRefinementProofs ----------------------
(***************************************************************************)
(* Sentinel implements ProofBeforeAction: initial states map to initial    *)
(* states and every step maps to a step of the promise or to a stutter.    *)
(***************************************************************************)
EXTENDS SentinelProofs

\* What a receipt needs, to be a proof of the abstract specification.
Provable(call, r) ==
  /\ call.artifact \in Artifacts
  /\ r.expires_at \in Nat
  /\ SignerOf(r) \in Keys \cup {NULL}

Asks(call) == call.artifact \in Artifacts /\ call.require_signed \in BOOLEAN

IssuedProvable == \A i \in issued : Provable(i.call, i.receipt)

JobsProvable ==
  \A w \in Workers :
    /\ job[w].pc \in {"save", "commit"} => Provable(job[w].call, job[w].receipt)
    /\ job[w].pc = "gate" => Asks(job[w].call)

PromiseInv == GateInv /\ IssuedProvable /\ JobsProvable

\* A receipt of verify expires at a point in time and is signed, if it is, with
\* the key of the instance (core.py verify, schema_verifier.py verify).
LEMMA VerifyIsProvable ==
  ASSUME NEW call \in Calls, NEW clock \in Nat, NEW key \in Keys, ~Rejects(call)
  PROVE  Provable(call, Verify(call, clock, key))
<1>1. call.artifact \in Artifacts
  BY CallAssumption
<1>2. Policy(call.contract).receipt_ttl = call.contract.receipt_ttl
  BY CallAssumption DEF Policy
<1>3. clock + Policy(call.contract).receipt_ttl \in Nat
  <2> DEFINE ttl == call.contract.receipt_ttl
  <2>1. ttl \in 1..LongestTtl
    BY DEF Rejects, WithinBounds
  <2> HIDE DEF ttl
  <2>2. clock + ttl \in Nat
    BY <2>1
  <2>3. Policy(call.contract).receipt_ttl = ttl
    BY <1>2 DEF ttl
  <2> QED BY <2>2, <2>3
<1>4. ASSUME NEW u PROVE SignerOf(Sealed(u, key)) \in Keys \cup {NULL}
  <2>1. PICK r : r = Sealed(u, key)
    OBVIOUS
  <2>2. r.signature = IF key = NULL THEN NULL ELSE Hmac(key, r.receipt_sha256)
    BY <2>1, SealedFacts
  <2>3. Hmac(key, r.receipt_sha256).key = key
    BY DEF Hmac
  <2> QED BY <2>1, <2>2, <2>3 DEF SignerOf
<1>5. CoreReceipt(call, clock, key).expires_at \in Nat
  BY <1>3, SealedFacts DEF CoreReceipt
<1>6. SignerOf(CoreReceipt(call, clock, key)) \in Keys \cup {NULL}
  BY <1>4 DEF CoreReceipt
<1>7. ASSUME NEW base, Genuine(call, base), base.expires_at \in Nat
      PROVE  Provable(call, SchemaReceipt(call, base, key))
  <2> DEFINE checks == AllChecks(call, base)
             u == [base EXCEPT !.verdict = VerdictOf(checks), !.checks = checks,
                               !.contract_sha256 = SchemaContractHash(call),
                               !.blocking_reasons = Failing(checks, "BLOCK"),
                               !.warnings = Failing(checks, "WARN")]
  <2>1. base = [f \in ReceiptFields |-> base[f]]
    BY <1>7 DEF Genuine
  <2> HIDE DEF checks
  <2>2. u.expires_at = base.expires_at
    BY <2>1 DEF ReceiptFields
  <2>3. SchemaReceipt(call, base, key) = Sealed(u, key)
    BY DEF SchemaReceipt, checks
  <2> HIDE DEF u
  <2> QED BY <1>1, <1>4, <1>7, <2>2, <2>3, SealedFacts DEF Provable
<1> QED BY <1>1, <1>5, <1>6, <1>7, CoreReceiptIsGenuine DEF Verify, Provable

\* Before any receipt is issued or any call is in flight, PromiseInv holds.
LEMMA PromiseInvInit == Init => PromiseInv
<1> SUFFICES ASSUME Init PROVE PromiseInv
  OBVIOUS
<1>1. issued = {} /\ \A w \in Workers : job[w].pc = "idle"
  BY DEF Init, Idle
<1> QED BY <1>1, GateInvInit DEF PromiseInv, IssuedProvable, JobsProvable

\* PromiseInv is preserved by every step: only the actions that set call or
\* receipt of a job, and the commit, need an argument of their own.
LEMMA PromiseInvNext == PromiseInv /\ [Next]_vars => PromiseInv'
<1> SUFFICES ASSUME PromiseInv, [Next]_vars PROVE PromiseInv'
  OBVIOUS
<1>1. GateInv'
  BY GateInvNext DEF PromiseInv
<1>a. job = [w \in Workers |-> job[w]]
  BY DEF PromiseInv, GateInv, TypeInv
<1>2. ASSUME NEW w \in Workers, UNCHANGED issued,
             \A v \in Workers \ {w} : job'[v] = job[v],
             job'[w].pc \in {"save", "commit"} => Provable(job'[w].call, job'[w].receipt),
             job'[w].pc = "gate" => Asks(job'[w].call)
      PROVE  PromiseInv'
  BY <1>1, <1>2 DEF PromiseInv, IssuedProvable, JobsProvable
<1>3. CASE UNCHANGED <<job, issued>>
  BY <1>1, <1>3 DEF PromiseInv, IssuedProvable, JobsProvable
<1>4. ASSUME NEW i \in Instances, Crash(i) PROVE PromiseInv'
  <2>1. issued' = issued /\ \A w \in Workers : job'[w] = job[w] \/ job'[w] = Idle
    BY <1>4 DEF Crash
  <2> QED BY <1>1, <2>1 DEF PromiseInv, IssuedProvable, JobsProvable, Idle
<1>5. ASSUME NEW w \in Workers, NEW call, VerifyRefused(w, call) PROVE PromiseInv'
  BY <1>a, <1>2, <1>5 DEF VerifyRefused, Error
<1>6. ASSUME NEW w \in Workers, NEW call \in Calls, VerifyBegin(w, call) PROVE PromiseInv'
  <2>1. signing_key[Home[w]] \in Keys /\ now \in Nat /\ ~Rejects(call)
    BY <1>6, InstanceAssumption DEF VerifyBegin, Up, PromiseInv, GateInv, TypeInv, TypeOK
  <2>2. PICK r : r = Verify(call, now, signing_key[Home[w]])
                 /\ job' = [job EXCEPT ![w] = Saving("save", call, r)]
    BY <1>6 DEF VerifyBegin
  <2>3. Provable(call, r)
    BY <2>1, <2>2, VerifyIsProvable
  <2>4. job'[w] = Saving("save", call, r) /\ \A v \in Workers \ {w} : job'[v] = job[v]
    BY <1>a, <2>2
  <2> QED BY <1>2, <1>6, <2>3, <2>4 DEF VerifyBegin, Saving
<1>7. ASSUME NEW w \in Workers, SaveBegin(w) PROVE PromiseInv'
  <2>1. PICK call, r : call = job[w].call /\ r = job[w].receipt
    OBVIOUS
  <2>2. job'[w] = Saving("commit", call, r) /\ \A v \in Workers \ {w} : job'[v] = job[v]
    BY <1>a, <1>7, <2>1 DEF SaveBegin
  <2>3. Provable(call, r)
    BY <1>7, <2>1 DEF SaveBegin, PromiseInv, JobsProvable
  <2> QED BY <1>2, <1>7, <2>2, <2>3 DEF SaveBegin, Saving
<1>8. ASSUME NEW w \in Workers, SaveTimeout(w) \/ SaveFails(w) PROVE PromiseInv'
  BY <1>a, <1>2, <1>8 DEF SaveTimeout, SaveFails, Error
<1>9. ASSUME NEW w \in Workers, SaveCommit(w) PROVE PromiseInv'
  <2>1. PICK call, r :
          /\ call = job[w].call /\ r = job[w].receipt /\ job[w].pc = "commit"
          /\ issued' = issued \cup {[call |-> call, receipt |-> r]}
          /\ job' = [job EXCEPT ![w] = Saving("receipt", call, r)]
    BY <1>9 DEF SaveCommit
  <2>2. Provable(call, r)
    BY <2>1 DEF PromiseInv, JobsProvable
  <2>3. IssuedProvable'
    BY <2>1, <2>2 DEF PromiseInv, IssuedProvable, Provable
  <2>4. JobsProvable'
    BY <1>a, <2>1 DEF PromiseInv, JobsProvable, Saving
  <2> QED BY <1>1, <2>3, <2>4 DEF PromiseInv
<1>10. ASSUME NEW w \in Workers, NEW call \in GateCalls, GateRead(w, call) PROVE PromiseInv'
  <2>1. Asks(call)
    BY DEF GateCalls, Asks
  <2>2. \A v \in Workers \ {w} : job'[v] = job[v]
    BY <1>a, <1>10 DEF GateRead
  <2>3. job'[w].pc = "error" \/ (job'[w].pc = "gate" /\ job'[w].call = call)
    BY <1>a, <1>10 DEF GateRead, Error
  <2> QED BY <1>2, <1>10, <2>1, <2>2, <2>3 DEF GateRead
<1>11. ASSUME NEW w \in Workers, GateDecide(w) \/ Answer(w) PROVE PromiseInv'
  <2>1. \A v \in Workers \ {w} : job'[v] = job[v]
    BY <1>a, <1>11 DEF GateDecide, Answer
  <2>2. job'[w].pc \in {"decision", "idle"}
    BY <1>a, <1>11 DEF GateDecide, Answer, Idle
  <2> QED BY <1>2, <1>11, <2>1, <2>2 DEF GateDecide, Answer
<1> QED
  BY <1>3, <1>4, <1>5, <1>6, <1>7, <1>8, <1>9, <1>10, <1>11
     DEF Next, Step, Receive, vars, Start, Tick, SetBack, Damage

---------------------------------------------------------------------------
(* The refinement mapping, by the names of ProofBeforeAction.              *)

Proofs == {ProofOf(i) : i \in {k \in issued : Proves(k, k.call.artifact)}}

Decided == [w \in Workers |-> DecisionOf(job[w])]

\* The empty table maps to no proofs and the idle workers to no decisions.
LEMMA InitRefines == Init => Abstract!PInit
<1> SUFFICES ASSUME Init PROVE Abstract!PInit
  OBVIOUS
<1>1. issued = {} /\ now = 0 /\ \A w \in Workers : job[w].pc = "idle"
  BY DEF Init, Idle
<1>2. \A w \in Workers : DecisionOf(job[w]) = NULL
  BY <1>1 DEF DecisionOf
<1> QED BY <1>1, <1>2 DEF Abstract!PInit

\* A step that is no commit, no decision and no tick maps to decisions being
\* forgotten, or to a stutter.
LEMMA ForgettingRefines ==
  ASSUME UNCHANGED <<issued, now>>,
         \A w \in Workers :
           DecisionOf(job'[w]) = DecisionOf(job[w]) \/ DecisionOf(job'[w]) = NULL
  PROVE  Abstract!PNext
<1> DEFINE gone == {w \in Workers : DecisionOf(job'[w]) # DecisionOf(job[w])}
<1>1. gone \in SUBSET Workers
  OBVIOUS
<1>2. Abstract!Forget(gone)
  <2>1. Decided' = [w \in Workers |-> IF w \in gone THEN NULL ELSE Decided[w]]
    BY DEF Decided
  <2>2. UNCHANGED <<Proofs, now>>
    BY DEF Proofs, ProofOf, Proves
  <2> QED BY <2>1, <2>2 DEF Abstract!Forget, Decided, Proofs
<1> QED BY <1>1, <1>2 DEF Abstract!PNext

\* A commit adds at most one proof, and every proof is one of the abstract ones.
LEMMA CommitRefines ==
  ASSUME PromiseInv, PromiseInv', NEW w \in Workers, SaveCommit(w)
  PROVE  Abstract!PNext
<1>1. issued \subseteq issued' /\ now' = now
  BY DEF SaveCommit
<1>2. Proofs \subseteq Proofs'
  BY <1>1 DEF Proofs, ProofOf, Proves
<1>3. Proofs' \subseteq Abstract!Proof
  <2>1. ASSUME NEW i \in issued' PROVE ProofOf(i) \in Abstract!Proof
    BY DEF PromiseInv, IssuedProvable, Provable, ProofOf, Abstract!Proof
  <2> QED BY <2>1 DEF Proofs
<1>4. Decided' = Decided
  <2>1. \A v \in Workers : DecisionOf(job'[v]) = DecisionOf(job[v])
    BY DEF SaveCommit, PromiseInv, GateInv, TypeInv, DecisionOf, Saving
  <2> QED BY <2>1 DEF Decided
<1>5. Abstract!Prove
  BY <1>1, <1>2, <1>3, <1>4 DEF Abstract!Prove, Proofs, Decided
<1> QED BY <1>5 DEF Abstract!PNext

\* A decision of the gate is an atomic decision of the promise: GateSound says
\* that an ALLOW has its proof in the state it was decided in.
LEMMA DecisionRefines ==
  ASSUME PromiseInv, PromiseInv', NEW w \in Workers, GateDecide(w)
  PROVE  Abstract!PNext
<1>1. PICK call, key, reasons, known, decision, id, altered :
        /\ call = job[w].call /\ key = signing_key[Home[w]]
        /\ decision = IF reasons = {} THEN "ALLOW" ELSE "BLOCK"
        /\ job' = [job EXCEPT ![w] =
                     [pc |-> "decision", call |-> call, reasons |-> reasons,
                      receipt_id |-> id, altered |-> altered, decision |-> decision,
                      at |-> now, key |-> key, known |-> known]]
  BY DEF GateDecide
<1> DEFINE d == [artifact |-> call.artifact, signed |-> call.require_signed,
                 key |-> key, decision |-> decision]
<1>2. job[w].pc = "gate" /\ UNCHANGED <<issued, now, signing_key>>
  BY DEF GateDecide
<1>3. Asks(call)
  BY <1>1, <1>2 DEF PromiseInv, JobsProvable
<1>4. key \in Keys
  BY <1>1, <1>2, InstanceAssumption DEF PromiseInv, GateInv, TypeInv, TypeOK, Up
<1>5. /\ job'[w].pc = "decision" /\ job'[w].call = call /\ job'[w].key = key
      /\ job'[w].decision = decision /\ job'[w].at = now
      /\ \A v \in Workers \ {w} : job'[v] = job[v]
  BY <1>1 DEF PromiseInv, GateInv, TypeInv
<1>6. Decided' = [Decided EXCEPT ![w] = d]
  BY <1>5 DEF Decided, DecisionOf
<1>7. Decided[w] = NULL
  BY <1>2 DEF Decided, DecisionOf
<1>8. UNCHANGED <<Proofs, now>>
  BY <1>2 DEF Proofs, ProofOf, Proves
<1>9. ASSUME decision = "ALLOW" PROVE \E p \in Proofs : Abstract!Justified(d, p, now)
  <2>1. PICK i \in issued :
          /\ Proves(i, call.artifact)
          /\ now < i.receipt.expires_at
          /\ call.require_signed => SignedBy(i.receipt, key)
    BY <1>2, <1>5, <1>9 DEF PromiseInv, GateInv, GateSound, Proves, SignedBy
  <2>2. ProofOf(i) \in Proofs
    BY <2>1 DEF Proofs, Proves
  <2>3. SignedBy(i.receipt, key) => SignerOf(i.receipt) = key /\ key # NULL
    BY DEF SignedBy, SignerOf, Hmac
  <2>4. ProofOf(i).artifact = call.artifact /\ ProofOf(i).until = i.receipt.expires_at
        /\ ProofOf(i).signer = SignerOf(i.receipt)
    BY <2>1 DEF ProofOf, Proves
  <2>5. d.artifact = call.artifact /\ d.signed = call.require_signed /\ d.key = key
    OBVIOUS
  <2> HIDE DEF d
  <2>6. Abstract!Justified(d, ProofOf(i), now)
    BY <2>1, <2>3, <2>4, <2>5 DEF Abstract!Justified
  <2> QED BY <2>2, <2>6
<1>10. Abstract!Decide(w)
  <2>1. /\ call.artifact \in Artifacts /\ call.require_signed \in BOOLEAN
        /\ key \in Keys \cup {NULL} /\ decision \in {"ALLOW", "BLOCK"}
    BY <1>1, <1>3, <1>4 DEF Asks
  <2>2. \E artifact \in Artifacts, signed \in BOOLEAN, k \in Keys \cup {NULL},
           verdict \in {"ALLOW", "BLOCK"} :
          LET e == [artifact |-> artifact, signed |-> signed, key |-> k, decision |-> verdict]
          IN /\ Decided[w] = NULL
             /\ verdict = "ALLOW" => \E p \in Proofs : Abstract!Justified(e, p, now)
             /\ Decided' = [Decided EXCEPT ![w] = e]
             /\ UNCHANGED <<Proofs, now>>
    BY <1>6, <1>7, <1>8, <1>9, <2>1, Zenon
  <2> QED BY <2>2 DEF Abstract!Decide, Decided, Proofs
<1> QED BY <1>10 DEF Abstract!PNext

\* Every step of the service is a step of the promise, or none.
LEMMA NextRefines ==
  PromiseInv /\ PromiseInv' /\ [Next]_vars => [Abstract!PNext]_(Abstract!pvars)
<1> SUFFICES ASSUME PromiseInv, PromiseInv', [Next]_vars
             PROVE  Abstract!PNext \/ UNCHANGED Abstract!pvars
  OBVIOUS
<1>a. job = [w \in Workers |-> job[w]]
  BY DEF PromiseInv, GateInv, TypeInv
<1>1. CASE UNCHANGED <<issued, now, job>>
  <2>1. UNCHANGED <<Proofs, now, Decided>>
    BY <1>1 DEF Proofs, ProofOf, Proves, Decided
  <2> QED BY <2>1 DEF Abstract!pvars, Proofs, Decided
<1>2. CASE Tick \/ SetBack
  <2>1. now' \in Nat /\ UNCHANGED <<issued, job>>
    BY <1>2 DEF Tick, SetBack, PromiseInv, GateInv, TypeInv, TypeOK
  <2>2. UNCHANGED <<Proofs, Decided>>
    BY <2>1 DEF Proofs, ProofOf, Proves, Decided
  <2>3. Abstract!Pass
    BY <2>1, <2>2 DEF Abstract!Pass, Proofs, Decided
  <2> QED BY <2>3 DEF Abstract!PNext
<1>3. ASSUME NEW i \in Instances, Crash(i) PROVE Abstract!PNext
  <2>1. UNCHANGED <<issued, now>> /\ \A w \in Workers : job'[w] = job[w] \/ job'[w] = Idle
    BY <1>3 DEF Crash
  <2>2. \A w \in Workers : DecisionOf(job'[w]) = DecisionOf(job[w]) \/ DecisionOf(job'[w]) = NULL
    BY <2>1 DEF DecisionOf, Idle
  <2> QED BY <2>1, <2>2, ForgettingRefines
<1>4. ASSUME NEW w \in Workers, UNCHANGED <<issued, now>>, job'[w].pc # "decision",
             \A v \in Workers \ {w} : job'[v] = job[v]
      PROVE  Abstract!PNext
  <2>1. \A v \in Workers : DecisionOf(job'[v]) = DecisionOf(job[v]) \/ DecisionOf(job'[v]) = NULL
    BY <1>4 DEF DecisionOf
  <2> QED BY <1>4, <2>1, ForgettingRefines
<1>5. ASSUME NEW w \in Workers, NEW call, VerifyRefused(w, call) PROVE Abstract!PNext
  BY <1>a, <1>4, <1>5 DEF VerifyRefused, Error
<1>6. ASSUME NEW w \in Workers, NEW call, VerifyBegin(w, call) PROVE Abstract!PNext
  BY <1>a, <1>4, <1>6 DEF VerifyBegin, Saving
<1>7. ASSUME NEW w \in Workers, SaveBegin(w) \/ SaveTimeout(w) \/ SaveFails(w) PROVE Abstract!PNext
  BY <1>a, <1>4, <1>7 DEF SaveBegin, SaveTimeout, SaveFails, Saving, Error
<1>8. ASSUME NEW w \in Workers, NEW call, GateRead(w, call) PROVE Abstract!PNext
  BY <1>a, <1>4, <1>8 DEF GateRead, Error
<1>9. ASSUME NEW w \in Workers, Answer(w) PROVE Abstract!PNext
  BY <1>a, <1>4, <1>9 DEF Answer, Idle
<1> QED
  BY <1>1, <1>2, <1>3, <1>5, <1>6, <1>7, <1>8, <1>9, CommitRefines, DecisionRefines
     DEF Next, Step, Receive, vars, Start, Damage

\* The service implements the promise: whatever handlers, crashes, restarts
\* under other keys, replaced and altered rows interleave, each answer of the
\* gate is one atomic look at the proofs and the clock (api.py gate).
THEOREM PromiseIsKept == Spec => KeepsPromise
BY PromiseInvInit, PromiseInvNext, InitRefines, NextRefines, PTL
   DEF Spec, KeepsPromise, Abstract!Promise
=============================================================================
