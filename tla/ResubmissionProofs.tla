------------------------- MODULE ResubmissionProofs -------------------------
(***************************************************************************)
(* Proofs about Resubmission: what holds of every evaluation, and of every *)
(* two that follow each other, whatever the caller submits.                *)
(***************************************************************************)
EXTENDS Resubmission, ReceiptProofs

---------------------------------------------------------------------------
(* What the state holds.                                                   *)

CallOK(c) ==
  /\ {"artifact", "evidence", "contract", "json_schema"} \subseteq DOMAIN c
  /\ c.json_schema \in Schemas \cup {FirstCall.json_schema}
  /\ HasPolicy(c)
  /\ c.artifact \in Artifacts
  /\ c.evidence \in Seq(DOMAIN Strip)

Evaluated(e) == e = Evaluation(e.call) /\ CallOK(e.call)

\* The state is the evaluations of two calls that have their shape.
StateInv == Evaluated(latest) /\ (previous = NULL \/ Evaluated(previous))

\* Every edit leaves the call in shape (api.py VerifyInput).
LEMMA PartKeepsShape ==
  ASSUME NEW c, CallOK(c), NEW part \in DOMAIN Parts, NEW value \in Parts[part]
  PROVE  CallOK([c EXCEPT ![part] = value])
<1> DEFINE d == [c EXCEPT ![part] = value]
<1>1. part # "contract" /\ DOMAIN d = DOMAIN c /\ d.contract = c.contract
  BY DEF Parts, CallOK
<1>2. d.artifact \in Artifacts
  BY DEF Parts, CallOK
<1>3. d.evidence \in Seq(DOMAIN Strip)
  BY CallAssumption DEF Parts, CallOK
<1>4. d.json_schema \in Schemas \cup {FirstCall.json_schema}
  BY DEF Parts, CallOK
<1> QED BY <1>1, <1>2, <1>3, <1>4 DEF CallOK, HasPolicy

\* Editing a field of the policy leaves a call of the same shape.
LEMMA FieldKeepsShape ==
  ASSUME NEW c, CallOK(c), NEW f \in DOMAIN PolicyParts, NEW value
  PROVE  CallOK([c EXCEPT !.contract[f] = value])
<1> DEFINE d == [c EXCEPT !.contract[f] = value]
           contract == [c.contract EXCEPT ![f] = value]
<1>1. /\ d.artifact = c.artifact /\ d.evidence = c.evidence /\ DOMAIN d = DOMAIN c
      /\ d.contract = contract /\ d.json_schema = c.json_schema
  BY DEF CallOK
<1>2. contract = [g \in PolicyFields |-> contract[g]]
  BY DEF HasPolicy, CallOK
<1> QED BY <1>1, <1>2 DEF HasPolicy, CallOK

\* An evaluation is of the call it was made for.
LEMMA EvaluationOf ==
  ASSUME NEW c, CallOK(c)
  PROVE  Evaluated(Evaluation(c))
BY DEF Evaluated, Evaluation

\* Submitting keeps what the state holds.
LEMMA StateInvKept == Spec => []StateInv
<1>1. Init => StateInv
  BY CallAssumption, EvaluationOf DEF Init, StateInv, CallOK
<1>2. StateInv /\ [Next]_svars => StateInv'
  <2> SUFFICES ASSUME StateInv, [Next]_svars PROVE StateInv'
    OBVIOUS
  <2>1. ASSUME NEW call, CallOK(call), Submit(call) PROVE StateInv'
    BY <2>1, EvaluationOf DEF Submit, StateInv, Evaluated
  <2>a. CallOK(latest.call)
    BY DEF StateInv, Evaluated
  <2>2. CASE UNCHANGED svars
    BY <2>2 DEF svars, StateInv, Evaluated
  <2> QED BY <2>1, <2>2, <2>a, PartKeepsShape, FieldKeepsShape DEF Next
<1> QED BY <1>1, <1>2, PTL DEF Spec

\* A receipt in the state was made by verify, for a call that is not refused.
LEMMA ReceiptOf ==
  ASSUME NEW e, Evaluated(e), HasReceipt(e)
  PROVE  /\ ~Rejects(e.call) /\ ~Breaks(e.call)
         /\ e.receipt = Verify(e.call, 0, SigningKey)
         /\ CallOK(e.call)
<1>1. e.status = Status(e.call)
      /\ e.receipt = IF Status(e.call) = 200 THEN Verify(e.call, 0, SigningKey) ELSE NULL
  BY DEF Evaluated, Evaluation
<1>2. Status(e.call) = 200
  BY <1>1 DEF HasReceipt
<1> QED BY <1>1, <1>2 DEF Evaluated, Status

\* Every receipt that is issued is accepted by its deployment, whatever policies,
\* schemas and evidence the caller tries (receipt_codec.py, core.py).
THEOREM ResubmissionIssuedIsAccepted ==
  ASSUME Distinct
  PROVE  Spec => []IssuedIsAccepted
<1>1. StateInv => IssuedIsAccepted
  <2> SUFFICES ASSUME StateInv, HasReceipt(latest)
               PROVE  Decodes(latest.receipt) /\ Intact(latest.receipt, SigningKey)
    BY DEF IssuedIsAccepted
  <2>1. ~Rejects(latest.call) /\ latest.receipt = Verify(latest.call, 0, SigningKey)
        /\ HasPolicy(latest.call)
    BY ReceiptOf DEF StateInv, CallOK
  <2> QED BY <2>1, VerifyIsAccepted
<1> QED BY <1>1, StateInvKept, PTL

---------------------------------------------------------------------------
(* The checks of a receipt.                                                *)

Core(call) == CoreChecks(call, Policy(call.contract))

ChecksOf(call) ==
  IF call.json_schema = NULL THEN Core(call)
  ELSE [c \in DOMAIN Core(call) \cup {"json_schema"} |->
          IF c = "json_schema" THEN SchemaCheck(call) ELSE Core(call)[c]]

\* The checks of a receipt depend on the call alone (core.py verify,
\* schema_verifier.py verify).
LEMMA ChecksOfVerify ==
  ASSUME NEW call, NEW clock, NEW key
  PROVE  Verify(call, clock, key).checks = ChecksOf(call)
<1> DEFINE base == CoreReceipt(call, clock, key)
<1>1. base.checks = Core(call)
  BY SealedFacts DEF CoreReceipt, Core
<1>2. base = [f \in ReceiptFields |-> base[f]]
  BY CoreReceiptIsGenuine DEF Genuine
<1>3. CASE call.json_schema = NULL
  BY <1>1, <1>3 DEF Verify, ChecksOf
<1>4. CASE call.json_schema # NULL
  <2> HIDE DEF base
  <2>1. SchemaReceipt(call, base, key).checks = AllChecks(call, base)
    <3> DEFINE checks == AllChecks(call, base)
               u == [base EXCEPT !.verdict = VerdictOf(checks), !.checks = checks,
                                 !.contract_sha256 = SchemaContractHash(call),
                                 !.blocking_reasons = Failing(checks, "BLOCK"),
                                 !.warnings = Failing(checks, "WARN")]
    <3> HIDE DEF checks
    <3>1. u.checks = checks
      BY <1>2 DEF ReceiptFields
    <3>2. SchemaReceipt(call, base, key) = Sealed(u, key)
      BY DEF SchemaReceipt, checks
    <3> HIDE DEF u
    <3> QED BY <3>1, <3>2, SealedFacts DEF checks
  <2>2. Verify(call, clock, key) = SchemaReceipt(call, base, key)
    BY <1>4 DEF Verify, base
  <2> QED BY <1>1, <1>4, <2>1, <2>2 DEF AllChecks, ChecksOf
<1> QED BY <1>3, <1>4

Codes ==
  {"artifact_size", "contract_json", "required_json_fields", "required_strings",
   "forbidden_strings", "evidence_minimum", "prompt_injection", "secret_exposure",
   "suspicious_urls", "parent_receipt"}

\* Which checks a core receipt has, and what they say (core.py verify).
LEMMA CoreFacts ==
  ASSUME NEW call
  PROVE  LET p == Policy(call.contract) IN
         /\ DOMAIN Core(call) = {c \in Codes : Applies(p)[c]}
         /\ \A c \in DOMAIN Core(call) :
              /\ Core(call)[c].passed = Passes(call, p)[c] /\ Core(call)[c].level = Level(p, c)
              /\ Core(call)[c].detail = Detail(call, p)[c]
<1>1. \A p : DOMAIN Applies(p) = Codes
  BY DEF Applies, Codes
<1> QED BY <1>1 DEF Core, CoreChecks

\* A schema adds a check and leaves the others as they are.
LEMMA ChecksKeepCore ==
  ASSUME NEW call
  PROVE  /\ DOMAIN Core(call) \subseteq DOMAIN ChecksOf(call)
         /\ DOMAIN ChecksOf(call) \subseteq Codes \cup {"json_schema"}
         /\ \A c \in DOMAIN Core(call) : ChecksOf(call)[c] = Core(call)[c]
         /\ "json_schema" \in DOMAIN ChecksOf(call) <=> call.json_schema # NULL
         /\ call.json_schema # NULL => ChecksOf(call)["json_schema"] = SchemaCheck(call)
<1>1. DOMAIN Core(call) \subseteq Codes /\ "json_schema" \notin Codes
  BY CoreFacts DEF Codes
<1> QED BY <1>1 DEF ChecksOf

\* No call gets PASS for an artifact with an indicator (core.py verify): the
\* three checks apply to every call, and their level is BLOCK or WARN.
THEOREM ResubmissionIndicatorsNeverPass == Spec => []IndicatorsNeverPass
<1>1. ASSUME NEW call, NEW seen, seen = Content[call.artifact],
             seen.injection \/ seen.secret \/ seen.urls
      PROVE  VerdictOf(ChecksOf(call)) # "PASS"
  <2> DEFINE p == Policy(call.contract)
  <2>1. \A c \in {"prompt_injection", "secret_exposure", "suspicious_urls"} :
          c \in Codes /\ Applies(p)[c] /\ Level(p, c) \in {"BLOCK", "WARN"}
    BY DEF Codes, Applies, Level
  <2>2. \E c \in {"prompt_injection", "secret_exposure", "suspicious_urls"} : ~Passes(call, p)[c]
    BY <1>1 DEF Passes
  <2>3. PICK c \in DOMAIN Core(call) :
          ~Core(call)[c].passed /\ Core(call)[c].level \in {"BLOCK", "WARN"}
    <3> HIDE DEF p
    <3>1. PICK c \in Codes : Applies(p)[c] /\ ~Passes(call, p)[c] /\ Level(p, c) \in {"BLOCK", "WARN"}
      BY <2>1, <2>2
    <3>2. c \in DOMAIN Core(call)
      BY <3>1, CoreFacts DEF p
    <3>3. Core(call)[c].passed = Passes(call, p)[c] /\ Core(call)[c].level = Level(p, c)
      BY <3>2, CoreFacts DEF p
    <3> QED BY <3>1, <3>2, <3>3
  <2>4. c \in Failing(ChecksOf(call), "BLOCK") \cup Failing(ChecksOf(call), "WARN")
    BY <2>3, ChecksKeepCore DEF Failing
  <2> QED BY <2>4 DEF VerdictOf
<1>2. StateInv => IndicatorsNeverPass
  <2> SUFFICES ASSUME StateInv, HasReceipt(latest)
               PROVE  LET seen == Content[latest.call.artifact] IN
                      (seen.injection \/ seen.secret \/ seen.urls)
                      => latest.receipt.verdict # "PASS"
    BY DEF IndicatorsNeverPass
  <2>1. latest.receipt = Verify(latest.call, 0, SigningKey)
    BY ReceiptOf DEF StateInv
  <2>2. latest.receipt.verdict = VerdictOf(ChecksOf(latest.call))
    BY <2>1, VerifyIsGenuine, ChecksOfVerify DEF Genuine
  <2> QED BY <1>1, <2>2
<1> QED BY <1>2, StateInvKept, PTL

---------------------------------------------------------------------------
(* Stricter calls.                                                         *)

\* The numbers of a contract within bounds survive normalisation as numbers
\* (core.py _bounded_int).
LEMMA PolicyNumbers ==
  ASSUME NEW c, HasPolicy(c), WithinBounds(c.contract)
  PROVE  LET p == Policy(c.contract) IN
         p.min_evidence_items \in Nat /\ p.max_artifact_bytes \in Nat
<1>1. /\ Policy(c.contract).min_evidence_items = c.contract.min_evidence_items
      /\ Policy(c.contract).max_artifact_bytes = c.contract.max_artifact_bytes
  BY PolicyFacts DEF PolicyFields
<1>2. c.contract.min_evidence_items \in Nat /\ c.contract.max_artifact_bytes \in Nat
  BY DEF WithinBounds
<1> QED BY <1>1, <1>2

\* When each check applies, and when it passes (core.py verify).
LEMMA AppliesAt ==
  ASSUME NEW p
  PROVE  /\ Applies(p)["artifact_size"] /\ Applies(p)["parent_receipt"]
         /\ Applies(p)["prompt_injection"] /\ Applies(p)["secret_exposure"]
         /\ Applies(p)["suspicious_urls"]
         /\ Applies(p)["contract_json"] <=> ChecksJson(p)
         /\ Applies(p)["required_json_fields"] <=> p.required_json_fields # {}
         /\ Applies(p)["required_strings"] <=> p.required_strings # {}
         /\ Applies(p)["forbidden_strings"] <=> p.forbidden_strings # {}
         /\ Applies(p)["evidence_minimum"] <=> p.min_evidence_items > 0
BY DEF Applies

\* Each check at its name (core.py verify).
LEMMA PassesAt ==
  ASSUME NEW call, NEW p
  PROVE  LET seen == Content[call.artifact]
             pass == Passes(call, p)
         IN /\ pass["artifact_size"] <=> seen.size <= p.max_artifact_bytes
            /\ pass["contract_json"] <=> seen.json = "object"
            /\ pass["required_json_fields"] <=>
                 seen.json = "object" /\ p.required_json_fields \subseteq seen.fields
            /\ pass["required_strings"] <=> p.required_strings \subseteq seen.strings
            /\ pass["forbidden_strings"] <=> p.forbidden_strings \cap seen.strings = {}
            /\ pass["evidence_minimum"] <=>
                 Len(CleanEvidence(call.evidence)) >= p.min_evidence_items
            /\ pass["prompt_injection"] <=> ~seen.injection
            /\ pass["secret_exposure"] <=> ~seen.secret
            /\ pass["suspicious_urls"] <=> ~seen.urls
            /\ pass["parent_receipt"]
BY DEF Passes

\* What a stricter call passes, a laxer one passes; it has every check the laxer
\* one has, at no lower level.
LEMMA StricterChecks ==
  ASSUME NEW c, NEW d, CallOK(c), CallOK(d), Stricter(c, d),
         WithinBounds(c.contract), WithinBounds(d.contract)
  PROVE  LET p == Policy(c.contract)  q == Policy(d.contract) IN
         \A x \in Codes :
           /\ Applies(q)[x] => Applies(p)[x]
           /\ Passes(c, p)[x] => Passes(d, q)[x]
           /\ Level(q, x) = "BLOCK" => Level(p, x) = "BLOCK"
           /\ Level(q, x) = "WARN" => Level(p, x) \in {"WARN", "BLOCK"}
<1> DEFINE p == Policy(c.contract)
           q == Policy(d.contract)
<1>1. /\ c.artifact = d.artifact
      /\ Len(CleanEvidence(c.evidence)) <= Len(CleanEvidence(d.evidence))
      /\ q.require_json => p.require_json
      /\ q.required_json_fields \subseteq p.required_json_fields
      /\ q.required_strings \subseteq p.required_strings
      /\ q.forbidden_strings \subseteq p.forbidden_strings
      /\ q.min_evidence_items <= p.min_evidence_items
      /\ p.max_artifact_bytes <= q.max_artifact_bytes
      /\ q.block_on_prompt_injection => p.block_on_prompt_injection
      /\ q.block_on_secret_exposure => p.block_on_secret_exposure
  BY DEF Stricter
<1>2. /\ p.min_evidence_items \in Nat /\ p.max_artifact_bytes \in Nat
      /\ q.min_evidence_items \in Nat /\ q.max_artifact_bytes \in Nat
      /\ Len(CleanEvidence(c.evidence)) \in Nat /\ Len(CleanEvidence(d.evidence)) \in Nat
      /\ Content[c.artifact].size \in Nat
  BY PolicyNumbers, ContentAssumption, CleanEvidenceIsList DEF CallOK
<1> HIDE DEF p, q
<1>3. ASSUME NEW x \in Codes PROVE Applies(q)[x] => Applies(p)[x]
  <2>1. ChecksJson(q) => ChecksJson(p)
    BY <1>1 DEF ChecksJson
  <2>2. q.min_evidence_items > 0 => p.min_evidence_items > 0
    BY <1>1, <1>2
  <2> QED BY <1>1, <2>1, <2>2, AppliesAt DEF Codes
<1>4. ASSUME NEW x \in Codes PROVE Passes(c, p)[x] => Passes(d, q)[x]
  <2>1. CASE x \in {"artifact_size", "evidence_minimum"}
    <3>1. Content[d.artifact].size \in Nat /\ Content[d.artifact].size = Content[c.artifact].size
      BY <1>1, <1>2
    <3>2. Content[c.artifact].size <= p.max_artifact_bytes
            => Content[d.artifact].size <= q.max_artifact_bytes
      BY <1>1, <1>2, <3>1
    <3>3. Len(CleanEvidence(c.evidence)) >= p.min_evidence_items
            => Len(CleanEvidence(d.evidence)) >= q.min_evidence_items
      BY <1>1, <1>2
    <3> QED BY <2>1, <3>2, <3>3, PassesAt
  <2>2. CASE x \in {"contract_json", "required_json_fields", "required_strings",
                     "forbidden_strings"}
    BY <1>1, <2>2, PassesAt
  <2>3. CASE x \in {"prompt_injection", "secret_exposure", "suspicious_urls", "parent_receipt"}
    BY <1>1, <2>3, PassesAt
  <2> QED BY <2>1, <2>2, <2>3 DEF Codes
<1>5. ASSUME NEW x \in Codes
      PROVE  /\ Level(q, x) = "BLOCK" => Level(p, x) = "BLOCK"
             /\ Level(q, x) = "WARN" => Level(p, x) \in {"WARN", "BLOCK"}
  BY <1>1 DEF Level, Codes
<1> QED BY <1>3, <1>4, <1>5 DEF p, q

\* So what fails in the laxer call fails in the stricter one, no less severely.
LEMMA StricterFails ==
  ASSUME NEW c, NEW d, CallOK(c), CallOK(d), Stricter(c, d),
         WithinBounds(c.contract), WithinBounds(d.contract)
  PROVE  /\ Failing(ChecksOf(d), "BLOCK") \subseteq Failing(ChecksOf(c), "BLOCK")
         /\ Failing(ChecksOf(d), "WARN")
              \subseteq Failing(ChecksOf(c), "WARN") \cup Failing(ChecksOf(c), "BLOCK")
<1> SUFFICES ASSUME NEW x \in DOMAIN ChecksOf(d), ~ChecksOf(d)[x].passed
             PROVE  /\ x \in DOMAIN ChecksOf(c) /\ ~ChecksOf(c)[x].passed
                    /\ ChecksOf(d)[x].level = "BLOCK" => ChecksOf(c)[x].level = "BLOCK"
                    /\ ChecksOf(d)[x].level = "WARN" => ChecksOf(c)[x].level \in {"WARN", "BLOCK"}
  BY DEF Failing
<1>1. CASE x = "json_schema"
  <2>1. d.json_schema # NULL /\ d.json_schema = c.json_schema /\ d.artifact = c.artifact
    BY <1>1, ChecksKeepCore DEF Stricter
  <2>2. SchemaCheck(c) = SchemaCheck(d)
    BY <2>1 DEF SchemaCheck, SchemaSays
  <2> QED BY <1>1, <2>1, <2>2, ChecksKeepCore
<1>2. CASE x # "json_schema"
  <2> DEFINE p == Policy(c.contract)
             q == Policy(d.contract)
  <2>1. x \in DOMAIN Core(d) /\ ChecksOf(d)[x] = Core(d)[x]
    BY <1>2 DEF ChecksOf
  <2>2. x \in Codes /\ Applies(q)[x]
    BY <2>1, CoreFacts
  <2>a. Applies(p)[x]
    BY <2>2, StricterChecks
  <2>b. x \in DOMAIN Core(c)
    BY <2>2, <2>a, CoreFacts
  <2>3. x \in DOMAIN Core(c) /\ ChecksOf(c)[x] = Core(c)[x] /\ x \in DOMAIN ChecksOf(c)
    BY <2>b, ChecksKeepCore
  <2>4. /\ Core(d)[x].passed = Passes(d, q)[x] /\ Core(d)[x].level = Level(q, x)
        /\ Core(c)[x].passed = Passes(c, p)[x] /\ Core(c)[x].level = Level(p, x)
    BY <2>1, <2>3, CoreFacts
  <2>5. /\ Passes(c, p)[x] => Passes(d, q)[x]
        /\ Level(q, x) = "BLOCK" => Level(p, x) = "BLOCK"
        /\ Level(q, x) = "WARN" => Level(p, x) \in {"WARN", "BLOCK"}
    BY <2>2, StricterChecks
  <2> HIDE DEF p, q
  <2> QED BY <2>1, <2>3, <2>4, <2>5
<1> QED BY <1>1, <1>2

\* A stricter contract, an added schema or withdrawn evidence never improves the
\* verdict and drops no reason to block (core.py, schema_verifier.py verify).
THEOREM ResubmissionStricterNeverBetter == Spec => []StricterNeverBetter
<1>1. StateInv => StricterNeverBetter
  <2> SUFFICES ASSUME StateInv, HasReceipt(previous), HasReceipt(latest),
                      Stricter(latest.call, previous.call)
               PROVE  /\ Severity(latest.receipt) >= Severity(previous.receipt)
                      /\ previous.receipt.blocking_reasons \subseteq latest.receipt.blocking_reasons
    BY DEF StricterNeverBetter
  <2> DEFINE c == ChecksOf(latest.call)
             d == ChecksOf(previous.call)
  <2>1. Evaluated(latest) /\ Evaluated(previous)
    BY DEF StateInv, HasReceipt
  <2>2. /\ CallOK(latest.call) /\ CallOK(previous.call)
        /\ WithinBounds(latest.call.contract) /\ WithinBounds(previous.call.contract)
        /\ latest.receipt = Verify(latest.call, 0, SigningKey)
        /\ previous.receipt = Verify(previous.call, 0, SigningKey)
    BY <2>1, ReceiptOf DEF Rejects
  <2>3. /\ latest.receipt.verdict = VerdictOf(c) /\ previous.receipt.verdict = VerdictOf(d)
        /\ latest.receipt.blocking_reasons = Failing(c, "BLOCK")
        /\ previous.receipt.blocking_reasons = Failing(d, "BLOCK")
    BY <2>2, VerifyIsGenuine, ChecksOfVerify DEF Genuine
  <2>4. /\ Failing(d, "BLOCK") \subseteq Failing(c, "BLOCK")
        /\ Failing(d, "WARN") \subseteq Failing(c, "WARN") \cup Failing(c, "BLOCK")
    BY <2>2, StricterFails
  <2> HIDE DEF c, d
  <2> QED BY <2>3, <2>4 DEF VerdictOf, Severity
<1> QED BY <1>1, StateInvKept, PTL

---------------------------------------------------------------------------
(* What was checked can be reconstructed.                                  *)

\* Digests of evidence lists are equal only when the lists are as long.
LEMMA SameEvidence ==
  ASSUME NEW S, NEW k \in Seq(S), NEW l \in Seq(S),
         [i \in DOMAIN k |-> Sha256(k[i])] = [i \in DOMAIN l |-> Sha256(l[i])]
  PROVE  Len(k) = Len(l)
<1>1. DOMAIN k = DOMAIN l
  <2>1. DOMAIN [i \in DOMAIN k |-> Sha256(k[i])] = DOMAIN [i \in DOMAIN l |-> Sha256(l[i])]
    OBVIOUS
  <2> QED BY <2>1
<1> QED BY <1>1

\* The contract and evidence digests of a receipt (core.py verify,
\* schema_verifier.py verify).
LEMMA DigestsOfVerify ==
  ASSUME NEW call, NEW clock, NEW key
  PROVE  LET r == Verify(call, clock, key)
             kept == CleanEvidence(call.evidence)
         IN /\ r.contract_sha256 = IF call.json_schema = NULL THEN Sha256(Policy(call.contract))
                                   ELSE SchemaContractHash(call)
            /\ r.evidence_sha256 = [i \in DOMAIN kept |-> Sha256(kept[i])]
            /\ r.parent_receipt_sha256 = call.parent_receipt_sha256
<1> DEFINE base == CoreReceipt(call, clock, key)
           kept == CleanEvidence(call.evidence)
           policy == Policy(call.contract)
           checks == CoreChecks(call, policy)
           u == [created_at            |-> clock,
                 expires_at            |-> clock + policy.receipt_ttl,
                 verdict               |-> VerdictOf(checks),
                 artifact_sha256       |-> Sha256(call.artifact),
                 contract_sha256       |-> Sha256(policy),
                 evidence_sha256       |-> [i \in DOMAIN kept |-> Sha256(kept[i])],
                 parent_receipt_sha256 |-> call.parent_receipt_sha256,
                 checks                |-> checks,
                 blocking_reasons      |-> Failing(checks, "BLOCK"),
                 warnings              |-> Failing(checks, "WARN"),
                 not_verified          |-> NotVerified]
<1>1. base = Sealed(u, key)
  BY DEF CoreReceipt
<1>2. /\ u.contract_sha256 = Sha256(policy)
      /\ u.evidence_sha256 = [i \in DOMAIN kept |-> Sha256(kept[i])]
      /\ u.parent_receipt_sha256 = call.parent_receipt_sha256
  OBVIOUS
<1>3. base = [f \in ReceiptFields |-> base[f]]
  BY CoreReceiptIsGenuine DEF Genuine
<1> HIDE DEF base, u
<1>4. /\ base.contract_sha256 = Sha256(policy)
      /\ base.evidence_sha256 = [i \in DOMAIN kept |-> Sha256(kept[i])]
      /\ base.parent_receipt_sha256 = call.parent_receipt_sha256
  BY <1>1, <1>2, SealedCopies
<1>5. /\ SchemaReceipt(call, base, key).contract_sha256 = SchemaContractHash(call)
      /\ SchemaReceipt(call, base, key).evidence_sha256 = base.evidence_sha256
      /\ SchemaReceipt(call, base, key).parent_receipt_sha256 = base.parent_receipt_sha256
  BY <1>3, SMTT(30) DEF SchemaReceipt, Sealed, ReceiptFields
<1>6. Verify(call, clock, key)
        = IF call.json_schema = NULL THEN base ELSE SchemaReceipt(call, base, key)
  BY DEF Verify, base
<1> QED BY <1>4, <1>5, <1>6

\* Nothing is told apart by sorting the keys of two schemas.
SameSchema(c, d) ==
  /\ c.json_schema = NULL <=> d.json_schema = NULL
  /\ c.json_schema # NULL => c.json_schema.sorted = d.json_schema.sorted

\* Equal contract digests are of equal policies and of schemas that differ in the
\* order of keys at most: the digest of a policy alone is not the digest of a
\* policy with a schema.
LEMMA SameContract ==
  ASSUME NEW c, NEW d, HasPolicy(c), HasPolicy(d),
         (IF c.json_schema = NULL THEN Sha256(Policy(c.contract)) ELSE SchemaContractHash(c))
           = (IF d.json_schema = NULL THEN Sha256(Policy(d.contract)) ELSE SchemaContractHash(d))
  PROVE  Policy(c.contract) = Policy(d.contract) /\ SameSchema(c, d)
<1> DEFINE p == Policy(c.contract)
           q == Policy(d.contract)
           ps == [policy |-> p, json_schema |-> c.json_schema.sorted]
           qs == [policy |-> q, json_schema |-> d.json_schema.sorted]
<1>1. "require_json" \in DOMAIN p /\ "require_json" \in DOMAIN q
  BY PolicyFacts DEF PolicyFields
<1>2. "require_json" \notin DOMAIN ps /\ "require_json" \notin DOMAIN qs
  OBVIOUS
<1>3. SchemaContractHash(c) = Sha256(ps) /\ SchemaContractHash(d) = Sha256(qs)
  BY DEF SchemaContractHash
<1>4. ps.policy = p /\ qs.policy = q /\ ps.json_schema = c.json_schema.sorted
      /\ qs.json_schema = d.json_schema.sorted
  OBVIOUS
<1> HIDE DEF p, q, ps, qs
<1>5. (IF c.json_schema = NULL THEN Sha256(p) ELSE Sha256(ps))
        = (IF d.json_schema = NULL THEN Sha256(q) ELSE Sha256(qs))
  BY <1>3 DEF p, q
<1>6. p # qs /\ ps # q
  BY <1>1, <1>2
<1>7. p = q /\ SameSchema(c, d)
  BY <1>4, <1>5, <1>6, Injective DEF SameSchema
<1> QED BY <1>7 DEF p, q

\* Two checks say the same, the order of violations and the parent aside.
SameCheck(c, d, code) ==
  /\ ChecksOf(c)[code].passed = ChecksOf(d)[code].passed
  /\ ChecksOf(c)[code].level = ChecksOf(d)[code].level
  /\ \/ ChecksOf(c)[code].detail = ChecksOf(d)[code].detail
     \/ code = "parent_receipt" /\ c.parent_receipt_sha256 # d.parent_receipt_sha256
     \/ code = "json_schema" /\ c.json_schema # d.json_schema

\* The detail of a core check depends on artifact, policy and how much evidence
\* is left; that of the parent check on the parent (core.py verify).
LEMMA SameDetail ==
  ASSUME NEW c, NEW d, NEW p, c.artifact = d.artifact,
         Len(CleanEvidence(c.evidence)) = Len(CleanEvidence(d.evidence)), NEW code \in Codes,
         code # "parent_receipt" \/ c.parent_receipt_sha256 = d.parent_receipt_sha256
  PROVE  Detail(c, p)[code] = Detail(d, p)[code]
<1>1. CASE c.parent_receipt_sha256 = d.parent_receipt_sha256
  BY <1>1 DEF Detail
<1>2. CASE code \in {"artifact_size", "contract_json", "prompt_injection", "secret_exposure",
                    "suspicious_urls"}
  <2>1. /\ Detail(c, p).artifact_size = Detail(d, p).artifact_size
        /\ Detail(c, p).contract_json = Detail(d, p).contract_json
    BY DEF Detail
  <2>2. /\ Detail(c, p).prompt_injection = Detail(d, p).prompt_injection
        /\ Detail(c, p).secret_exposure = Detail(d, p).secret_exposure
        /\ Detail(c, p).suspicious_urls = Detail(d, p).suspicious_urls
    BY DEF Detail
  <2> QED BY <1>2, <2>1, <2>2
<1>3. CASE code \in {"required_json_fields", "required_strings", "forbidden_strings",
                    "evidence_minimum"}
  <2>1. Detail(c, p).required_json_fields = Detail(d, p).required_json_fields
    BY DEF Detail
  <2>2. /\ Detail(c, p).required_strings = Detail(d, p).required_strings
        /\ Detail(c, p).forbidden_strings = Detail(d, p).forbidden_strings
    BY DEF Detail
  <2>3. Detail(c, p).evidence_minimum = Detail(d, p).evidence_minimum
    BY DEF Detail
  <2> QED BY <1>3, <2>1, <2>2, <2>3
<1> QED BY <1>1, <1>2, <1>3 DEF Codes

\* The schema check passes in every order of the schema's keys or in none, in
\* which validating ends (schema_verifier.py _validate_schema_contract).
LEMMA SameSchemaCheck ==
  ASSUME NEW c, NEW d, CallOK(c), CallOK(d), ~Breaks(c), ~Breaks(d),
         c.artifact = d.artifact, c.json_schema # NULL, SameSchema(c, d)
  PROVE  /\ SchemaCheck(c).passed = SchemaCheck(d).passed
         /\ SchemaCheck(c).level = SchemaCheck(d).level
<1> DEFINE s == c.json_schema
           t == d.json_schema
           a == c.artifact
<1>1. /\ s \in (Schemas \cup {FirstCall.json_schema}) \ {NULL}
      /\ t \in (Schemas \cup {FirstCall.json_schema}) \ {NULL}
      /\ s.sorted = t.sorted /\ a \in Artifacts
  BY DEF CallOK, SameSchema
<1>2. /\ s.valid = t.valid
      /\ a \notin s.raises \cup t.raises => (a \in s.accepts <=> a \in t.accepts)
  BY <1>1, SchemaAssumption
<1>3. (s.valid /\ Content[a].json # "invalid") => a \notin s.raises \cup t.raises
  BY <1>1, <1>2 DEF Breaks, UsesSchema
<1>4. SchemaSays(c) = SchemaSays(d)
  BY <1>2, <1>3 DEF SchemaSays
<1>5. ASSUME NEW e
      PROVE  /\ SchemaCheck(e).passed = (SchemaSays(e) = "satisfied")
             /\ SchemaCheck(e).level = "BLOCK"
  BY DEF SchemaCheck
<1>6. (SchemaSays(c) = "satisfied") = (SchemaSays(d) = "satisfied")
  BY <1>4
<1> QED BY <1>5, <1>6

\* core.py: two receipts with the same artifact, contract and evidence digests
\* have the same verdict from the same checks, which say the same, the parent and
\* the order of the schema's violations aside.
THEOREM ResubmissionReconstructible == Spec => []Reconstructible
<1>1. ASSUME NEW c, NEW d, CallOK(c), CallOK(d), ~Breaks(c), ~Breaks(d),
             c.artifact = d.artifact, Policy(c.contract) = Policy(d.contract), SameSchema(c, d),
             Len(CleanEvidence(c.evidence)) = Len(CleanEvidence(d.evidence))
      PROVE  /\ DOMAIN ChecksOf(c) = DOMAIN ChecksOf(d)
             /\ \A code \in DOMAIN ChecksOf(c) : SameCheck(c, d, code)
  <2> DEFINE p == Policy(c.contract)
  <2>1. Passes(c, p) = Passes(d, p)
    BY <1>1 DEF Passes
  <2>2. DOMAIN Core(c) = DOMAIN Core(d)
    BY <1>1, CoreFacts
  <2>3. DOMAIN ChecksOf(c) = DOMAIN ChecksOf(d)
    BY <1>1, <2>2 DEF ChecksOf, SameSchema
  <2>4. ASSUME NEW code \in DOMAIN Core(c) PROVE SameCheck(c, d, code)
    <3>1. code \in Codes /\ code \in DOMAIN Core(d)
      BY <2>2, <2>4, CoreFacts
    <3>2. ChecksOf(c)[code] = Core(c)[code] /\ ChecksOf(d)[code] = Core(d)[code]
      BY <2>4, <3>1, ChecksKeepCore
    <3>3. /\ Core(c)[code].passed = Passes(c, p)[code] /\ Core(c)[code].level = Level(p, code)
          /\ Core(c)[code].detail = Detail(c, p)[code]
      BY <2>4, CoreFacts
    <3>4. /\ Core(d)[code].passed = Passes(d, p)[code] /\ Core(d)[code].level = Level(p, code)
          /\ Core(d)[code].detail = Detail(d, p)[code]
      <4> DEFINE q == Policy(d.contract)
      <4>1. /\ Core(d)[code].passed = Passes(d, q)[code] /\ Core(d)[code].level = Level(q, code)
            /\ Core(d)[code].detail = Detail(d, q)[code]
        BY <3>1, CoreFacts
      <4>2. p = q
        BY <1>1
      <4> HIDE DEF p, q
      <4> QED BY <4>1, <4>2
    <3>5. \/ Detail(c, p)[code] = Detail(d, p)[code]
          \/ code = "parent_receipt" /\ c.parent_receipt_sha256 # d.parent_receipt_sha256
      <4> HIDE DEF p
      <4> QED BY <1>1, <3>1, SameDetail
    <3> HIDE DEF p
    <3> QED BY <2>1, <3>2, <3>3, <3>4, <3>5 DEF SameCheck
  <2>5. ASSUME c.json_schema # NULL PROVE SameCheck(c, d, "json_schema")
    <3>1. d.json_schema # NULL
      BY <1>1, <2>5 DEF SameSchema
    <3>2. /\ ChecksOf(c)["json_schema"] = SchemaCheck(c)
          /\ ChecksOf(d)["json_schema"] = SchemaCheck(d)
      BY <2>5, <3>1, ChecksKeepCore
    <3>3. c.json_schema = d.json_schema => SchemaCheck(c) = SchemaCheck(d)
      BY <1>1 DEF SchemaCheck, SchemaSays
    <3> QED BY <1>1, <2>5, <3>2, <3>3, SameSchemaCheck DEF SameCheck
  <2>6. ASSUME NEW code \in DOMAIN ChecksOf(c) PROVE SameCheck(c, d, code)
    <3>1. code \in DOMAIN Core(c) \/ (code = "json_schema" /\ c.json_schema # NULL)
      BY <2>6 DEF ChecksOf
    <3> QED BY <2>4, <2>5, <3>1
  <2> QED BY <2>3, <2>6
<1>2. ASSUME NEW checks, NEW others, DOMAIN checks = DOMAIN others,
             \A code \in DOMAIN checks : /\ checks[code].passed = others[code].passed
                                       /\ checks[code].level = others[code].level
      PROVE  VerdictOf(checks) = VerdictOf(others)
  <2>1. \A level : Failing(checks, level) = Failing(others, level)
    BY <1>2 DEF Failing
  <2> QED BY <2>1 DEF VerdictOf
<1>3. StateInv => Reconstructible
  <2> SUFFICES ASSUME StateInv, HasReceipt(previous), HasReceipt(latest),
                      previous.receipt.artifact_sha256 = latest.receipt.artifact_sha256,
                      previous.receipt.contract_sha256 = latest.receipt.contract_sha256,
                      previous.receipt.evidence_sha256 = latest.receipt.evidence_sha256
               PROVE  LET r == previous.receipt  s == latest.receipt IN
                      /\ r.verdict = s.verdict
                      /\ DOMAIN r.checks = DOMAIN s.checks
                      /\ \A code \in DOMAIN r.checks :
                           /\ r.checks[code].passed = s.checks[code].passed
                           /\ r.checks[code].level = s.checks[code].level
                           /\ \/ r.checks[code].detail = s.checks[code].detail
                              \/ /\ code = "parent_receipt"
                                 /\ r.parent_receipt_sha256 # s.parent_receipt_sha256
                              \/ /\ code = "json_schema"
                                 /\ previous.call.json_schema # latest.call.json_schema
    BY DEF Reconstructible
  <2> DEFINE c == previous.call
             d == latest.call
             Hash(x) == IF x.json_schema = NULL THEN Sha256(Policy(x.contract))
                        ELSE SchemaContractHash(x)
             Digests(list) == [i \in DOMAIN list |-> Sha256(list[i])]
             k == CleanEvidence(c.evidence)
             l == CleanEvidence(d.evidence)
  <2>1. Evaluated(latest) /\ Evaluated(previous)
    BY DEF StateInv, HasReceipt
  <2>2. /\ CallOK(c) /\ CallOK(d) /\ ~Breaks(c) /\ ~Breaks(d)
        /\ previous.receipt = Verify(c, 0, SigningKey)
        /\ latest.receipt = Verify(d, 0, SigningKey)
    BY <2>1, ReceiptOf
  <2>3. Genuine(c, previous.receipt) /\ Genuine(d, latest.receipt)
    BY <2>2, VerifyIsGenuine
  <2>4. c.artifact = d.artifact
    BY <2>3, Injective DEF Genuine
  <2>5. /\ previous.receipt.contract_sha256 = Hash(c) /\ latest.receipt.contract_sha256 = Hash(d)
        /\ previous.receipt.evidence_sha256 = Digests(k)
        /\ latest.receipt.evidence_sha256 = Digests(l)
        /\ previous.receipt.parent_receipt_sha256 = c.parent_receipt_sha256
        /\ latest.receipt.parent_receipt_sha256 = d.parent_receipt_sha256
    BY <2>2, DigestsOfVerify
  <2>6. Hash(c) = Hash(d) /\ Digests(k) = Digests(l)
    BY <2>5
  <2>7. Policy(c.contract) = Policy(d.contract) /\ SameSchema(c, d)
    <3>1. HasPolicy(c) /\ HasPolicy(d)
      BY <2>2 DEF CallOK
    <3> QED BY <2>6, <3>1, SameContract
  <2>8. Len(k) = Len(l)
    <3>1. k \in Seq(DOMAIN Strip) /\ l \in Seq(DOMAIN Strip)
      <4>1. c.evidence \in Seq(DOMAIN Strip) /\ d.evidence \in Seq(DOMAIN Strip)
        BY <2>2 DEF CallOK
      <4> QED BY <4>1, CleanEvidenceIsList
    <3> HIDE DEF k, l
    <3> QED BY <2>6, <3>1, SameEvidence
  <2>9. previous.receipt.checks = ChecksOf(c) /\ latest.receipt.checks = ChecksOf(d)
    BY <2>2, ChecksOfVerify
  <2>10. /\ DOMAIN ChecksOf(c) = DOMAIN ChecksOf(d)
         /\ \A code \in DOMAIN ChecksOf(c) : SameCheck(c, d, code)
    BY <1>1, <2>2, <2>4, <2>7, <2>8
  <2>11. previous.receipt.verdict = latest.receipt.verdict
    <3>1. /\ previous.receipt.verdict = VerdictOf(ChecksOf(c))
          /\ latest.receipt.verdict = VerdictOf(ChecksOf(d))
      BY <2>3, <2>9 DEF Genuine
    <3> QED BY <1>2, <2>10, <3>1 DEF SameCheck
  <2> QED BY <2>5, <2>9, <2>10, <2>11 DEF SameCheck
<1> QED BY <1>3, StateInvKept, PTL

---------------------------------------------------------------------------
(* What could not be evaluated.                                            *)

\* An artifact a call could not be evaluated on gets no receipt from a stricter
\* call: what one layer stumbles over, no other layer hides (core.py verify,
\* schema_verifier.py verify).
THEOREM ResubmissionStricterStaysRefused == Spec => []StricterStaysRefused
<1>1. ASSUME NEW c, NEW d, Stricter(c, d), WellFormed(d), Rejects(d) \/ Breaks(d)
      PROVE  Rejects(c) \/ Breaks(c)
  <2> DEFINE p == Policy(c.contract)
             q == Policy(d.contract)
             json == Content[c.artifact].json
  <2>1. c.artifact = d.artifact
    BY <1>1 DEF Stricter
  <2>2. ChecksJson(q) => ChecksJson(p)
    BY <1>1 DEF Stricter, ChecksJson
  <2>3. UsesSchema(d) => UsesSchema(c) /\ c.json_schema = d.json_schema
    BY <1>1 DEF Stricter, UsesSchema
  <2>4. \/ json \in {"oversized", "nested"} /\ (ChecksJson(q) \/ UsesSchema(d))
        \/ UsesSchema(d) /\ json # "invalid" /\ d.artifact \in d.json_schema.raises
    BY <1>1, <2>1 DEF Rejects, Breaks, WellFormed
  <2> HIDE DEF p, q
  <2>5. CASE json \in {"oversized", "nested"} /\ (ChecksJson(q) \/ UsesSchema(d))
    BY <2>2, <2>3, <2>5 DEF Rejects, Breaks, p
  <2>6. CASE UsesSchema(d) /\ json # "invalid" /\ d.artifact \in d.json_schema.raises
    BY <2>1, <2>3, <2>6 DEF Breaks
  <2> QED BY <2>4, <2>5, <2>6
<1>2. StateInv => StricterStaysRefused
  <2> SUFFICES ASSUME StateInv, previous # NULL, ~HasReceipt(previous),
                      WellFormed(previous.call), Stricter(latest.call, previous.call)
               PROVE  ~HasReceipt(latest)
    BY DEF StricterStaysRefused
  <2>1. Evaluated(latest) /\ Evaluated(previous)
    BY DEF StateInv
  <2>2. Rejects(previous.call) \/ Breaks(previous.call)
    BY <2>1 DEF Evaluated, Evaluation, Status, HasReceipt
  <2>3. Rejects(latest.call) \/ Breaks(latest.call)
    BY <1>1, <2>2
  <2> QED BY <2>1, <2>3, ReceiptOf
<1> QED BY <1>2, StateInvKept, PTL

\* Every evaluation has one of three outcomes, and a receipt is bound to the
\* artifact of its call and lives on (api.py verify, core.py verify).
THEOREM ResubmissionTypeCorrect ==
  ASSUME Distinct
  PROVE  Spec => []TypeOK
<1>1. StateInv => TypeOK
  <2> SUFFICES ASSUME StateInv PROVE TypeOK
    OBVIOUS
  <2>1. latest.status \in {200, 422, 500}
    BY DEF StateInv, Evaluated, Evaluation, Status
  <2>2. ASSUME HasReceipt(latest)
        PROVE  /\ latest.receipt.verdict \in {"PASS", "WARN", "BLOCK"}
               /\ latest.receipt.artifact_sha256 = Sha256(latest.call.artifact)
               /\ latest.receipt.expires_at > latest.receipt.created_at
    <3>1. ~Rejects(latest.call) /\ latest.receipt = Verify(latest.call, 0, SigningKey)
          /\ HasPolicy(latest.call)
      BY <2>2, ReceiptOf DEF StateInv, CallOK
    <3>2. Decodes(latest.receipt)
      BY <3>1, VerifyIsAccepted
    <3>3. Genuine(latest.call, latest.receipt)
      BY <3>1, VerifyIsGenuine
    <3> QED BY <3>2, <3>3 DEF Decodes, Genuine, VerdictOf
  <2> QED BY <2>1, <2>2 DEF TypeOK
<1> QED BY <1>1, StateInvKept, PTL
=============================================================================
