---------------------------- MODULE Resubmission ----------------------------
(***************************************************************************)
(* One caller and the verifier: the caller changes one part of its call at *)
(* a time and submits it again.  The state holds the last two evaluations, *)
(* so that an invariant can compare them.                                  *)
(***************************************************************************)
EXTENDS Receipts

CONSTANTS
  FirstCall,     \* the call the caller starts from
  RawLists,      \* what the lists of a policy may be
  Sizes,         \* values of max_artifact_bytes
  Evidences,     \* evidence lists
  Schemas,       \* NULL and JSON Schemas, as Verification describes them
  Tasks, Parents,
  SigningKey     \* of the deployment, or NULL

ASSUME CallAssumption ==
  /\ {"artifact", "evidence", "contract", "json_schema"} \subseteq DOMAIN FirstCall
  /\ HasPolicy(FirstCall)
  /\ FirstCall.artifact \in Artifacts
  /\ \A e \in Evidences \cup {FirstCall.evidence} : e \in Seq(DOMAIN Strip)

\* JSON Schema gives the order of keys no meaning: a schema says the same of an
\* artifact in every order in which validating ends.
ASSUME SchemaAssumption ==
  \A s, t \in (Schemas \cup {FirstCall.json_schema}) \ {NULL} : s.sorted = t.sorted =>
    /\ s.valid = t.valid
    /\ \A a \in Artifacts \ (s.raises \cup t.raises) : a \in s.accepts <=> a \in t.accepts

VARIABLES previous, latest      \* evaluations: [call, outcome], or NULL

svars == <<previous, latest>>

\* POST /v1/verify up to the store: 422, 500, or 200 with a receipt
Status(call) == IF Rejects(call) THEN 422 ELSE IF Breaks(call) THEN 500 ELSE 200

Evaluation(call) ==
  [call |-> call, status |-> Status(call),
   receipt |-> IF Status(call) = 200 THEN Verify(call, 0, SigningKey) ELSE NULL]

\* What each part of a call, and each field of its contract, may be changed to.
Parts ==
  [artifact |-> Artifacts, evidence |-> Evidences, json_schema |-> Schemas, task |-> Tasks,
   parent_receipt_sha256 |-> Parents]

PolicyParts ==
  [require_json |-> BOOLEAN, block_on_prompt_injection |-> BOOLEAN,
   block_on_secret_exposure |-> BOOLEAN,
   required_json_fields |-> RawLists, required_strings |-> RawLists,
   forbidden_strings |-> RawLists,
   min_evidence_items |-> {0, 1}, max_artifact_bytes |-> Sizes, receipt_ttl |-> {0, 60}]

Init == previous = NULL /\ latest = Evaluation(FirstCall)

Submit(call) == previous' = latest /\ latest' = Evaluation(call)

Next ==
  \/ \E part \in DOMAIN Parts : \E value \in Parts[part] \ {latest.call[part]} :
       Submit([latest.call EXCEPT ![part] = value])
  \/ \E field \in DOMAIN PolicyParts : \E value \in PolicyParts[field] \ {latest.call.contract[field]} :
       Submit([latest.call EXCEPT !.contract[field] = value])

Spec == Init /\ [][Next]_svars

---------------------------------------------------------------------------
(* Properties.                                                             *)

HasReceipt(e) == e # NULL /\ e.status = 200

\* An evaluation has a receipt exactly when the call could be evaluated, and the
\* receipt is bound to the artifact of the call (core.py verify).
TypeOK ==
  /\ latest.status \in {200, 422, 500}
  /\ HasReceipt(latest) =>
       /\ latest.receipt.verdict \in {"PASS", "WARN", "BLOCK"}
       /\ latest.receipt.artifact_sha256 = Sha256(latest.call.artifact)
       /\ latest.receipt.expires_at > latest.receipt.created_at

\* No policy makes an artifact that carries an injection, credential or URL
\* indicator PASS: a policy can turn BLOCK into WARN at most (core.py verify,
\* the security checks), and a schema cannot turn it back.
IndicatorsNeverPass ==
  HasReceipt(latest) =>
    LET seen == Content[latest.call.artifact] IN
    (seen.injection \/ seen.secret \/ seen.urls) => latest.receipt.verdict # "PASS"

\* core.py: PASS/WARN/BLOCK is "reproducible from the request, policy and
\* verifier version".  Two receipts with the same artifact, contract and evidence
\* digests have the same verdict from the same checks at the same levels, and
\* their checks say the same but where the parent, which has a digest of its own,
\* differs, and where violations follow the order of the schema's keys, which the
\* contract digest sorts away.
Reconstructible ==
  (HasReceipt(previous) /\ HasReceipt(latest)) =>
    LET r == previous.receipt  s == latest.receipt IN
    (/\ r.artifact_sha256 = s.artifact_sha256
     /\ r.contract_sha256 = s.contract_sha256
     /\ r.evidence_sha256 = s.evidence_sha256)
    => /\ r.verdict = s.verdict
       /\ DOMAIN r.checks = DOMAIN s.checks
       /\ \A code \in DOMAIN r.checks :
            /\ r.checks[code].passed = s.checks[code].passed
            /\ r.checks[code].level = s.checks[code].level
            /\ \/ r.checks[code].detail = s.checks[code].detail
               \/ code = "parent_receipt" /\ r.parent_receipt_sha256 # s.parent_receipt_sha256
               \/ code = "json_schema" /\ previous.call.json_schema # latest.call.json_schema

Stricter(c, d) ==
  LET p == Policy(c.contract)  q == Policy(d.contract) IN
  /\ c.artifact = d.artifact
  /\ Len(CleanEvidence(c.evidence)) <= Len(CleanEvidence(d.evidence))
  /\ d.json_schema \in {NULL, c.json_schema}
  /\ q.require_json => p.require_json
  /\ q.required_json_fields \subseteq p.required_json_fields
  /\ q.required_strings \subseteq p.required_strings
  /\ q.forbidden_strings \subseteq p.forbidden_strings
  /\ q.min_evidence_items <= p.min_evidence_items
  /\ p.max_artifact_bytes <= q.max_artifact_bytes
  /\ q.block_on_prompt_injection => p.block_on_prompt_injection
  /\ q.block_on_secret_exposure => p.block_on_secret_exposure

Severity(receipt) == CASE receipt.verdict = "PASS" -> 0 [] receipt.verdict = "WARN" -> 1
                       [] receipt.verdict = "BLOCK" -> 2

\* A stricter contract, an added schema or withdrawn evidence never improves the
\* verdict on an artifact, and drops none of the reasons to block it.
StricterNeverBetter ==
  (HasReceipt(previous) /\ HasReceipt(latest) /\ Stricter(latest.call, previous.call)) =>
    /\ Severity(latest.receipt) >= Severity(previous.receipt)
    /\ previous.receipt.blocking_reasons \subseteq latest.receipt.blocking_reasons

\* What every call needs, whatever it asks to be checked.
WellFormed(call) ==
  Strip[call.task] # Blank /\ call.parent_receipt_sha256 # Malformed /\ WithinBounds(call.contract)

\* An artifact the checks of a call cannot be run on (json.loads raises for a
\* huge integer or deep nesting, the validator for a reference) gets a receipt
\* from no stricter call: no layer hides what another one stumbles over.
StricterStaysRefused ==
  (/\ previous # NULL /\ ~HasReceipt(previous) /\ WellFormed(previous.call)
   /\ Stricter(latest.call, previous.call))
  => ~HasReceipt(latest)

\* What the verifier issues the codec decodes and the integrity check of the same
\* deployment accepts, with a schema or without: the fields schema_verifier.py
\* replaces are exactly those the codec derives again.
IssuedIsAccepted ==
  HasReceipt(latest) => Decodes(latest.receipt) /\ Intact(latest.receipt, SigningKey)
=============================================================================
