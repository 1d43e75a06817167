--------------------------- MODULE Verification ---------------------------
(***************************************************************************)
(* The deterministic verifier of src/sentinel/core.py and the JSON Schema  *)
(* layer of src/sentinel/schema_verifier.py, as functions of a call, the   *)
(* clock and the signing key.                                              *)
(*                                                                         *)
(* An artifact is opaque; Content says what the parsers and the patterns   *)
(* find in it.  Digests are symbolic: Sha256 and Hmac are injective, and a *)
(* receipt id stands for the twenty hexadecimal digits it is made of, so   *)
(* no two digests share an id.  One unit of time is one minute.            *)
(***************************************************************************)
EXTENDS Naturals, Sequences

CONSTANTS
  Artifacts,     \* what callers submit
  Content,       \* artifact -> what the checks can see of it
  Strip,         \* text -> the same text without surrounding white space
  Blank,         \* the empty text
  NULL,          \* Python's None
  Malformed      \* a text that is not a lower-case SHA-256 digest

JsonKinds == {"object", "other", "invalid", "oversized", "nested"}

(* Two kinds of text json.loads raises something else than JSONDecodeError  *)
(* for: an "oversized" one has an integer literal beyond Python's digit     *)
(* limit (ValueError), a "nested" one is too deep (RecursionError).         *)
ASSUME ContentAssumption ==
  \A a \in Artifacts :
    /\ Content[a].size \in Nat
    /\ Content[a].json \in JsonKinds
    /\ Content[a].injection \in BOOLEAN
    /\ Content[a].secret \in BOOLEAN
    /\ Content[a].urls \in BOOLEAN

Sha256(x) == [sha256 |-> x]
Hmac(key, digest) == [hmac |-> digest, key |-> key]
ReceiptId(digest) == [ser |-> digest]

---------------------------------------------------------------------------
(* Policies.  Lists are sets: no check depends on their order, which the   *)
(* contract hash and the texts of the checks both keep.                    *)

PolicyFields ==
  {"require_json", "required_json_fields", "required_strings", "forbidden_strings",
   "min_evidence_items", "max_artifact_bytes", "block_on_prompt_injection",
   "block_on_secret_exposure", "receipt_ttl"}

\* the contract of the call is a record of these fields
HasPolicy(call) == call.contract = [f \in PolicyFields |-> call.contract[f]]

Stripped(texts) == {Strip[t] : t \in texts} \ {Blank}

Policy(raw) ==
  [raw EXCEPT !.required_json_fields = Stripped(@),
              !.required_strings = Stripped(@),
              !.forbidden_strings = Stripped(@)]

ArtifactLimit == 128000
LongestTtl == 1440   \* minutes

\* A bug a rewrite could bring in: a receipt may live for no time at all.
BoundsFromZero(raw) ==
  /\ raw.min_evidence_items \in 0..20
  /\ raw.max_artifact_bytes \in 0..ArtifactLimit
  /\ raw.receipt_ttl \in 0..LongestTtl

WithinBounds(raw) ==
  /\ raw.min_evidence_items \in 0..20
  /\ raw.max_artifact_bytes \in 1..ArtifactLimit
  /\ raw.receipt_ttl \in 1..LongestTtl

\* the items that are not blank, in their order
CleanEvidence(evidence) ==
  LET kept[n \in 0..Len(evidence)] ==
        IF n = 0 THEN << >>
        ELSE IF Strip[evidence[n]] = Blank THEN kept[n - 1]
        ELSE Append(kept[n - 1], evidence[n])
  IN kept[Len(evidence)]

---------------------------------------------------------------------------
(* The checks of SentinelVerifier.verify.                                  *)

ChecksJson(p) == p.require_json \/ p.required_json_fields # {}

Applies(p) ==
  [artifact_size        |-> TRUE,
   contract_json        |-> ChecksJson(p),
   required_json_fields |-> p.required_json_fields # {},
   required_strings     |-> p.required_strings # {},
   forbidden_strings    |-> p.forbidden_strings # {},
   evidence_minimum     |-> p.min_evidence_items > 0,
   prompt_injection     |-> TRUE,
   secret_exposure      |-> TRUE,
   suspicious_urls      |-> TRUE,
   parent_receipt       |-> TRUE]

Passes(call, p) ==
  LET seen == Content[call.artifact] IN
  [artifact_size        |-> seen.size <= p.max_artifact_bytes,
   contract_json        |-> seen.json = "object",
   required_json_fields |-> seen.json = "object" /\ p.required_json_fields \subseteq seen.fields,
   required_strings     |-> p.required_strings \subseteq seen.strings,
   forbidden_strings    |-> p.forbidden_strings \cap seen.strings = {},
   evidence_minimum     |-> Len(CleanEvidence(call.evidence)) >= p.min_evidence_items,
   prompt_injection     |-> ~seen.injection,
   secret_exposure      |-> ~seen.secret,
   suspicious_urls      |-> ~seen.urls,
   parent_receipt       |-> TRUE]

\* What the detail and the evidence of a check tell, their wording aside; what
\* they quote of the artifact alone is left to its Content.
Detail(call, p) ==
  LET seen == Content[call.artifact] IN
  [artifact_size        |-> <<seen.size, p.max_artifact_bytes>>,
   contract_json        |-> seen.json,
   required_json_fields |-> IF seen.json = "object" THEN p.required_json_fields \ seen.fields
                                                    ELSE p.required_json_fields,
   required_strings     |-> p.required_strings \ seen.strings,
   forbidden_strings    |-> p.forbidden_strings \cap seen.strings,
   evidence_minimum     |-> <<Len(CleanEvidence(call.evidence)), p.min_evidence_items>>,
   prompt_injection     |-> seen.injection,
   secret_exposure      |-> seen.secret,
   suspicious_urls      |-> seen.urls,
   parent_receipt       |-> call.parent_receipt_sha256]

\* A bug a rewrite could bring in: a policy that does not block on an
\* indicator demotes its check to INFO.
LevelInfo(p, code) ==
  CASE code = "prompt_injection" -> IF p.block_on_prompt_injection THEN "BLOCK" ELSE "INFO"
    [] code = "secret_exposure"  -> IF p.block_on_secret_exposure THEN "BLOCK" ELSE "INFO"
    [] code = "suspicious_urls"  -> "WARN"
    [] code = "parent_receipt"   -> "INFO"
    [] OTHER                     -> "BLOCK"

Level(p, code) ==
  CASE code = "prompt_injection" -> IF p.block_on_prompt_injection THEN "BLOCK" ELSE "WARN"
    [] code = "secret_exposure"  -> IF p.block_on_secret_exposure THEN "BLOCK" ELSE "WARN"
    [] code = "suspicious_urls"  -> "WARN"
    [] code = "parent_receipt"   -> "INFO"
    [] OTHER                     -> "BLOCK"

CoreChecks(call, p) ==
  LET applies == Applies(p)  passes == Passes(call, p)  detail == Detail(call, p) IN
  [code \in {c \in DOMAIN applies : applies[c]} |->
     [passed |-> passes[code], level |-> Level(p, code), detail |-> detail[code]]]

Failing(checks, level) == {c \in DOMAIN checks : ~checks[c].passed /\ checks[c].level = level}

VerdictOf(checks) ==
  IF Failing(checks, "BLOCK") # {} THEN "BLOCK"
  ELSE IF Failing(checks, "WARN") # {} THEN "WARN" ELSE "PASS"

---------------------------------------------------------------------------
(* Calls that yield no receipt.                                            *)

(* A JSON Schema is a record: its identity when keys are sorted, the order  *)
(* they came in, whether it is a schema at all, the artifacts it accepts    *)
(* and those on which validating raises: a reference it cannot resolve, a   *)
(* pattern that is none, a recursion too deep.                              *)

UsesSchema(call) == call.json_schema # NULL /\ call.json_schema.valid

\* A bug a rewrite could bring in: with a schema, the parsing is left to the
\* schema layer.
RejectsUnlessSchema(call) ==
  \/ Strip[call.task] = Blank
  \/ call.parent_receipt_sha256 = Malformed
  \/ ~WithinBounds(call.contract)
  \/ /\ Content[call.artifact].json = "oversized"
     /\ IF call.json_schema = NULL THEN ChecksJson(Policy(call.contract)) ELSE UsesSchema(call)

\* verify raises a ValueError: the API answers 422
Rejects(call) ==
  \/ Strip[call.task] = Blank
  \/ call.parent_receipt_sha256 = Malformed
  \/ ~WithinBounds(call.contract)
  \/ /\ Content[call.artifact].json = "oversized"
     /\ ChecksJson(Policy(call.contract)) \/ UsesSchema(call)

\* json.loads or the validator raises what verify does not catch: the API
\* answers 500
Breaks(call) ==
  LET json == Content[call.artifact].json IN
  \/ json = "nested" /\ (ChecksJson(Policy(call.contract)) \/ UsesSchema(call))
  \/ UsesSchema(call) /\ json # "invalid" /\ call.artifact \in call.json_schema.raises

---------------------------------------------------------------------------
(* Receipts.  The audit trace and the verifier version are left out; a      *)
(* reason is the code of its check.                                         *)

\* Bugs a rewrite could bring in: the seed forgets the expiry, or the checks.
SeedWithoutExpiry(r) ==
  [created_at |-> r.created_at, artifact_sha256 |-> r.artifact_sha256,
   contract_sha256 |-> r.contract_sha256, evidence_sha256 |-> r.evidence_sha256,
   parent_receipt_sha256 |-> r.parent_receipt_sha256,
   verdict |-> r.verdict, checks |-> r.checks]

SeedWithoutTime(r) ==
  [artifact_sha256 |-> r.artifact_sha256, contract_sha256 |-> r.contract_sha256,
   evidence_sha256 |-> r.evidence_sha256, parent_receipt_sha256 |-> r.parent_receipt_sha256,
   verdict |-> r.verdict, checks |-> r.checks]

\* what _receipt_seed serialises
Seed(r) ==
  [created_at |-> r.created_at, expires_at |-> r.expires_at,
   artifact_sha256 |-> r.artifact_sha256, contract_sha256 |-> r.contract_sha256,
   evidence_sha256 |-> r.evidence_sha256, parent_receipt_sha256 |-> r.parent_receipt_sha256,
   verdict |-> r.verdict, checks |-> r.checks]

NotVerified == "declared"   \* the four trust-boundary sentences

Sealed(unsealed, key) ==
  LET digest == Sha256(Seed(unsealed)) IN
  [created_at            |-> unsealed.created_at,
   expires_at            |-> unsealed.expires_at,
   verdict               |-> unsealed.verdict,
   artifact_sha256       |-> unsealed.artifact_sha256,
   contract_sha256       |-> unsealed.contract_sha256,
   evidence_sha256       |-> unsealed.evidence_sha256,
   parent_receipt_sha256 |-> unsealed.parent_receipt_sha256,
   checks                |-> unsealed.checks,
   blocking_reasons      |-> unsealed.blocking_reasons,
   warnings              |-> unsealed.warnings,
   not_verified          |-> unsealed.not_verified,
   receipt_id            |-> ReceiptId(digest),
   receipt_sha256        |-> digest,
   signature             |-> IF key = NULL THEN NULL ELSE Hmac(key, digest)]

CoreReceipt(call, clock, key) ==
  LET policy == Policy(call.contract)
      checks == CoreChecks(call, policy)
      kept   == CleanEvidence(call.evidence)
  IN Sealed([created_at            |-> clock,
             expires_at            |-> clock + policy.receipt_ttl,
             verdict               |-> VerdictOf(checks),
             artifact_sha256       |-> Sha256(call.artifact),
             contract_sha256       |-> Sha256(policy),
             evidence_sha256       |-> [i \in DOMAIN kept |-> Sha256(kept[i])],
             parent_receipt_sha256 |-> call.parent_receipt_sha256,
             checks                |-> checks,
             blocking_reasons      |-> Failing(checks, "BLOCK"),
             warnings              |-> Failing(checks, "WARN"),
             not_verified          |-> NotVerified], key)

\* what the schema makes of the artifact
SchemaSays(call) ==
  IF ~call.json_schema.valid THEN "schema_invalid"
  ELSE IF Content[call.artifact].json = "invalid" THEN "artifact_not_json"
  ELSE IF call.artifact \in call.json_schema.accepts THEN "satisfied" ELSE "violated"

\* Messages about the schema quote it, and violations come in an order that may
\* follow its keys.
SchemaCheck(call) ==
  LET says == SchemaSays(call) IN
  [passed |-> says = "satisfied", level |-> "BLOCK",
   detail |-> [says |-> says,
               order |-> IF says \in {"schema_invalid", "violated"}
                         THEN call.json_schema.key_order ELSE NULL]]

(* SchemaSentinelVerifier.verify: the base receipt with one more check, the *)
(* schema folded into the contract hash, and a new seal.                    *)

\* A bug a rewrite could bring in: the schema takes the JSON check's place.
SchemaInsteadOfJson(call, base) ==
  [c \in (DOMAIN base.checks \ {"contract_json"}) \cup {"json_schema"} |->
     IF c = "json_schema" THEN SchemaCheck(call) ELSE base.checks[c]]

AllChecks(call, base) ==
  [c \in DOMAIN base.checks \cup {"json_schema"} |->
     IF c = "json_schema" THEN SchemaCheck(call) ELSE base.checks[c]]

\* A bug a rewrite could bring in: the contract hash leaves the schema out.
PolicyOnlyHash(call) == Sha256(Policy(call.contract))

\* json.dumps sorts the keys of the schema
SchemaContractHash(call) ==
  Sha256([policy |-> Policy(call.contract), json_schema |-> call.json_schema.sorted])

\* A bug a rewrite could bring in: the base receipt's reasons survive.
SchemaReceiptBaseReasons(call, base, key) ==
  LET checks == AllChecks(call, base) IN
  Sealed([base EXCEPT !.verdict = VerdictOf(checks), !.checks = checks,
                      !.contract_sha256 = SchemaContractHash(call)], key)

SchemaReceipt(call, base, key) ==
  LET checks == AllChecks(call, base) IN
  Sealed([base EXCEPT !.verdict = VerdictOf(checks), !.checks = checks,
                      !.contract_sha256 = SchemaContractHash(call),
                      !.blocking_reasons = Failing(checks, "BLOCK"),
                      !.warnings = Failing(checks, "WARN")], key)

Verify(call, clock, key) ==
  LET base == CoreReceipt(call, clock, key)
  IN IF call.json_schema = NULL THEN base ELSE SchemaReceipt(call, base, key)
=============================================================================
