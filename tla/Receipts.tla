------------------------------ MODULE Receipts ------------------------------
(***************************************************************************)
(* What is made of a stored receipt: the codec of receipt_codec.py, the    *)
(* integrity check of core.py and the decision of the gate in api.py, as   *)
(* functions of the stored row, the call, the signing key and the clock.   *)
(***************************************************************************)
EXTENDS Verification

\* A well-shaped digest or signature that belongs to nothing.
Noise == [noise |-> TRUE]

\* receipt_from_dict returns: every digest has its shape, and what the checks
\* imply is what the receipt says.  Three refusals are left out, of an id without
\* its shape (an id made of a well-shaped digest has it), of times without a zone
\* and of blank texts in a check: more decodes here than in the code, and no
\* property gains by it.
Decodes(r) ==
  /\ Malformed \notin {r.artifact_sha256, r.contract_sha256, r.receipt_sha256,
                       r.parent_receipt_sha256, r.signature}
  /\ \A i \in DOMAIN r.evidence_sha256 : r.evidence_sha256[i] # Malformed
  /\ r.expires_at > r.created_at
  /\ r.receipt_id = ReceiptId(r.receipt_sha256)
  /\ r.blocking_reasons = Failing(r.checks, "BLOCK")
  /\ r.warnings = Failing(r.checks, "WARN")
  /\ r.verdict = VerdictOf(r.checks)
  /\ r.not_verified = NotVerified

\* A bug a rewrite could bring in: a signature counts because it is there.
SignatureNotCompared(r, key) == r.signature = NULL => key = NULL

Authenticated(r, key) ==
  IF r.signature = NULL THEN key = NULL
  ELSE key # NULL /\ r.signature = Hmac(key, r.receipt_sha256)

\* verify_receipt_integrity without require_current
Intact(r, key) == Sha256(Seed(r)) = r.receipt_sha256 /\ Authenticated(r, key)

\* A bug a rewrite could bring in: the last minute is taken away.
CurrentButLastMinute(r, clock) == clock + 1 < r.expires_at

\* the part of verify_receipt_integrity that require_current adds
Current(r, clock) == clock < r.expires_at

\* A bug a rewrite could bring in: the deployment's key is demanded of
\* receipts that carry no signature.
AlwaysSigningKey(r, signing_key) == signing_key

IntegrityKey(r, signing_key) == IF r.signature # NULL THEN signing_key ELSE NULL

\* The gate's reasons to block what it decoded; call has the artifact and
\* whether a signature is required.
\* A bug a rewrite could bring in: the artifact is not compared.
ReasonsIgnoringArtifact(r, call, signing_key, clock) ==
  LET intact == Intact(r, IntegrityKey(r, signing_key))
      reason == [integrity       |-> ~intact,
                 not_current     |-> ~(intact /\ Current(r, clock)),
                 verdict         |-> r.verdict # "PASS",
                 unsigned        |-> call.require_signed /\ r.signature = NULL]
  IN {x \in DOMAIN reason : reason[x]}

DecodedReasons(r, call, signing_key, clock) ==
  LET intact == Intact(r, IntegrityKey(r, signing_key))
      reason == [integrity       |-> ~intact,
                 not_current     |-> ~(intact /\ Current(r, clock)),
                 other_artifact  |-> r.artifact_sha256 # Sha256(call.artifact),
                 verdict         |-> r.verdict # "PASS",
                 unsigned        |-> call.require_signed /\ r.signature = NULL,
                 key_unavailable |-> r.signature # NULL /\ signing_key = NULL]
  IN {x \in DOMAIN reason : reason[x]}

GateReasons(stored, call, signing_key, clock) ==
  IF stored = NULL THEN {"not_found"}
  ELSE IF ~Decodes(stored) THEN {"undecodable"}
  ELSE DecodedReasons(stored, call, signing_key, clock)

\* the receipt an answer of the gate is about: the id of the row once it is
\* decoded, which nothing compares with the id the caller named
AnsweredId(stored, call) ==
  IF stored = NULL \/ ~Decodes(stored) THEN call.receipt_id ELSE stored.receipt_id

\* the key a receipt was signed with, for refinement mappings
SignerOf(receipt) == IF receipt.signature = NULL THEN NULL ELSE receipt.signature.key
=============================================================================
