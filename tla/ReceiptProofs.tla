--------------------------- MODULE ReceiptProofs ---------------------------
(***************************************************************************)
(* Proofs about receipts: what the verifier makes, what their digests fix, *)
(* and what the codec, the integrity check and the gate find in them.      *)
(***************************************************************************)
EXTENDS Receipts, WellFoundedInduction, TLAPS

---------------------------------------------------------------------------
(* Evidence.                                                               *)

\* A set of naturals that is not empty has a least element.
LEMMA LeastNatural ==
  ASSUME NEW T, T \subseteq Nat, T # {}
  PROVE  \E m \in T : \A k \in T : m <= k
<1>1. PICK m \in T : \A k \in T : ~ (<<k, m>> \in OpToRel(<, Nat))
  BY NatLessThanWellFounded, WFMin
<1>2. ASSUME NEW k \in T PROVE m <= k
  <2>1. ~ (<<k, m>> \in {pair \in Nat \X Nat : pair[1] < pair[2]})
    BY <1>1 DEF OpToRel
  <2> QED BY <2>1
<1> QED BY <1>2

\* f[n] is what is kept of the first n items, for every n up to k.
KeepsOf(f, e, k) ==
  f = [n \in 0..k |-> IF n = 0 THEN << >>
                      ELSE IF Strip[e[n]] = Blank THEN f[n - 1]
                      ELSE Append(f[n - 1], e[n])]

\* The recursion of CleanEvidence has a solution: a least k without one would
\* have that of k - 1, and one more item (core.py verify).
LEMMA KeepsExist ==
  ASSUME NEW e, Len(e) \in Nat
  PROVE  \E f : KeepsOf(f, e, Len(e))
<1> DEFINE T == {k \in 0..Len(e) : ~ \E f : KeepsOf(f, e, k)}
<1> SUFFICES ASSUME T # {} PROVE FALSE
  OBVIOUS
<1>1. PICK m \in T : \A k \in T : m <= k
  <2>1. T \subseteq Nat
    OBVIOUS
  <2> HIDE DEF T
  <2> QED BY <2>1, LeastNatural
<1>2. CASE m = 0
  <2>1. KeepsOf([n \in 0..0 |-> << >>], e, 0)
    BY DEF KeepsOf
  <2> QED BY <1>2, <2>1
<1>3. CASE m # 0
  <2>1. m \in Nat /\ m - 1 \in 0..Len(e) /\ ~ (m <= m - 1)
    BY <1>3
  <2>2. PICK f : KeepsOf(f, e, m - 1)
    BY <1>1, <2>1
  <2> DEFINE item == IF Strip[e[m]] = Blank THEN f[m - 1] ELSE Append(f[m - 1], e[m])
             g    == [n \in 0..m |-> IF n = m THEN item ELSE f[n]]
  <2>3. ASSUME NEW n \in 0..m
        PROVE  g[n] = IF n = 0 THEN << >>
                      ELSE IF Strip[e[n]] = Blank THEN g[n - 1]
                      ELSE Append(g[n - 1], e[n])
    <3>1. CASE n = m
      BY <1>3, <2>1, <3>1
    <3>2. CASE n # m
      <4>1. n \in 0..(m - 1) /\ (n # 0 => n - 1 \in 0..(m - 1))
        BY <2>1, <3>2
      <4>2. f[n] = IF n = 0 THEN << >>
                   ELSE IF Strip[e[n]] = Blank THEN f[n - 1]
                   ELSE Append(f[n - 1], e[n])
        BY <2>2, <4>1, Zenon DEF KeepsOf
      <4>3. g[n] = f[n] /\ (n # 0 => g[n - 1] = f[n - 1])
        BY <2>1, <3>2, <4>1
      <4> QED BY <4>2, <4>3
    <3> QED BY <3>1, <3>2
  <2>4. KeepsOf(g, e, m)
    <3> HIDE DEF item
    <3>1. g = [n \in 0..m |-> g[n]]
      OBVIOUS
    <3> HIDE DEF g
    <3> QED BY <2>3, <3>1 DEF KeepsOf
  <2> QED BY <2>4, <1>1
<1> QED BY <1>2, <1>3

\* What is left of a list of items is a list of items, and no longer
\* (core.py verify).
LEMMA CleanEvidenceIsList ==
  ASSUME NEW S, NEW e \in Seq(S)
  PROVE  CleanEvidence(e) \in Seq(S) /\ Len(CleanEvidence(e)) <= Len(e)
<1> DEFINE f == CHOOSE g : KeepsOf(g, e, Len(e))
<1>1. KeepsOf(f, e, Len(e))
  BY KeepsExist
<1>2. CleanEvidence(e) = f[Len(e)]
  BY DEF CleanEvidence, KeepsOf
<1> HIDE DEF f
<1> DEFINE T == {n \in 0..Len(e) : ~ (f[n] \in Seq(S) /\ Len(f[n]) <= n)}
<1> SUFFICES ASSUME T # {} PROVE FALSE
  BY <1>2
<1>3. PICK m \in T : \A k \in T : m <= k
  <2>1. T \subseteq Nat
    OBVIOUS
  <2> HIDE DEF T
  <2> QED BY <2>1, LeastNatural
<1>4. f[m] = IF m = 0 THEN << >>
             ELSE IF Strip[e[m]] = Blank THEN f[m - 1]
             ELSE Append(f[m - 1], e[m])
  BY <1>1, Zenon DEF KeepsOf
<1>5. m # 0
  <2>1. << >> \in Seq(S) /\ Len(<< >>) = 0
    OBVIOUS
  <2>2. m \in 0..Len(e) /\ ~ (f[m] \in Seq(S) /\ Len(f[m]) <= m)
    OBVIOUS
  <2> QED BY <1>4, <2>1, <2>2
<1>6. m \in 1..Len(e) /\ m - 1 \in 0..Len(e) /\ ~ (m <= m - 1) /\ e[m] \in S
  BY <1>5
<1>7. f[m - 1] \in Seq(S) /\ Len(f[m - 1]) <= m - 1
  BY <1>3, <1>6
<1>8. f[m] \in Seq(S) /\ Len(f[m]) <= m
  BY <1>4, <1>5, <1>6, <1>7
<1> QED BY <1>8

---------------------------------------------------------------------------
(* Receipts as the verifier makes them.                                    *)

ReceiptFields ==
  {"created_at", "expires_at", "verdict", "artifact_sha256", "contract_sha256",
   "evidence_sha256", "parent_receipt_sha256", "checks", "blocking_reasons", "warnings",
   "not_verified", "receipt_id", "receipt_sha256", "signature"}

\* A signature is of the receipt's own digest.
OwnSignature(r) ==
  r.signature = NULL \/ r.signature = Hmac(r.signature.key, r.receipt_sha256)

\* What is true of every receipt verify returns for a call.
Genuine(call, r) ==
  /\ r = [f \in ReceiptFields |-> r[f]]
  /\ r.receipt_sha256 = Sha256(Seed(r))
  /\ r.receipt_id = ReceiptId(r.receipt_sha256)
  /\ r.artifact_sha256 = Sha256(call.artifact)
  /\ r.verdict = VerdictOf(r.checks)
  /\ r.blocking_reasons = Failing(r.checks, "BLOCK")
  /\ r.warnings = Failing(r.checks, "WARN")
  /\ r.not_verified = NotVerified
  /\ OwnSignature(r)

\* Sealing leaves what is sealed alone and seals exactly that (core.py verify).
LEMMA SealedFacts ==
  ASSUME NEW u, NEW key
  PROVE  LET r == Sealed(u, key) IN
         /\ r = [f \in ReceiptFields |-> r[f]]
         /\ r.receipt_sha256 = Sha256(Seed(r))
         /\ r.receipt_id = ReceiptId(r.receipt_sha256)
         /\ r.artifact_sha256 = u.artifact_sha256
         /\ r.checks = u.checks /\ r.verdict = u.verdict
         /\ r.blocking_reasons = u.blocking_reasons /\ r.warnings = u.warnings
         /\ r.not_verified = u.not_verified /\ r.expires_at = u.expires_at
         /\ r.signature = IF key = NULL THEN NULL ELSE Hmac(key, r.receipt_sha256)
         /\ OwnSignature(r)
<1> DEFINE r == Sealed(u, key)
<1>1. Seed(r) = Seed(u)
  BY SMT DEF Sealed, Seed
<1>2. r = [f \in ReceiptFields |-> r[f]]
  BY SMT DEF Sealed, ReceiptFields
<1>3. r.signature = IF key = NULL THEN NULL ELSE Hmac(key, r.receipt_sha256)
  BY DEF Sealed
<1>4. OwnSignature(r)
  <2>1. \A d : Hmac(key, d).key = key
    BY DEF Hmac
  <2> HIDE DEF r
  <2> QED BY <1>3, <2>1 DEF OwnSignature
<1> QED BY <1>1, <1>2, <1>4 DEF Sealed

\* A core receipt is genuine (core.py verify).
LEMMA CoreReceiptIsGenuine ==
  ASSUME NEW call, NEW clock, NEW key
  PROVE  Genuine(call, CoreReceipt(call, clock, key))
BY SealedFacts, SMTT(30) DEF CoreReceipt, Genuine

\* A receipt with a schema is genuine too: schema_verifier.py replaces every
\* field that depends on the checks.
LEMMA SchemaReceiptIsGenuine ==
  ASSUME NEW call, NEW base, NEW key, Genuine(call, base)
  PROVE  Genuine(call, SchemaReceipt(call, base, key))
<1> DEFINE checks == AllChecks(call, base)
           u == [base EXCEPT !.verdict = VerdictOf(checks), !.checks = checks,
                             !.contract_sha256 = SchemaContractHash(call),
                             !.blocking_reasons = Failing(checks, "BLOCK"),
                             !.warnings = Failing(checks, "WARN")]
<1>1. base = [f \in ReceiptFields |-> base[f]]
  BY DEF Genuine
<1> HIDE DEF checks
<1>2. /\ u.verdict = VerdictOf(checks) /\ u.checks = checks
      /\ u.blocking_reasons = Failing(checks, "BLOCK") /\ u.warnings = Failing(checks, "WARN")
      /\ u.artifact_sha256 = base.artifact_sha256 /\ u.not_verified = base.not_verified
  BY <1>1 DEF ReceiptFields
<1>3. SchemaReceipt(call, base, key) = Sealed(u, key)
  BY DEF SchemaReceipt, checks
<1> HIDE DEF u
<1> QED BY <1>2, <1>3, SealedFacts DEF Genuine

\* Whatever the call, the clock and the key: verify's receipt is genuine.
LEMMA VerifyIsGenuine ==
  ASSUME NEW call, NEW clock, NEW key
  PROVE  Genuine(call, Verify(call, clock, key))
BY CoreReceiptIsGenuine, SchemaReceiptIsGenuine DEF Verify

---------------------------------------------------------------------------
(* Digests, seeds and signatures.                                         *)

\* Equal seeds are equal in every field they are made of (core.py _receipt_seed).
LEMMA SeedsAgree ==
  ASSUME NEW r, NEW s, Seed(r) = Seed(s)
  PROVE  /\ r.created_at = s.created_at /\ r.expires_at = s.expires_at
         /\ r.artifact_sha256 = s.artifact_sha256
         /\ r.contract_sha256 = s.contract_sha256
         /\ r.evidence_sha256 = s.evidence_sha256
         /\ r.parent_receipt_sha256 = s.parent_receipt_sha256
         /\ r.verdict = s.verdict /\ r.checks = s.checks
BY DEF Seed

\* Digests, signatures and ids are injective.
LEMMA Injective ==
  /\ \A x, y : Sha256(x) = Sha256(y) => x = y
  /\ \A x, y : ReceiptId(x) = ReceiptId(y) => x = y
  /\ \A k, l, d, e : Hmac(k, d) = Hmac(l, e) => d = e
  /\ \A k, d : Hmac(k, d) # Noise
  /\ \A d : ReceiptId(d) # Noise
BY DEF Sha256, ReceiptId, Hmac, Noise

Signed(r, x) == [r EXCEPT !.signature = x]

\* The id fixes the receipt, the signature aside: the seed holds the digests,
\* the times, the verdict and the checks, and the rest follows from the checks.
LEMMA SameButSignature ==
  ASSUME NEW c, NEW r, NEW d, NEW s, NEW x,
         Genuine(c, r), Genuine(d, s), r.receipt_id = s.receipt_id
  PROVE  Signed(r, x) = Signed(s, x)
<1>1. r.receipt_sha256 = s.receipt_sha256 /\ Seed(r) = Seed(s)
  BY Injective DEF Genuine
<1>2. \A f \in ReceiptFields \ {"signature"} : r[f] = s[f]
  BY <1>1, SeedsAgree DEF Genuine, ReceiptFields
<1>3. r = [f \in ReceiptFields |-> r[f]] /\ s = [f \in ReceiptFields |-> s[f]]
  BY DEF Genuine
<1>4. /\ Signed(r, x) = [f \in ReceiptFields |-> IF f = "signature" THEN x ELSE r[f]]
      /\ Signed(s, x) = [f \in ReceiptFields |-> IF f = "signature" THEN x ELSE s[f]]
  BY <1>3 DEF Signed
<1> QED BY <1>2, <1>4

---------------------------------------------------------------------------
(* The gate.                                                               *)

\* What a gate with no reason to block has established of the decoded row
\* (api.py gate, receipt_codec.py, core.py verify_receipt_integrity).
LEMMA NoReasons ==
  ASSUME NEW r, NEW call, NEW key, NEW clock,
         r # NULL, GateReasons(r, call, key, clock) = {}
  PROVE  /\ Decodes(r)
         /\ Intact(r, IntegrityKey(r, key)) /\ Current(r, clock)
         /\ r.artifact_sha256 = Sha256(call.artifact)
         /\ r.verdict = "PASS"
         /\ call.require_signed => r.signature # NULL
         /\ r.signature # NULL => key # NULL
<1>1. Decodes(r) /\ DecodedReasons(r, call, key, clock) = {}
  BY DEF GateReasons
<1> DEFINE intact == Intact(r, IntegrityKey(r, key))
           reason == [integrity       |-> ~intact,
                      not_current     |-> ~(intact /\ Current(r, clock)),
                      other_artifact  |-> r.artifact_sha256 # Sha256(call.artifact),
                      verdict         |-> r.verdict # "PASS",
                      unsigned        |-> call.require_signed /\ r.signature = NULL,
                      key_unavailable |-> r.signature # NULL /\ key = NULL]
<1>2. \A x \in DOMAIN reason : ~reason[x]
  BY <1>1 DEF DecodedReasons
<1>3. /\ ~reason["integrity"] /\ ~reason["not_current"] /\ ~reason["other_artifact"]
      /\ ~reason["verdict"] /\ ~reason["unsigned"] /\ ~reason["key_unavailable"]
  <2>1. DOMAIN reason = {"integrity", "not_current", "other_artifact", "verdict",
                         "unsigned", "key_unavailable"}
    OBVIOUS
  <2> HIDE DEF reason
  <2> QED BY <1>2, <2>1
<1> QED BY <1>1, <1>3

\* None is no receipt.
NoneIsNoReceipt == NULL # [f \in ReceiptFields |-> NULL[f]]

\* And the other way round: the gate has nothing against a genuine PASS receipt
\* in force that its key vouches for (api.py gate).
LEMMA NothingAgainst ==
  ASSUME NoneIsNoReceipt,
         NEW c, NEW r, Genuine(c, r), Decodes(r), r.verdict = "PASS",
         NEW call, r.artifact_sha256 = Sha256(call.artifact), NEW clock, clock < r.expires_at,
         NEW key, r.signature # NULL => key # NULL /\ r.signature = Hmac(key, r.receipt_sha256),
         call.require_signed => r.signature # NULL
  PROVE  GateReasons(r, call, key, clock) = {}
<1>1. r # NULL
  BY DEF Genuine, NoneIsNoReceipt
<1>2. Intact(r, IntegrityKey(r, key)) /\ Current(r, clock)
  BY DEF Genuine, Intact, Authenticated, IntegrityKey, Current
<1>3. DecodedReasons(r, call, key, clock) = {}
  <2> DEFINE intact == Intact(r, IntegrityKey(r, key))
             reason ==
               [integrity       |-> ~intact,
                not_current     |-> ~(intact /\ Current(r, clock)),
                other_artifact  |-> r.artifact_sha256 # Sha256(call.artifact),
                verdict         |-> r.verdict # "PASS",
                unsigned        |-> call.require_signed /\ r.signature = NULL,
                key_unavailable |-> r.signature # NULL /\ key = NULL]
  <2>1. DecodedReasons(r, call, key, clock) = {x \in DOMAIN reason : reason[x]}
    BY DEF DecodedReasons
  <2>2. DOMAIN reason = {"integrity", "not_current", "other_artifact", "verdict", "unsigned",
                         "key_unavailable"}
    OBVIOUS
  <2>3. ~reason["integrity"] /\ ~reason["not_current"]
    BY <1>2
  <2>4. ~reason["other_artifact"] /\ ~reason["verdict"]
    OBVIOUS
  <2>5. ~reason["unsigned"] /\ ~reason["key_unavailable"]
    OBVIOUS
  <2> HIDE DEF reason
  <2> QED BY <2>1, <2>2, <2>3, <2>4, <2>5
<1> QED BY <1>1, <1>3 DEF GateReasons

---------------------------------------------------------------------------
(* What is issued is accepted.                                             *)

\* Digests and signatures are well-formed texts, and None is no text at all.
Distinct ==
  /\ NULL # Malformed
  /\ \A x : Sha256(x) \notin {NULL, Malformed}
  /\ \A k, d : Hmac(k, d) \notin {NULL, Malformed}

\* Normalising a policy strips its lists and leaves the rest alone (core.py
\* from_mapping).
LEMMA PolicyFacts ==
  ASSUME NEW call, HasPolicy(call)
  PROVE  LET raw == call.contract
             p   == Policy(raw)
         IN /\ p = [f \in PolicyFields |-> p[f]]
            /\ p.required_json_fields = Stripped(raw.required_json_fields)
            /\ p.required_strings = Stripped(raw.required_strings)
            /\ p.forbidden_strings = Stripped(raw.forbidden_strings)
            /\ \A f \in PolicyFields \ {"required_json_fields", "required_strings",
                                        "forbidden_strings"} : p[f] = raw[f]
BY DEF HasPolicy, Policy, PolicyFields

\* A receipt lives for a minute at least, and for the contract's time
\* (core.py _bounded_int).
LEMMA LivesOn ==
  ASSUME NEW call, HasPolicy(call), WithinBounds(call.contract), NEW clock \in Nat
  PROVE  LET policy == Policy(call.contract) IN
         clock + policy.receipt_ttl = clock + call.contract.receipt_ttl
         /\ clock + policy.receipt_ttl > clock
<1>1. Policy(call.contract).receipt_ttl = call.contract.receipt_ttl
  BY PolicyFacts DEF PolicyFields
<1>2. call.contract.receipt_ttl \in Nat /\ call.contract.receipt_ttl > 0
  <2>1. PICK longest : call.contract.receipt_ttl \in 1..longest
    BY DEF WithinBounds
  <2> QED BY <2>1
<1>3. \A t \in Nat : t > 0 => clock + t > clock
  OBVIOUS
<1> QED BY <1>1, <1>2, <1>3

\* Sealing copies the times and the digests (core.py verify).
LEMMA SealedCopies ==
  ASSUME NEW u, NEW key
  PROVE  LET r == Sealed(u, key) IN
         /\ r.artifact_sha256 = u.artifact_sha256 /\ r.contract_sha256 = u.contract_sha256
         /\ r.evidence_sha256 = u.evidence_sha256
         /\ r.parent_receipt_sha256 = u.parent_receipt_sha256
         /\ r.created_at = u.created_at /\ r.expires_at = u.expires_at
BY DEF Sealed

\* What the codec asks of a receipt's times and digests.
WellShaped(r) ==
  /\ Malformed \notin {r.artifact_sha256, r.contract_sha256, r.parent_receipt_sha256}
  /\ \A i \in DOMAIN r.evidence_sha256 : r.evidence_sha256[i] # Malformed
  /\ r.expires_at > r.created_at

\* A core receipt is well-shaped (core.py verify).
LEMMA CoreIsWellShaped ==
  ASSUME Distinct, NEW call, HasPolicy(call), ~Rejects(call), NEW clock \in Nat, NEW key
  PROVE  /\ WellShaped(CoreReceipt(call, clock, key))
         /\ CoreReceipt(call, clock, key).created_at = clock
         /\ CoreReceipt(call, clock, key).expires_at = clock + call.contract.receipt_ttl
<1> DEFINE policy == Policy(call.contract)
           kept   == CleanEvidence(call.evidence)
           r      == CoreReceipt(call, clock, key)
<1>1. /\ r.artifact_sha256 = Sha256(call.artifact)
      /\ r.contract_sha256 = Sha256(policy)
      /\ r.parent_receipt_sha256 = call.parent_receipt_sha256
      /\ r.evidence_sha256 = [i \in DOMAIN kept |-> Sha256(kept[i])]
      /\ r.created_at = clock /\ r.expires_at = clock + policy.receipt_ttl
  <2> DEFINE checks == CoreChecks(call, policy)
             u == [created_at            |-> clock,
                   expires_at            |-> clock + policy.receipt_ttl,
                   verdict               |-> VerdictOf(checks),
                   artifact_sha256       |-> Sha256(call.artifact),
                   contract_sha256       |-> Sha256(policy),
                   evidence_sha256       |-> [i \in DOMAIN kept |-> Sha256(kept[i])],
                   parent_receipt_sha256 |-> call.parent_receipt_sha256,
                   checks                |-> checks,
                   blocking_reasons      |-> Failing(checks, "BLOCK"),
                   warnings              |-> Failing(checks, "WARN"),
                   not_verified          |-> NotVerified]
  <2>1. r = Sealed(u, key)
    BY DEF CoreReceipt
  <2>2. /\ u.artifact_sha256 = Sha256(call.artifact)
        /\ u.contract_sha256 = Sha256(policy)
        /\ u.parent_receipt_sha256 = call.parent_receipt_sha256
        /\ u.evidence_sha256 = [i \in DOMAIN kept |-> Sha256(kept[i])]
        /\ u.created_at = clock /\ u.expires_at = clock + policy.receipt_ttl
    OBVIOUS
  <2> HIDE DEF r, u
  <2> QED BY <2>1, <2>2, SealedCopies
<1>2. call.parent_receipt_sha256 # Malformed /\ WithinBounds(call.contract)
  BY DEF Rejects
<1>3. clock + policy.receipt_ttl = clock + call.contract.receipt_ttl
      /\ clock + policy.receipt_ttl > clock
  BY <1>2, LivesOn
<1> HIDE DEF r, policy, kept
<1>4. \A i \in DOMAIN r.evidence_sha256 : r.evidence_sha256[i] # Malformed
  BY <1>1 DEF Distinct
<1>5. Malformed \notin {r.artifact_sha256, r.contract_sha256, r.parent_receipt_sha256}
  BY <1>1, <1>2 DEF Distinct
<1>6. WellShaped(r)
  BY <1>1, <1>3, <1>4, <1>5 DEF WellShaped
<1> QED BY <1>1, <1>3, <1>6 DEF r

\* The layer above keeps the shape: it replaces the contract hash by a digest
\* (schema_verifier.py verify).
LEMMA SchemaIsWellShaped ==
  ASSUME Distinct, NEW call, NEW base, NEW key, Genuine(call, base), WellShaped(base)
  PROVE  LET r == SchemaReceipt(call, base, key) IN
         WellShaped(r) /\ r.created_at = base.created_at /\ r.expires_at = base.expires_at
<1> DEFINE r == SchemaReceipt(call, base, key)
<1>1. base = [f \in ReceiptFields |-> base[f]]
  BY DEF Genuine
<1>2. /\ r.artifact_sha256 = base.artifact_sha256
      /\ r.contract_sha256 = SchemaContractHash(call)
      /\ r.parent_receipt_sha256 = base.parent_receipt_sha256
      /\ r.evidence_sha256 = base.evidence_sha256
      /\ r.created_at = base.created_at /\ r.expires_at = base.expires_at
  BY <1>1, SMTT(30) DEF SchemaReceipt, Sealed, ReceiptFields
<1>3. SchemaContractHash(call) # Malformed
  BY DEF Distinct, SchemaContractHash
<1> HIDE DEF r
<1> QED BY <1>2, <1>3 DEF WellShaped, r

\* The signature of a receipt is made with the key over its digest, or missing
\* where there is no key (core.py verify).
LEMMA SignatureOfVerify ==
  ASSUME NEW call, NEW clock, NEW key
  PROVE  LET r == Verify(call, clock, key) IN
         r.signature = IF key = NULL THEN NULL ELSE Hmac(key, r.receipt_sha256)
<1>1. \A u : Sealed(u, key).signature
               = IF key = NULL THEN NULL ELSE Hmac(key, Sealed(u, key).receipt_sha256)
  BY DEF Sealed
<1>2. \E u : CoreReceipt(call, clock, key) = Sealed(u, key)
  BY DEF CoreReceipt
<1>3. \A base : \E u : SchemaReceipt(call, base, key) = Sealed(u, key)
  BY DEF SchemaReceipt
<1> QED BY <1>1, <1>2, <1>3 DEF Verify

\* Whatever the call and the key, what verify issues the codec decodes and the
\* integrity check of the same deployment accepts (receipt_codec.py
\* receipt_from_dict, core.py verify_receipt_integrity).
THEOREM VerifyIsAccepted ==
  ASSUME Distinct, NEW call, HasPolicy(call), ~Rejects(call), NEW clock \in Nat, NEW key
  PROVE  LET r == Verify(call, clock, key) IN
         /\ Decodes(r) /\ Intact(r, key)
         /\ r.created_at = clock /\ r.expires_at = clock + call.contract.receipt_ttl
<1> DEFINE base == CoreReceipt(call, clock, key)
           r    == Verify(call, clock, key)
<1>1. WellShaped(base) /\ base.created_at = clock
      /\ base.expires_at = clock + call.contract.receipt_ttl
  BY CoreIsWellShaped
<1>2. Genuine(call, base)
  BY CoreReceiptIsGenuine
<1>3. WellShaped(r) /\ r.created_at = clock /\ r.expires_at = clock + call.contract.receipt_ttl
  BY <1>1, <1>2, SchemaIsWellShaped DEF Verify
<1>4. Genuine(call, r)
  BY VerifyIsGenuine
<1>5. r.signature = IF key = NULL THEN NULL ELSE Hmac(key, r.receipt_sha256)
  BY SignatureOfVerify
<1> HIDE DEF r
<1>6. r.receipt_sha256 # Malformed /\ r.signature # Malformed
  BY <1>4, <1>5 DEF Genuine, Distinct
<1>7. Decodes(r)
  BY <1>3, <1>4, <1>6 DEF Genuine, WellShaped, Decodes
<1>8. Intact(r, key)
  BY <1>4, <1>5 DEF Genuine, Intact, Authenticated, Distinct
<1> QED BY <1>3, <1>7, <1>8 DEF r
=============================================================================
