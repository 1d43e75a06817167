--------------------------- MODULE SentinelProofs ---------------------------
(***************************************************************************)
(* Proofs about Sentinel for every set of instances, workers, keys, calls  *)
(* and artifacts, every clock bound and every amount of damage.  What they *)
(* need to know of receipts is proved in ReceiptProofs.                    *)
(***************************************************************************)
EXTENDS Sentinel, ReceiptProofs

---------------------------------------------------------------------------
(* Type correctness.                                                       *)

\* TypeOK is inductive once job and receipts are known to be functions and a
\* worker that will answer with a receipt is known to have committed it.
TypeInv ==
  /\ TypeOK
  /\ job = [w \in Workers |-> job[w]]
  /\ \A w \in Workers : job[w].pc = "receipt" =>
       \E i \in issued : i.receipt = job[w].receipt

\* A freshly deployed service, with an empty table and no process, is well-typed.
LEMMA TypeInvInit == Init => TypeInv
<1> SUFFICES ASSUME Init PROVE TypeInv
  OBVIOUS
<1>1. receipts = << >> /\ DOMAIN receipts = {}
  BY DEF Init
<1>2. \A w \in Workers : job[w] = Idle /\ writer # w
  BY ValueAssumption DEF Init
<1>3. signing_key \in [Instances -> Keys \cup {Down}]
  BY DEF Init
<1>4. \A i \in Instances : signing_key[i] \notin WeakKeys \cup {Blank}
  BY ValueAssumption DEF Init
<1> QED BY <1>1, <1>2, <1>3, <1>4 DEF Init, TypeInv, TypeOK, Idle, Up

\* TypeInv is preserved by every step: one step per action of Next.
LEMMA TypeInvNext == TypeInv /\ [Next]_vars => TypeInv'
<1> SUFFICES ASSUME TypeInv, [Next]_vars PROVE TypeInv'
  OBVIOUS
<1> USE DEF TypeInv, TypeOK, Up
<1>1. ASSUME NEW i \in Instances, NEW value \in EnvKeys, Start(i, value) PROVE TypeInv'
  <2>1. ConfiguredKey(value) \in Keys
    BY <1>1 DEF Start, Keys
  <2>2. ConfiguredKey(value) \notin WeakKeys \cup {Blank}
    BY <1>1, ValueAssumption DEF Start, KeyAccepted, ConfiguredKey
  <2>3. ConfiguredKey(value) # Down
    BY ValueAssumption DEF ConfiguredKey
  <2> QED BY <1>1, <2>1, <2>2, <2>3, InstanceAssumption DEF Start
<1>2. ASSUME NEW i \in Instances, Crash(i) PROVE TypeInv'
  <2>1. job' = [w \in Workers |-> job'[w]]
    BY <1>2 DEF Crash
  <2>2. \A w \in Workers : job'[w] = IF Home[w] = i THEN Idle ELSE job[w]
    BY <1>2 DEF Crash
  <2>3. signing_key' \in [Instances -> Keys \cup {Down}]
        /\ \A j \in Instances : signing_key'[j] \notin WeakKeys \cup {Blank}
    BY <1>2, ValueAssumption DEF Crash
  <2>4. writer' \in Workers \cup {NULL}
    BY <1>2 DEF Crash
  <2>5. \A w \in Workers : job'[w].pc = "commit" <=> writer' = w
    BY <1>2, <2>2, ValueAssumption DEF Crash, Idle
  <2>6. \A w \in Workers : job'[w].pc # "idle" => signing_key'[Home[w]] # Down
    BY <1>2, <2>2, InstanceAssumption DEF Crash, Idle
  <2> QED BY <1>2, <2>1, <2>2, <2>3, <2>4, <2>5, <2>6 DEF Crash, Idle
<1>3. CASE Tick
  BY <1>3 DEF Tick
<1>4. CASE SetBack
  BY <1>4 DEF SetBack
<1>5. ASSUME NEW w \in Workers, NEW call, VerifyRefused(w, call) PROVE TypeInv'
  BY <1>5 DEF VerifyRefused, Error
<1>6. ASSUME NEW w \in Workers, NEW call, VerifyBegin(w, call) PROVE TypeInv'
  BY <1>6 DEF VerifyBegin, Saving
<1>7. ASSUME NEW w \in Workers, SaveBegin(w) PROVE TypeInv'
  BY <1>7, ValueAssumption DEF SaveBegin, Saving
<1>8. ASSUME NEW w \in Workers, SaveTimeout(w) PROVE TypeInv'
  BY <1>8 DEF SaveTimeout, Error
<1>9. ASSUME NEW w \in Workers, SaveCommit(w) PROVE TypeInv'
  <2> DEFINE r == job[w].receipt
             i == [call |-> job[w].call, receipt |-> r]
  <2>1. /\ job' = [job EXCEPT ![w] = Saving("receipt", job[w].call, r)]
        /\ issued' = issued \cup {i} /\ writer' = NULL
        /\ damaged' = damaged \ {r.receipt_id}
        /\ UNCHANGED <<now, setbacks, signing_key, delivered>>
        /\ job[w].pc = "commit"
    BY <1>9 DEF SaveCommit
  <2>2. DOMAIN receipts' = DOMAIN receipts \cup {r.receipt_id}
    BY <1>9 DEF SaveCommit
  <2>3. i.receipt = r
    OBVIOUS
  <2> HIDE DEF r, i
  <2>4. DOMAIN receipts' = {k.receipt.receipt_id : k \in issued'}
    BY <2>1, <2>2, <2>3
  <2>5. delivered' \subseteq {k.receipt : k \in issued'} /\ damaged' \subseteq DOMAIN receipts'
    BY <2>1, <2>2
  <2>6. \A v \in Workers : job'[v] = IF v = w THEN Saving("receipt", job[w].call, r) ELSE job[v]
    BY <2>1
  <2>7. \A v \in Workers :
          /\ job'[v].pc \in {"idle", "save", "commit", "receipt", "gate", "decision", "error"}
          /\ job'[v].pc # "idle" => Up(v)'
          /\ job'[v].pc = "commit" <=> writer' = v
    BY <2>1, <2>6, ValueAssumption DEF Saving
  <2>8. \A v \in Workers : job'[v].pc = "receipt" => \E k \in issued' : k.receipt = job'[v].receipt
    BY <2>1, <2>3, <2>6 DEF Saving
  <2>9. job' = [v \in Workers |-> job'[v]]
    BY <2>1
  <2> QED BY <2>1, <2>4, <2>5, <2>7, <2>8, <2>9
<1>10. ASSUME NEW w \in Workers, SaveFails(w) PROVE TypeInv'
  BY <1>10, ValueAssumption DEF SaveFails, Error
<1>11. ASSUME NEW w \in Workers, NEW call, GateRead(w, call) PROVE TypeInv'
  BY <1>11 DEF GateRead, Error
<1>12. ASSUME NEW w \in Workers, GateDecide(w) PROVE TypeInv'
  BY <1>12 DEF GateDecide
<1>13. ASSUME NEW w \in Workers, Answer(w) PROVE TypeInv'
  BY <1>13 DEF Answer, Idle
<1>14. ASSUME NEW id \in DOMAIN receipts, Damage(id) PROVE TypeInv'
  BY <1>14 DEF Damage
<1>15. CASE UNCHANGED vars
  BY <1>15 DEF vars
<1> QED
  BY <1>1, <1>2, <1>3, <1>4, <1>5, <1>6, <1>7, <1>8, <1>9, <1>10, <1>11, <1>12, <1>13,
     <1>14, <1>15 DEF Next, Step, Receive

\* In every behaviour a handler runs only in a live process, the lock has the
\* one owner that is committing, no deployment signs with a weak key, and every
\* row and every answer was committed (api.py, store.py).
THEOREM TypeCorrect == Spec => []TypeOK
<1>1. TypeInv => TypeOK
  BY DEF TypeInv
<1> QED BY TypeInvInit, TypeInvNext, <1>1, PTL DEF Spec

---------------------------------------------------------------------------
(* The gate is sound.                                                      *)

CommittedId(id) == \E i \in issued : i.receipt.receipt_id = id

\* What damage leaves of a row: the id of a committed receipt or none, and the
\* signature of one, of none or noise.  Nothing is known of the other fields, nor
\* that the row was committed under that id.
Traceable(r) ==
  /\ r = [f \in ReceiptFields |-> r[f]]
  /\ r.receipt_id = Noise \/ CommittedId(r.receipt_id)
  /\ \/ r.signature \in {NULL, Noise}
     \/ \E i \in issued : i.receipt.signature = r.signature

\* GateSound says nothing of handlers that have not decided yet: the inductive
\* invariant says what rows, snapshots and receipts on their way are made of.
IssuedGenuine == \A i \in issued : Genuine(i.call, i.receipt)

PendingGenuine ==
  \A w \in Workers : job[w].pc \in {"save", "commit", "receipt"} =>
    Genuine(job[w].call, job[w].receipt)

RowsTraceable ==
  /\ receipts = [id \in DOMAIN receipts |-> receipts[id]]
  /\ \A id \in DOMAIN receipts :
       receipts[id] # Unparsable =>
         /\ Traceable(receipts[id])
         /\ id \notin damaged => receipts[id].receipt_id = id

SnapshotsTraceable ==
  \A w \in Workers : job[w].pc = "gate" =>
    \/ job[w].stored = NULL
    \/ /\ Traceable(job[w].stored)
       /\ job[w].altered \/ job[w].stored.receipt_id = job[w].call.receipt_id

GateInv ==
  /\ TypeInv /\ IssuedGenuine /\ PendingGenuine /\ RowsTraceable
  /\ SnapshotsTraceable /\ GateSound

\* What an ALLOW for an artifact needs of an issued receipt.
Backs(i, r, call, key, clock) ==
  /\ Proves(i, call.artifact)
  /\ i.receipt.receipt_id = r.receipt_id
  /\ clock < i.receipt.expires_at
  /\ call.require_signed => SignedBy(i.receipt, key)

\* The heart of the argument: a row that the gate accepts says what was issued
\* under its digest, because the digest fixes the seed and the seed fixes
\* artifact, checks and expiry (api.py gate, core.py verify_receipt_integrity).
LEMMA DigestBacks ==
  ASSUME IssuedGenuine, NEW r, NEW call, NEW key, NEW clock, r # NULL,
         GateReasons(r, call, key, clock) = {},
         NEW i \in issued, i.receipt.receipt_sha256 = r.receipt_sha256
  PROVE  /\ Proves(i, call.artifact)
         /\ i.receipt.receipt_id = r.receipt_id
         /\ clock < i.receipt.expires_at
<1>1. /\ Decodes(r) /\ Intact(r, IntegrityKey(r, key)) /\ Current(r, clock)
      /\ r.artifact_sha256 = Sha256(call.artifact) /\ r.verdict = "PASS"
  BY NoReasons
<1>2. Genuine(i.call, i.receipt)
  BY DEF IssuedGenuine
<1>3. Seed(r) = Seed(i.receipt)
  BY <1>1, <1>2, Injective DEF Intact, Genuine
<1>4. /\ i.receipt.artifact_sha256 = r.artifact_sha256
      /\ i.receipt.checks = r.checks /\ i.receipt.expires_at = r.expires_at
  BY <1>3, SeedsAgree
<1>5. i.call.artifact = call.artifact
  <2>1. i.receipt.artifact_sha256 = Sha256(i.call.artifact)
    BY <1>2 DEF Genuine
  <2>2. Sha256(i.call.artifact) = Sha256(call.artifact)
    BY <1>1, <1>4, <2>1
  <2> QED BY <2>2, Injective
<1>6. Failing(r.checks, "BLOCK") = {} /\ Failing(r.checks, "WARN") = {}
  BY <1>1 DEF Decodes, VerdictOf
<1>7. i.receipt.receipt_id = r.receipt_id
  BY <1>1, <1>2 DEF Genuine, Decodes
<1> QED BY <1>1, <1>4, <1>5, <1>6, <1>7 DEF Proves, Current

\* A signature the gate accepts is over the digest of the receipt it was issued
\* with: it cannot be moved to another receipt (core.py _receipt_signature).
LEMMA SignatureBacks ==
  ASSUME IssuedGenuine, NEW r, NEW call, NEW key, NEW clock, r # NULL,
         GateReasons(r, call, key, clock) = {}, r.signature # NULL,
         NEW i \in issued, i.receipt.signature = r.signature
  PROVE  Backs(i, r, call, key, clock)
<1>1. key # NULL /\ r.signature = Hmac(key, r.receipt_sha256)
  <2>1. Intact(r, IntegrityKey(r, key))
    BY NoReasons
  <2> QED BY <2>1 DEF Intact, Authenticated, IntegrityKey
<1>2. OwnSignature(i.receipt)
  BY DEF IssuedGenuine, Genuine
<1>3. i.receipt.receipt_sha256 = r.receipt_sha256
  BY <1>1, <1>2, Injective DEF OwnSignature
<1>4. SignedBy(i.receipt, key)
  BY <1>1, <1>3 DEF SignedBy
<1> QED BY <1>3, <1>4, DigestBacks DEF Backs

\* However a row was altered, moved under another id or sealed again with
\* digests of its own, a gate that requires a signature allows it only for what
\* was issued under the id the row has: all that is assumed of the row is that
\* nobody but the service makes signatures with the key (api.py gate, core.py
\* verify_receipt_integrity).
THEOREM SignedAllowIsJustified ==
  ASSUME IssuedGenuine, NEW r, NEW call, NEW key, NEW clock, r # NULL,
         \A digest : r.signature = Hmac(key, digest) =>
           \E i \in issued : i.receipt.signature = r.signature,
         call.require_signed, GateReasons(r, call, key, clock) = {}
  PROVE  \E i \in issued : Backs(i, r, call, key, clock)
<1>1. r.signature # NULL /\ Intact(r, IntegrityKey(r, key))
  BY NoReasons
<1>2. r.signature = Hmac(key, r.receipt_sha256)
  BY <1>1 DEF Intact, Authenticated, IntegrityKey
<1>3. PICK i \in issued : i.receipt.signature = r.signature
  BY <1>2
<1> QED BY <1>1, <1>3, SignatureBacks

\* A row that is traceable, of whatever other fields and under whatever id it was
\* asked for, is allowed only for what was issued under the id the row has, with
\* or without a signature (api.py gate).
THEOREM AllowIsJustified ==
  ASSUME IssuedGenuine, NEW r, NEW call, NEW key, NEW clock,
         Traceable(r), r # NULL, GateReasons(r, call, key, clock) = {}
  PROVE  \E i \in issued : Backs(i, r, call, key, clock)
<1>1. /\ Decodes(r) /\ Intact(r, IntegrityKey(r, key))
      /\ call.require_signed => r.signature # NULL
  BY NoReasons
<1>2. r.receipt_id = ReceiptId(r.receipt_sha256)
  BY <1>1 DEF Decodes
<1>3. CASE r.signature \in {NULL, Noise}
  <2>1. ~call.require_signed
    BY <1>1, <1>3, Injective DEF Intact, Authenticated, IntegrityKey
  <2>2. PICK i \in issued : i.receipt.receipt_id = r.receipt_id
    BY <1>2, Injective DEF Traceable, CommittedId
  <2>3. i.receipt.receipt_sha256 = r.receipt_sha256
    <3>1. i.receipt.receipt_id = ReceiptId(i.receipt.receipt_sha256)
      BY DEF IssuedGenuine, Genuine
    <3> QED BY <1>2, <2>2, <3>1, Injective
  <2> QED BY <2>1, <2>3, DigestBacks DEF Backs
<1>4. CASE r.signature \notin {NULL, Noise}
  <2>1. PICK i \in issued : i.receipt.signature = r.signature
    BY <1>4 DEF Traceable
  <2> QED BY <1>4, <2>1, SignatureBacks
<1> QED BY <1>3, <1>4

\* An empty table and idle workers satisfy GateInv (store.py _initialize).
LEMMA GateInvInit == Init => GateInv
<1> SUFFICES ASSUME Init PROVE GateInv
  OBVIOUS
<1>1. TypeInv
  BY TypeInvInit
<1>2. issued = {} /\ DOMAIN receipts = {} /\ receipts = [id \in DOMAIN receipts |-> receipts[id]]
  BY DEF Init
<1>3. \A w \in Workers : job[w].pc = "idle"
  BY DEF Init, Idle
<1> QED
  BY <1>1, <1>2, <1>3
     DEF GateInv, IssuedGenuine, PendingGenuine, RowsTraceable, SnapshotsTraceable, GateSound

\* Rows and snapshots stay traceable as issued grows.
LEMMA IssuedGrows ==
  ASSUME issued \subseteq issued'
  PROVE  \A r : Traceable(r) => Traceable(r)'
BY DEF Traceable, CommittedId

\* What was issued is traceable.
LEMMA IssuedIsTraceable ==
  ASSUME IssuedGenuine, NEW i \in issued
  PROVE  Traceable(i.receipt)
BY DEF IssuedGenuine, Genuine, Traceable, CommittedId

\* A step that leaves the table, what was issued and the other workers alone
\* keeps GateInv if the stepping worker's new job is as GateInv says.
LEMMA OneJobChanges ==
  ASSUME GateInv, TypeInv', NEW w \in Workers, UNCHANGED <<receipts, issued, damaged>>,
         \A v \in Workers \ {w} : job'[v] = job[v],
         job'[w].pc \in {"save", "commit", "receipt"} =>
           Genuine(job'[w].call, job'[w].receipt),
         job'[w].pc = "gate" =>
           \/ job'[w].stored = NULL
           \/ /\ Traceable(job'[w].stored)
              /\ job'[w].altered \/ job'[w].stored.receipt_id = job'[w].call.receipt_id,
         (job'[w].pc = "decision" /\ job'[w].decision = "ALLOW") =>
           /\ \E i \in issued :
                /\ Proves(i, job'[w].call.artifact)
                /\ i.receipt.receipt_id = job'[w].receipt_id
                /\ job'[w].at < i.receipt.expires_at
                /\ job'[w].call.require_signed => SignedBy(i.receipt, job'[w].key)
           /\ job'[w].altered \/ job'[w].receipt_id = job'[w].call.receipt_id
  PROVE  GateInv'
<1>1. IssuedGenuine' /\ RowsTraceable'
  BY DEF GateInv, IssuedGenuine, RowsTraceable, Traceable, CommittedId
<1>2. PendingGenuine'
  BY DEF GateInv, PendingGenuine
<1>3. SnapshotsTraceable'
  BY DEF GateInv, SnapshotsTraceable, Traceable, CommittedId
<1>4. GateSound'
  BY DEF GateInv, GateSound
<1> QED BY <1>1, <1>2, <1>3, <1>4 DEF GateInv

\* What leaves the jobs alone and only takes rows to traceable rows, or takes
\* jobs to idle, keeps GateInv.
LEMMA JobsEnd ==
  ASSUME GateInv, TypeInv', UNCHANGED issued, RowsTraceable',
         \A w \in Workers : job'[w] = job[w] \/ job'[w] = Idle
  PROVE  GateInv'
<1>1. IssuedGenuine' /\ PendingGenuine' /\ SnapshotsTraceable'
  BY DEF GateInv, IssuedGenuine, PendingGenuine, SnapshotsTraceable, Traceable, CommittedId, Idle
<1>2. GateSound'
  BY DEF GateInv, GateSound, Idle
<1> QED BY <1>1, <1>2 DEF GateInv

\* One field of a row altered, or another receipt's text in its place, leaves a
\* traceable row.
LEMMA DamageIsTraceable ==
  ASSUME IssuedGenuine, NEW r, Traceable(r),
         NEW altered \in AlteredForms(r) \cup {i.receipt : i \in issued}
  PROVE  Traceable(altered)
<1>1. r = [f \in ReceiptFields |-> r[f]]
  BY DEF Traceable
<1>2. \/ \E f \in ReceiptFields \ {"receipt_id", "signature"} : \E x : altered = [r EXCEPT ![f] = x]
      \/ altered = [r EXCEPT !.receipt_id = Noise]
      \/ altered = [r EXCEPT !.signature = NULL] \/ altered = [r EXCEPT !.signature = Noise]
      \/ altered \in {i.receipt : i \in issued}
  BY DEF AlteredForms, ReceiptFields
<1>3. ASSUME NEW f \in ReceiptFields \ {"receipt_id", "signature"}, NEW x,
             altered = [r EXCEPT ![f] = x]
      PROVE  Traceable(altered)
  <2>1. altered.receipt_id = r.receipt_id /\ altered.signature = r.signature
    BY <1>1, <1>3 DEF ReceiptFields
  <2>2. altered = [g \in ReceiptFields |-> altered[g]]
    BY <1>1, <1>3
  <2> QED BY <2>1, <2>2 DEF Traceable
<1>4. CASE altered = [r EXCEPT !.signature = NULL] \/ altered = [r EXCEPT !.signature = Noise]
  <2>1. altered.receipt_id = r.receipt_id /\ altered.signature \in {NULL, Noise}
    BY <1>1, <1>4 DEF ReceiptFields
  <2>2. altered = [g \in ReceiptFields |-> altered[g]]
    BY <1>1, <1>4
  <2> QED BY <2>1, <2>2 DEF Traceable
<1>5. CASE altered = [r EXCEPT !.receipt_id = Noise]
  <2>1. altered.receipt_id = Noise /\ altered.signature = r.signature
    BY <1>1, <1>5 DEF ReceiptFields
  <2>2. altered = [g \in ReceiptFields |-> altered[g]]
    BY <1>1, <1>5
  <2> QED BY <2>1, <2>2 DEF Traceable
<1>6. CASE altered \in {i.receipt : i \in issued}
  BY <1>6, IssuedIsTraceable
<1> QED BY <1>2, <1>3, <1>4, <1>5, <1>6

\* A commit makes a traceable row, whatever row it replaces.
LEMMA CommitKeepsGateInv ==
  ASSUME GateInv, TypeInv', NEW w \in Workers, SaveCommit(w)
  PROVE  GateInv'
<1>1. PICK call, r :
        /\ call = job[w].call /\ r = job[w].receipt
        /\ receipts' = [id \in DOMAIN receipts \cup {r.receipt_id} |->
                          IF id = r.receipt_id THEN r ELSE receipts[id]]
        /\ issued' = issued \cup {[call |-> call, receipt |-> r]}
        /\ damaged' = damaged \ {r.receipt_id}
        /\ job' = [job EXCEPT ![w] = Saving("receipt", call, r)]
        /\ job[w].pc = "commit"
  BY DEF SaveCommit
<1>2. Genuine(call, r)
  BY <1>1 DEF GateInv, PendingGenuine
<1>3. \A v \in Workers : job'[v] = IF v = w THEN Saving("receipt", call, r) ELSE job[v]
  BY <1>1 DEF GateInv, TypeInv
<1>4. IssuedGenuine'
  BY <1>1, <1>2 DEF GateInv, IssuedGenuine
<1>5. PendingGenuine'
  BY <1>2, <1>3 DEF GateInv, PendingGenuine, Saving
<1>6. RowsTraceable'
  <2>1. Traceable(r)'
    <3>1. \E i \in issued' : i.receipt = r
      <4>1. [call |-> call, receipt |-> r] \in issued'
        BY <1>1
      <4>2. [call |-> call, receipt |-> r].receipt = r
        OBVIOUS
      <4> QED BY <4>1, <4>2
    <3> QED BY <1>2, <3>1 DEF Genuine, Traceable, CommittedId
  <2>2. \A row : Traceable(row) => Traceable(row)'
    BY <1>1, IssuedGrows
  <2>3. ASSUME NEW id \in DOMAIN receipts', receipts'[id] # Unparsable
        PROVE  /\ Traceable(receipts[id])'
               /\ id \notin damaged' => receipts'[id].receipt_id = id
    <3>1. CASE id = r.receipt_id
      <4>1. receipts'[id] = r
        BY <1>1, <3>1
      <4> QED BY <2>1, <3>1, <4>1 DEF Traceable, CommittedId
    <3>2. CASE id # r.receipt_id
      <4>1. PICK row : row = receipts[id]
        OBVIOUS
      <4>2. /\ receipts'[id] = row /\ Traceable(row)
            /\ id \notin damaged' => row.receipt_id = id
        BY <1>1, <2>3, <3>2, <4>1 DEF GateInv, RowsTraceable
      <4>3. Traceable(row)'
        BY <2>2, <4>2
      <4>4. Traceable(receipts[id])'
        BY <4>2, <4>3 DEF Traceable, CommittedId
      <4> QED BY <4>2, <4>4
    <3> QED BY <3>1, <3>2
  <2>4. receipts' = [id \in DOMAIN receipts' |-> receipts'[id]]
    BY <1>1
  <2> QED BY <2>3, <2>4 DEF RowsTraceable
<1>7. SnapshotsTraceable'
  <2>1. ASSUME NEW v \in Workers, job'[v].pc = "gate", job'[v].stored # NULL
        PROVE  /\ Traceable(job[v].stored)'
               /\ job'[v].altered \/ job'[v].stored.receipt_id = job'[v].call.receipt_id
    <3>1. PICK stored : stored = job[v].stored
      OBVIOUS
    <3>2. job'[v] = job[v]
      BY <1>3, <2>1 DEF Saving
    <3>3. Traceable(stored) /\ (job[v].altered \/ job[v].stored.receipt_id = job[v].call.receipt_id)
      BY <2>1, <3>1, <3>2 DEF GateInv, SnapshotsTraceable
    <3>4. Traceable(stored)'
      BY <1>1, <3>3, IssuedGrows
    <3> QED BY <3>1, <3>2, <3>3, <3>4 DEF Traceable, CommittedId
  <2> QED BY <2>1 DEF SnapshotsTraceable
<1>8. GateSound'
  BY <1>1, <1>3 DEF GateInv, GateSound, Saving
<1> QED BY <1>4, <1>5, <1>6, <1>7, <1>8 DEF GateInv

\* GateInv is preserved by every step: one step per action of Next.
LEMMA GateInvNext == GateInv /\ [Next]_vars => GateInv'
<1> SUFFICES ASSUME GateInv, [Next]_vars PROVE GateInv'
  OBVIOUS
<1>0. TypeInv'
  BY TypeInvNext DEF GateInv
<1>a. job = [w \in Workers |-> job[w]]
  BY DEF GateInv, TypeInv
<1>1. ASSUME NEW i \in Instances, NEW value \in EnvKeys, Start(i, value) PROVE GateInv'
  <2>1. RowsTraceable'
    BY <1>1 DEF Start, GateInv, RowsTraceable, Traceable, CommittedId
  <2> QED BY <1>0, <1>1, <2>1, JobsEnd DEF Start
<1>2. ASSUME NEW i \in Instances, Crash(i) PROVE GateInv'
  <2>1. RowsTraceable'
    BY <1>2 DEF Crash, GateInv, RowsTraceable, Traceable, CommittedId
  <2> QED BY <1>0, <1>2, <2>1, JobsEnd DEF Crash
<1>3. CASE Tick \/ SetBack \/ UNCHANGED vars
  <2>1. UNCHANGED <<receipts, job, issued, damaged>>
    BY <1>3 DEF Tick, SetBack, vars
  <2>2. RowsTraceable'
    BY <2>1 DEF GateInv, RowsTraceable, Traceable, CommittedId
  <2> QED BY <1>0, <2>1, <2>2, JobsEnd
<1>4. ASSUME NEW w \in Workers, NEW call, VerifyRefused(w, call) PROVE GateInv'
  <2>1. job'[w] = Error /\ \A v \in Workers \ {w} : job'[v] = job[v]
    BY <1>a, <1>4 DEF VerifyRefused
  <2> QED BY <1>0, <1>4, <2>1, OneJobChanges DEF VerifyRefused, Error
<1>5. ASSUME NEW w \in Workers, NEW call, VerifyBegin(w, call) PROVE GateInv'
  <2>1. PICK r : r = Verify(call, now, signing_key[Home[w]])
                 /\ job' = [job EXCEPT ![w] = Saving("save", call, r)]
    BY <1>5 DEF VerifyBegin
  <2>2. Genuine(call, r)
    BY <2>1, VerifyIsGenuine
  <2>3. job'[w] = Saving("save", call, r) /\ \A v \in Workers \ {w} : job'[v] = job[v]
    BY <1>a, <2>1
  <2> QED BY <1>0, <1>5, <2>2, <2>3, OneJobChanges DEF VerifyBegin, Saving
<1>6. ASSUME NEW w \in Workers, SaveBegin(w) PROVE GateInv'
  <2>1. PICK call, r : call = job[w].call /\ r = job[w].receipt
    OBVIOUS
  <2>2. job'[w] = Saving("commit", call, r) /\ \A v \in Workers \ {w} : job'[v] = job[v]
    BY <1>a, <1>6, <2>1 DEF SaveBegin
  <2>3. Genuine(call, r)
    BY <1>6, <2>1 DEF SaveBegin, GateInv, PendingGenuine
  <2> QED BY <1>0, <1>6, <2>2, <2>3, OneJobChanges DEF SaveBegin, Saving
<1>7. ASSUME NEW w \in Workers, SaveTimeout(w) \/ SaveFails(w) PROVE GateInv'
  <2>1. job'[w] = Error /\ \A v \in Workers \ {w} : job'[v] = job[v]
    BY <1>a, <1>7 DEF SaveTimeout, SaveFails
  <2> QED BY <1>0, <1>7, <2>1, OneJobChanges DEF SaveTimeout, SaveFails, Error
<1>8. ASSUME NEW w \in Workers, SaveCommit(w) PROVE GateInv'
  BY <1>0, <1>8, CommitKeepsGateInv
<1>9. ASSUME NEW w \in Workers, NEW call, GateRead(w, call) PROVE GateInv'
  <2>1. PICK stored, known, altered :
          /\ stored = IF call.receipt_id \in DOMAIN receipts
                      THEN receipts[call.receipt_id] ELSE NULL
          /\ altered = (call.receipt_id \in damaged)
          /\ job' = [job EXCEPT ![w] =
                       IF stored = Unparsable THEN Error
                       ELSE [pc |-> "gate", call |-> call, stored |-> stored,
                             altered |-> altered, known |-> known]]
    BY <1>9 DEF GateRead
  <2>2. \A v \in Workers \ {w} : job'[v] = job[v]
    BY <1>a, <2>1
  <2>3. CASE stored = Unparsable
    <3>1. job'[w] = Error
      BY <1>a, <2>1, <2>3
    <3> QED BY <1>0, <1>9, <2>2, <3>1, OneJobChanges DEF GateRead, Error
  <2>4. CASE stored # Unparsable
    <3>1. /\ job'[w].pc = "gate" /\ job'[w].stored = stored /\ job'[w].call = call
          /\ job'[w].altered = altered
      BY <1>a, <2>1, <2>4
    <3>2. stored = NULL \/ (Traceable(stored) /\ (altered \/ stored.receipt_id = call.receipt_id))
      BY <2>1, <2>4 DEF GateInv, RowsTraceable
    <3> QED BY <1>0, <1>9, <2>2, <3>1, <3>2, OneJobChanges DEF GateRead
  <2> QED BY <2>3, <2>4
<1>10. ASSUME NEW w \in Workers, GateDecide(w) PROVE GateInv'
  <2>1. PICK stored, call, key, known, reasons, id, altered :
          /\ stored = job[w].stored /\ call = job[w].call /\ altered = job[w].altered
          /\ reasons = GateReasons(stored, call, key, now)
          /\ id = AnsweredId(stored, call)
          /\ job' = [job EXCEPT ![w] =
                       [pc |-> "decision", call |-> call, reasons |-> reasons,
                        receipt_id |-> id, altered |-> altered,
                        decision |-> IF reasons = {} THEN "ALLOW" ELSE "BLOCK",
                        at |-> now, key |-> key, known |-> known]]
    BY <1>10 DEF GateDecide
  <2>2. /\ job'[w].pc = "decision" /\ job'[w].call = call /\ job'[w].receipt_id = id
        /\ job'[w].altered = altered /\ job'[w].at = now /\ job'[w].key = key
        /\ job'[w].decision = "ALLOW" => reasons = {}
        /\ \A v \in Workers \ {w} : job'[v] = job[v]
    BY <1>a, <2>1
  <2>3. stored = NULL \/ (Traceable(stored) /\ (altered \/ stored.receipt_id = call.receipt_id))
    BY <1>10, <2>1 DEF GateDecide, GateInv, SnapshotsTraceable
  <2>4. reasons = {} => stored # NULL /\ id = stored.receipt_id
    BY <2>1, NoReasons DEF GateReasons, AnsweredId
  <2>5. reasons = {} =>
          /\ \E i \in issued :
               /\ Proves(i, call.artifact)
               /\ i.receipt.receipt_id = id
               /\ now < i.receipt.expires_at
               /\ call.require_signed => SignedBy(i.receipt, key)
          /\ altered \/ id = call.receipt_id
    <3>1. reasons = {} => \E i \in issued : Backs(i, stored, call, key, now)
      BY <2>1, <2>3, <2>4, AllowIsJustified DEF GateInv
    <3> QED BY <2>3, <2>4, <3>1 DEF Backs
  <2> QED BY <1>0, <1>10, <2>2, <2>5, OneJobChanges DEF GateDecide
<1>11. ASSUME NEW w \in Workers, Answer(w) PROVE GateInv'
  <2>1. job'[w] = Idle /\ \A v \in Workers \ {w} : job'[v] = job[v]
    BY <1>a, <1>11 DEF Answer
  <2> QED BY <1>0, <1>11, <2>1, OneJobChanges DEF Answer, Idle
<1>12. ASSUME NEW id \in DOMAIN receipts, Damage(id) PROVE GateInv'
  <2>1. PICK altered \in AlteredForms(receipts[id]) \cup {i.receipt : i \in issued} \cup {Unparsable} :
          receipts' = [receipts EXCEPT ![id] = altered]
    BY <1>12 DEF Damage
  <2>2. altered = Unparsable \/ Traceable(altered)
    BY <1>12, <2>1, DamageIsTraceable DEF Damage, GateInv, RowsTraceable
  <2>3. RowsTraceable'
    <3>1. /\ \A k \in DOMAIN receipts \ {id} : receipts'[k] = receipts[k]
          /\ receipts'[id] = altered /\ DOMAIN receipts' = DOMAIN receipts
          /\ receipts' = [k \in DOMAIN receipts' |-> receipts'[k]]
      BY <2>1
    <3>2. UNCHANGED issued /\ damaged' = damaged \cup {id}
      BY <1>12 DEF Damage
    <3>3. \A k \in DOMAIN receipts :
            receipts[k] # Unparsable =>
              Traceable(receipts[k]) /\ (k \notin damaged => receipts[k].receipt_id = k)
      BY DEF GateInv, RowsTraceable
    <3>4. ASSUME NEW k \in DOMAIN receipts', receipts'[k] # Unparsable
          PROVE  Traceable(receipts[k])' /\ (k \notin damaged' => receipts'[k].receipt_id = k)
      <4>1. CASE k = id
        BY <2>2, <3>1, <3>2, <3>4, <4>1 DEF Traceable, CommittedId
      <4>2. CASE k # id
        BY <3>1, <3>2, <3>3, <3>4, <4>2 DEF Traceable, CommittedId
      <4> QED BY <4>1, <4>2
    <3> QED BY <3>1, <3>4 DEF RowsTraceable
  <2> QED BY <1>0, <1>12, <2>3, JobsEnd DEF Damage
<1> QED
  BY <1>1, <1>2, <1>3, <1>4, <1>5, <1>6, <1>7, <1>8, <1>9, <1>10, <1>11, <1>12
     DEF Next, Step, Receive

\* In every behaviour an ALLOW of the gate is backed by a receipt that was
\* committed for the artifact in hand, passed every check, was current when the
\* gate decided and, where required, carries this instance's signature, through
\* crashes, replaced rows, key rotation, clock steps and any number of rows altered
\* or swapped; only an altered row makes it another receipt than the caller named
\* (api.py gate).
THEOREM GateIsSound == Spec => []GateSound
<1>1. GateInv => GateSound
  BY DEF GateInv
<1> QED BY GateInvInit, GateInvNext, <1>1, PTL DEF Spec

---------------------------------------------------------------------------
(* Receipts are durable and final.                                         *)

\* Rows that were not altered outside the service are what was committed.
UndamagedIssued ==
  \A id \in DOMAIN receipts \ damaged :
    \E i \in issued : i.receipt = receipts[id] /\ i.receipt.receipt_id = id

DurableInv == GateInv /\ UndamagedIssued

\* Nothing was delivered and no row is kept before the first call.
LEMMA DurableInvInit == Init => DurableInv
<1> SUFFICES ASSUME Init PROVE DurableInv
  OBVIOUS
<1>1. DOMAIN receipts = {}
  BY DEF Init
<1> QED BY <1>1, GateInvInit DEF DurableInv, UndamagedIssued

\* Only a commit and damage touch rows: a commit makes its row undamaged and
\* issued, damage marks the row it alters.
LEMMA DurableInvNext == DurableInv /\ [Next]_vars => DurableInv'
<1> SUFFICES ASSUME DurableInv, [Next]_vars PROVE DurableInv'
  OBVIOUS
<1>1. GateInv'
  BY GateInvNext DEF DurableInv
<1>2. CASE UNCHANGED <<receipts, issued, damaged>>
  BY <1>1, <1>2 DEF DurableInv, UndamagedIssued
<1>3. ASSUME NEW w \in Workers, SaveCommit(w) PROVE DurableInv'
  <2>1. PICK call, r :
          /\ receipts' = [id \in DOMAIN receipts \cup {r.receipt_id} |->
                            IF id = r.receipt_id THEN r ELSE receipts[id]]
          /\ damaged' = damaged \ {r.receipt_id}
          /\ issued' = issued \cup {[call |-> call, receipt |-> r]}
    BY <1>3 DEF SaveCommit
  <2>2. [call |-> call, receipt |-> r] \in issued' /\ [call |-> call, receipt |-> r].receipt = r
    BY <2>1
  <2>3. ASSUME NEW id \in DOMAIN receipts' \ damaged'
        PROVE  \E i \in issued' : i.receipt = receipts'[id] /\ i.receipt.receipt_id = id
    <3>1. CASE id = r.receipt_id
      BY <2>1, <2>2, <3>1
    <3>2. CASE id # r.receipt_id
      <4>1. id \in DOMAIN receipts \ damaged /\ receipts'[id] = receipts[id]
        BY <2>1, <3>2
      <4> QED BY <2>1, <4>1 DEF DurableInv, UndamagedIssued
    <3> QED BY <3>1, <3>2
  <2> QED BY <1>1, <2>3 DEF DurableInv, UndamagedIssued
<1>4. ASSUME NEW id \in DOMAIN receipts, Damage(id) PROVE DurableInv'
  <2>1. /\ damaged' = damaged \cup {id} /\ issued' = issued
        /\ DOMAIN receipts' = DOMAIN receipts
        /\ \A k \in DOMAIN receipts \ {id} : receipts'[k] = receipts[k]
    BY <1>4 DEF Damage
  <2> QED BY <1>1, <2>1 DEF DurableInv, UndamagedIssued
<1> QED
  BY <1>2, <1>3, <1>4
     DEF Next, Step, Receive, vars, Start, Crash, Tick, SetBack, VerifyRefused, VerifyBegin,
         SaveBegin, SaveTimeout, SaveFails, GateRead, GateDecide, Answer

\* Whatever a caller was given is found in the table in every later state, with
\* everything it said but perhaps the signature (api.py verify, store.py save).
THEOREM AcknowledgedIsDurable == Spec => []AcknowledgedDurable
<1>1. DurableInv => AcknowledgedDurable
  <2> SUFFICES ASSUME DurableInv, NEW d \in delivered, d.receipt_id \notin damaged
               PROVE  /\ d.receipt_id \in DOMAIN receipts
                      /\ [receipts[d.receipt_id] EXCEPT !.signature = d.signature] = d
    BY DEF AcknowledgedDurable
  <2>1. PICK i \in issued : i.receipt = d
    BY DEF DurableInv, GateInv, TypeInv, TypeOK
  <2>2. d.receipt_id \in DOMAIN receipts
    BY <2>1 DEF DurableInv, GateInv, TypeInv, TypeOK
  <2>3. PICK k \in issued : k.receipt = receipts[d.receipt_id]
                            /\ k.receipt.receipt_id = d.receipt_id
    BY <2>2 DEF DurableInv, UndamagedIssued
  <2>4. Genuine(i.call, d) /\ Genuine(k.call, k.receipt)
    BY <2>1 DEF DurableInv, GateInv, IssuedGenuine
  <2>5. Signed(k.receipt, d.signature) = Signed(d, d.signature)
    BY <2>3, <2>4, SameButSignature
  <2>6. [d EXCEPT !.signature = d.signature] = d
    BY <2>4 DEF Genuine
  <2> QED BY <2>2, <2>3, <2>5, <2>6 DEF Signed
<1> QED BY DurableInvInit, DurableInvNext, <1>1, PTL DEF Spec

\* No step changes what an unaltered row says: INSERT OR REPLACE can only
\* replace its signature (store.py save).
THEOREM RowsAreFinal == Spec => ReceiptsAreFinal
<1> DEFINE Final ==
      \A id \in DOMAIN receipts : id \notin damaged \cup damaged' =>
        [receipts'[id] EXCEPT !.signature = NULL] = [receipts[id] EXCEPT !.signature = NULL]
<1>1. DurableInv /\ [Next]_vars => [Final]_vars
  <2> SUFFICES ASSUME DurableInv, [Next]_vars, NEW id \in DOMAIN receipts,
                      id \notin damaged \cup damaged'
               PROVE  [receipts'[id] EXCEPT !.signature = NULL]
                        = [receipts[id] EXCEPT !.signature = NULL]
    OBVIOUS
  <2>1. CASE receipts' = receipts
    BY <2>1
  <2>2. ASSUME NEW w \in Workers, SaveCommit(w)
        PROVE  [receipts'[id] EXCEPT !.signature = NULL]
                 = [receipts[id] EXCEPT !.signature = NULL]
    <3>1. PICK i \in issued : i.receipt = receipts[id] /\ i.receipt.receipt_id = id
      BY DEF DurableInv, UndamagedIssued
    <3>2. Genuine(i.call, i.receipt)
      BY DEF DurableInv, GateInv, IssuedGenuine
    <3>3. Genuine(job[w].call, job[w].receipt)
      BY <2>2 DEF DurableInv, GateInv, PendingGenuine, SaveCommit
    <3>4. receipts'[id] = IF id = job[w].receipt.receipt_id THEN job[w].receipt ELSE receipts[id]
      BY <2>2 DEF SaveCommit
    <3>5. Signed(receipts'[id], NULL) = Signed(receipts[id], NULL)
      <4>1. CASE id = job[w].receipt.receipt_id
        <5>1. Signed(job[w].receipt, NULL) = Signed(i.receipt, NULL)
          BY <3>1, <3>2, <3>3, <4>1, SameButSignature
        <5> QED BY <3>1, <3>4, <4>1, <5>1
      <4>2. CASE id # job[w].receipt.receipt_id
        BY <3>4, <4>2
      <4> QED BY <4>1, <4>2
    <3> QED BY <3>5 DEF Signed
  <2>3. ASSUME NEW k \in DOMAIN receipts, Damage(k) PROVE receipts'[id] = receipts[id]
    BY <2>3 DEF Damage
  <2> QED
    BY <2>1, <2>2, <2>3
       DEF Next, Step, Receive, vars, Start, Crash, Tick, SetBack, VerifyRefused,
           VerifyBegin, SaveBegin, SaveTimeout, SaveFails, GateRead, GateDecide, Answer
<1> QED BY DurableInvInit, DurableInvNext, <1>1, PTL DEF Spec, ReceiptsAreFinal

---------------------------------------------------------------------------
(* The gate does not block what it should allow.                           *)

Sound(r) == Decodes(r) /\ r.expires_at \in Nat

Reissued(d, done) ==
  \E i \in done : i.receipt.receipt_id = d.receipt_id /\ i.receipt.signature # d.signature

\* What a receipt the caller knows says for a BLOCK.
Excused(d, j, done) ==
  \/ d.artifact_sha256 # Sha256(j.call.artifact) \/ d.verdict # "PASS"
  \/ j.at >= d.expires_at
  \/ d.signature = NULL /\ j.call.require_signed
  \/ d.signature # NULL /\ ~SignedBy(d, j.key)
  \/ Reissued(d, done)

JobOK(j, done) ==
  /\ j.pc \in {"save", "commit", "receipt"} => Sound(j.receipt)
  /\ j.pc = "gate" =>
       \A d \in j.known : /\ \E i \in done : i.receipt = d
                          /\ j.stored = d \/ Reissued(d, done)
  /\ j.pc = "decision" /\ j.decision = "BLOCK" => \A d \in j.known : Excused(d, j, done)

\* Receipts are sound from when they are made, and what a gate holds is the receipt
\* its caller knows, or that one was issued again under another key.
CompleteInv ==
  /\ DurableInv
  /\ \A i \in issued : Sound(i.receipt)
  /\ \A w \in Workers : JobOK(job[w], issued)

\* Nothing was issued and no worker has a job before the first call.
LEMMA CompleteInvInit == Init => CompleteInv
BY DurableInvInit DEF Init, Idle, CompleteInv, JobOK

\* A job stays as it should be while more is issued.
LEMMA JobsStayOK ==
  ASSUME CompleteInv, DurableInv', issued \subseteq issued',
         \A i \in issued' \ issued : Sound(i.receipt),
         \A w \in Workers : job'[w] = job[w] \/ JobOK(job'[w], issued')
  PROVE  CompleteInv'
<1>1. ASSUME NEW j, JobOK(j, issued) PROVE JobOK(j, issued')
  BY <1>1 DEF JobOK, Excused, Reissued
<1>2. \A w \in Workers : JobOK(job'[w], issued')
  BY <1>1 DEF CompleteInv
<1> QED BY <1>2 DEF CompleteInv

\* A gate that reads finds the receipt its caller knows, or the one that
\* replaced it (store.py get).
LEMMA ReadIsKnown ==
  ASSUME DurableInv, NEW d \in delivered, d.receipt_id \notin damaged
  PROVE  /\ d.receipt_id \in DOMAIN receipts
         /\ \E i \in issued : i.receipt = d
         /\ receipts[d.receipt_id] = d \/ Reissued(d, issued)
<1>1. PICK i \in issued : i.receipt = d
  BY DEF DurableInv, GateInv, TypeInv, TypeOK
<1>2. d.receipt_id \in DOMAIN receipts
  BY <1>1 DEF DurableInv, GateInv, TypeInv, TypeOK
<1>3. PICK k \in issued : k.receipt = receipts[d.receipt_id] /\ k.receipt.receipt_id = d.receipt_id
  BY <1>2 DEF DurableInv, UndamagedIssued
<1>4. Genuine(i.call, d) /\ Genuine(k.call, k.receipt)
  BY <1>1 DEF DurableInv, GateInv, IssuedGenuine
<1>5. Signed(k.receipt, d.signature) = Signed(d, d.signature)
  BY <1>3, <1>4, SameButSignature
<1>6. k.receipt.signature = d.signature => k.receipt = d
  BY <1>4, <1>5 DEF Genuine, Signed
<1> QED BY <1>1, <1>2, <1>3, <1>6 DEF Reissued

\* A decision about the receipt the caller knows is ALLOW unless it is excused.
LEMMA DecisionIsExcused ==
  ASSUME NoneIsNoReceipt, NEW c, NEW d, Genuine(c, d), Decodes(d), NEW call, NEW key, NEW clock \in Nat,
         GateReasons(d, call, key, clock) # {}
  PROVE  \/ d.artifact_sha256 # Sha256(call.artifact) \/ d.verdict # "PASS"
         \/ ~(clock < d.expires_at)
         \/ d.signature = NULL /\ call.require_signed
         \/ d.signature # NULL /\ ~SignedBy(d, key)
BY NothingAgainst DEF SignedBy

\* CompleteInv is preserved by every step: one step per action that changes a job.
LEMMA CompleteInvNext ==
  ASSUME Distinct, NoneIsNoReceipt, \A call \in Calls : HasPolicy(call)
  PROVE  CompleteInv /\ [Next]_vars => CompleteInv'
<1> SUFFICES ASSUME CompleteInv, [Next]_vars PROVE CompleteInv'
  OBVIOUS
<1>0. DurableInv'
  BY DurableInvNext DEF CompleteInv
<1>a. job = [w \in Workers |-> job[w]]
  BY DEF CompleteInv, DurableInv, GateInv, TypeInv
<1>1. CASE UNCHANGED <<issued, job>>
  BY <1>0, <1>1, JobsStayOK
<1>2. ASSUME UNCHANGED issued, \A w \in Workers : job'[w] \in {job[w], Idle, Error}
      PROVE  CompleteInv'
  BY <1>0, <1>2, JobsStayOK DEF JobOK, Idle, Error
<1>3. ASSUME NEW w \in Workers, NEW call \in Calls, VerifyBegin(w, call) PROVE CompleteInv'
  <2>1. PICK r : r = Verify(call, now, signing_key[Home[w]])
                 /\ job' = [job EXCEPT ![w] = Saving("save", call, r)]
    BY <1>3 DEF VerifyBegin
  <2>2. Sound(r)
    <3>1. PICK ttl : ttl = call.contract.receipt_ttl
      OBVIOUS
    <3>2. now \in Nat /\ HasPolicy(call) /\ ~Rejects(call)
      BY <1>3 DEF VerifyBegin, CompleteInv, DurableInv, GateInv, TypeInv, TypeOK
    <3>3. ttl \in Nat
      BY <3>1, <3>2 DEF Rejects, WithinBounds
    <3>4. Decodes(r) /\ r.expires_at = now + ttl
      BY <2>1, <3>1, <3>2, VerifyIsAccepted
    <3> QED BY <3>2, <3>3, <3>4 DEF Sound
  <2>3. \A v \in Workers : job'[v] = job[v] \/ job'[v] = Saving("save", call, r)
    BY <1>a, <2>1
  <2>4. JobOK(Saving("save", call, r), issued')
    BY <2>2 DEF JobOK, Saving
  <2> QED BY <1>0, <1>3, <2>3, <2>4, JobsStayOK DEF VerifyBegin
<1>4. ASSUME NEW w \in Workers, SaveBegin(w) PROVE CompleteInv'
  <2>1. PICK call, r : call = job[w].call /\ r = job[w].receipt
    OBVIOUS
  <2>2. \A v \in Workers : job'[v] = job[v] \/ job'[v] = Saving("commit", call, r)
    BY <1>a, <1>4, <2>1 DEF SaveBegin
  <2>3. Sound(r)
    BY <1>4, <2>1 DEF SaveBegin, CompleteInv, JobOK
  <2>4. JobOK(Saving("commit", call, r), issued')
    BY <2>3 DEF JobOK, Saving
  <2> QED BY <1>0, <1>4, <2>2, <2>4, JobsStayOK DEF SaveBegin
<1>5. ASSUME NEW w \in Workers, SaveCommit(w) PROVE CompleteInv'
  <2>1. PICK call, r :
          /\ call = job[w].call /\ r = job[w].receipt
          /\ issued' = issued \cup {[call |-> call, receipt |-> r]}
          /\ job' = [job EXCEPT ![w] = Saving("receipt", call, r)]
          /\ job[w].pc = "commit"
    BY <1>5 DEF SaveCommit
  <2>2. \A v \in Workers : job'[v] = job[v] \/ job'[v] = Saving("receipt", call, r)
    BY <1>a, <2>1
  <2>3. Sound(r)
    BY <2>1 DEF CompleteInv, JobOK
  <2>4. JobOK(Saving("receipt", call, r), issued')
    BY <2>3 DEF JobOK, Saving
  <2>5. \A i \in issued' \ issued : Sound(i.receipt)
    BY <2>1, <2>3
  <2> QED BY <1>0, <2>1, <2>2, <2>4, <2>5, JobsStayOK
<1>6. ASSUME NEW w \in Workers, NEW call, GateRead(w, call) PROVE CompleteInv'
  <2>1. PICK stored, known, altered :
          /\ stored = IF call.receipt_id \in DOMAIN receipts
                      THEN receipts[call.receipt_id] ELSE NULL
          /\ known = {d \in delivered : /\ d.receipt_id = call.receipt_id
                                        /\ d.receipt_id \notin damaged}
          /\ job' = [job EXCEPT ![w] =
                       IF stored = Unparsable THEN Error
                       ELSE [pc |-> "gate", call |-> call, stored |-> stored,
                             altered |-> altered, known |-> known]]
    BY <1>6 DEF GateRead
  <2> DEFINE j == [pc |-> "gate", call |-> call, stored |-> stored,
                   altered |-> altered, known |-> known]
  <2>2. \A v \in Workers : job'[v] = job[v] \/ job'[v] = Error \/ job'[v] = j
    BY <1>a, <2>1
  <2>3. \A d \in known : (\E i \in issued : i.receipt = d) /\ (stored = d \/ Reissued(d, issued))
    BY <2>1, ReadIsKnown DEF CompleteInv
  <2>4. j.pc = "gate" /\ j.known = known /\ j.stored = stored
    OBVIOUS
  <2> HIDE DEF j
  <2>5. JobOK(j, issued) /\ JobOK(Error, issued)
    BY <2>3, <2>4 DEF JobOK, Error
  <2> QED BY <1>0, <1>6, <2>2, <2>5, JobsStayOK DEF GateRead
<1>7. ASSUME NEW w \in Workers, GateDecide(w) PROVE CompleteInv'
  <2>1. PICK stored, call, key, known, reasons, id, altered :
          /\ stored = job[w].stored /\ call = job[w].call /\ known = job[w].known
          /\ reasons = GateReasons(stored, call, key, now)
          /\ job' = [job EXCEPT ![w] =
                       [pc |-> "decision", call |-> call, reasons |-> reasons,
                        receipt_id |-> id, altered |-> altered,
                        decision |-> IF reasons = {} THEN "ALLOW" ELSE "BLOCK",
                        at |-> now, key |-> key, known |-> known]]
    BY <1>7 DEF GateDecide
  <2> DEFINE j == [pc |-> "decision", call |-> call, reasons |-> reasons,
                   receipt_id |-> id, altered |-> altered,
                   decision |-> IF reasons = {} THEN "ALLOW" ELSE "BLOCK",
                   at |-> now, key |-> key, known |-> known]
  <2>2. \A v \in Workers : job'[v] = job[v] \/ job'[v] = j
    BY <1>a, <2>1
  <2>3. /\ j.pc = "decision" /\ j.call = call /\ j.at = now /\ j.key = key /\ j.known = known
        /\ j.decision = "BLOCK" => reasons # {}
    OBVIOUS
  <2> HIDE DEF j
  <2>4. ASSUME reasons # {}, NEW d \in known PROVE Excused(d, j, issued)
    <3>1. /\ \E i \in issued : i.receipt = d
          /\ stored = d \/ Reissued(d, issued)
      BY <1>7, <2>1 DEF GateDecide, CompleteInv, JobOK
    <3>2. PICK i \in issued : i.receipt = d
      BY <3>1
    <3>3. /\ Genuine(i.call, d) /\ Decodes(d)
          /\ now \in Nat /\ d.expires_at \in Nat
      BY <3>2 DEF CompleteInv, DurableInv, GateInv, TypeInv, TypeOK, IssuedGenuine, Sound
    <3>4. CASE stored = d
      BY <2>1, <2>3, <2>4, <3>3, <3>4, DecisionIsExcused DEF Excused
    <3> QED BY <3>1, <3>4 DEF Excused
  <2>5. JobOK(j, issued)
    BY <2>3, <2>4 DEF JobOK
  <2> QED BY <1>0, <1>7, <2>2, <2>5, JobsStayOK DEF GateDecide
<1>8. CASE \/ \E i \in Instances : Crash(i) \/ \E value \in EnvKeys : Start(i, value)
           \/ \E w \in Workers : \/ SaveTimeout(w) \/ SaveFails(w) \/ Answer(w)
                                \/ \E call \in Calls : VerifyRefused(w, call)
  <2>1. UNCHANGED issued /\ \A w \in Workers : job'[w] \in {job[w], Idle, Error}
    BY <1>a, <1>8 DEF Crash, Start, SaveTimeout, SaveFails, Answer, VerifyRefused
  <2> QED BY <1>2, <2>1
<1>9. CASE Tick \/ SetBack \/ (\E id \in DOMAIN receipts : Damage(id)) \/ UNCHANGED vars
  BY <1>1, <1>9 DEF Tick, SetBack, Damage, vars
<1> QED
  BY <1>3, <1>4, <1>5, <1>6, <1>7, <1>8, <1>9 DEF Next, Step, Receive

\* In every behaviour a caller whose receipt is unaltered, current, for the
\* artifact and vouched for gets ALLOW, whatever interleaves (api.py gate).
THEOREM GateIsComplete ==
  ASSUME Distinct, NoneIsNoReceipt, \A call \in Calls : HasPolicy(call)
  PROVE  Spec => []GateComplete
<1>1. CompleteInv => GateComplete
  BY DEF CompleteInv, JobOK, Excused, Reissued, GateComplete
<1> QED BY CompleteInvInit, CompleteInvNext, <1>1, PTL DEF Spec
=============================================================================
