------------------------------ MODULE Sentinel ------------------------------
(***************************************************************************)
(* The deployed service: the handlers of api.py, run by the worker threads *)
(* of one or more instances over one SQLite store (store.py).              *)
(*                                                                         *)
(* A handler is a sequence of steps with other handlers, crashes, restarts *)
(* under another signing key and the clock in between: POST /v1/verify     *)
(* evaluates the call and reads the clock, takes the writer lock, commits, *)
(* and answers; POST /v1/gate reads a snapshot of the row, decides by the  *)
(* clock, and answers.                                                     *)
(***************************************************************************)
EXTENDS Receipts, FiniteSets

CONSTANTS
  Instances, Workers,
  Home,          \* worker -> the instance whose thread it is
  EnvKeys,       \* values SENTINEL_SIGNING_KEY may have when an instance starts
  WeakKeys,      \* non-blank values of fewer than 32 bytes
  Down,          \* in place of the signing key of an instance that is not running
  Unparsable,    \* a row whose text is not JSON
  UnknownId,     \* a well-shaped receipt id no row has
  Calls,         \* bodies of POST /v1/verify
  MaxTime,       \* bound on the clock
  MaxSetbacks,   \* bound on how often the wall clock is set back
  MaxIssued,     \* bound on the receipts committed, as a verification sees them when it starts
  MaxDamage      \* bound on rows altered outside the service

ASSUME InstanceAssumption == Home \in [Workers -> Instances]
ASSUME ValueAssumption ==
  /\ NULL \notin Workers
  /\ NULL \notin WeakKeys /\ NULL # Blank /\ NULL # Down
  /\ Down \notin WeakKeys /\ Down # Blank
  /\ \A value \in EnvKeys : Strip[value] # Down
ASSUME CallAssumption ==
  \A call \in Calls : call.artifact \in Artifacts /\ "receipt_ttl" \in DOMAIN call.contract
ASSUME BoundAssumption == {MaxTime, MaxSetbacks, MaxIssued, MaxDamage} \subseteq Nat

VARIABLES
  now,           \* the wall clock the instances read
  setbacks,
  signing_key,   \* instance -> Down, NULL (unsigned deployment) or its key
  receipts,      \* the table: receipt id -> stored receipt
  writer,        \* the worker inside its write transaction, or NULL
  job,           \* worker -> the handler it runs and how far it is
  issued,        \* ghost: what was committed, [call, receipt]
  delivered,     \* ghost: receipts a caller got as the answer of /v1/verify
  damaged        \* ghost: ids of rows altered outside the service

vars == <<now, setbacks, signing_key, receipts, writer, job, issued, delivered, damaged>>

Idle == [pc |-> "idle"]
Error == [pc |-> "error"]      \* an answer that is not 200
Saving(pc, call, receipt) == [pc |-> pc, call |-> call, receipt |-> receipt]

\* _configured_signing_key does not raise
KeyAccepted(value) == Strip[value] \notin WeakKeys

\* _configured_signing_key returns
ConfiguredKey(value) == IF Strip[value] = Blank THEN NULL ELSE Strip[value]

Init ==
  /\ now = 0 /\ setbacks = 0
  /\ signing_key = [i \in Instances |-> Down]
  /\ receipts = << >>
  /\ writer = NULL
  /\ job = [w \in Workers |-> Idle]
  /\ issued = {} /\ delivered = {} /\ damaged = {}

Up(w) == signing_key[Home[w]] # Down

---------------------------------------------------------------------------
(* Instances and the clock.                                                *)

\* create_app: the table is kept if it exists, then the key is read
Start(i, value) ==
  /\ signing_key[i] = Down
  /\ KeyAccepted(value)
  /\ signing_key' = [signing_key EXCEPT ![i] = ConfiguredKey(value)]
  /\ UNCHANGED <<now, setbacks, receipts, writer, job, issued, delivered, damaged>>

\* A bug a rewrite could bring in: a lock that outlives the process.
CrashKeepsLock(i) ==
  /\ signing_key[i] # Down
  /\ signing_key' = [signing_key EXCEPT ![i] = Down]
  /\ job' = [w \in Workers |-> IF Home[w] = i THEN Idle ELSE job[w]]
  /\ UNCHANGED <<now, setbacks, receipts, writer, issued, delivered, damaged>>

\* the process ends: its handlers are gone, SQLite rolls an open
\* transaction back, what was committed stays
Crash(i) ==
  /\ signing_key[i] # Down
  /\ signing_key' = [signing_key EXCEPT ![i] = Down]
  /\ job' = [w \in Workers |-> IF Home[w] = i THEN Idle ELSE job[w]]
  /\ writer' = IF \E w \in Workers : writer = w /\ Home[w] = i THEN NULL ELSE writer
  /\ UNCHANGED <<now, setbacks, receipts, issued, delivered, damaged>>

Tick ==
  /\ now < MaxTime
  /\ now' = now + 1
  /\ UNCHANGED <<setbacks, signing_key, receipts, writer, job, issued, delivered, damaged>>

SetBack ==
  /\ now > 0 /\ setbacks < MaxSetbacks
  /\ now' = now - 1 /\ setbacks' = setbacks + 1
  /\ UNCHANGED <<signing_key, receipts, writer, job, issued, delivered, damaged>>

---------------------------------------------------------------------------
(* POST /v1/verify                                                         *)

\* the verifier raises: 422, or 500 for what verify does not catch
VerifyRefused(w, call) ==
  /\ job[w].pc = "idle" /\ Up(w)
  /\ Rejects(call) \/ Breaks(call)
  /\ job' = [job EXCEPT ![w] = Error]
  /\ UNCHANGED <<now, setbacks, signing_key, receipts, writer, issued, delivered, damaged>>

RoomFor(receipt) == Cardinality({i.receipt : i \in issued} \cup {receipt}) <= MaxIssued

\* A bug a rewrite could bring in: the answer does not wait for the commit.
VerifyAnswersFirst(w, call) ==
  /\ job[w].pc = "idle" /\ Up(w)
  /\ ~Rejects(call) /\ ~Breaks(call)
  /\ LET receipt == Verify(call, now, signing_key[Home[w]]) IN
       /\ RoomFor(receipt)
       /\ job' = [job EXCEPT ![w] = Saving("save", call, receipt)]
       /\ delivered' = delivered \cup {receipt}
  /\ UNCHANGED <<now, setbacks, signing_key, receipts, writer, issued, damaged>>

VerifyBegin(w, call) ==
  /\ job[w].pc = "idle" /\ Up(w)
  /\ ~Rejects(call) /\ ~Breaks(call)
  /\ LET receipt == Verify(call, now, signing_key[Home[w]]) IN
       /\ RoomFor(receipt)
       /\ job' = [job EXCEPT ![w] = Saving("save", call, receipt)]
  /\ UNCHANGED <<now, setbacks, signing_key, receipts, writer, issued, delivered, damaged>>

\* the INSERT takes SQLite's one writer lock ...
SaveBegin(w) ==
  /\ job[w].pc = "save" /\ writer = NULL
  /\ writer' = w
  /\ job' = [job EXCEPT ![w] = Saving("commit", job[w].call, job[w].receipt)]
  /\ UNCHANGED <<now, setbacks, signing_key, receipts, issued, delivered, damaged>>

\* A bug a rewrite could bring in: a connection without a timeout.
SaveWaits(w) == job[w].pc = "save" /\ FALSE /\ UNCHANGED vars

\* ... or gives up after five seconds of waiting for it: 500
SaveTimeout(w) ==
  /\ job[w].pc = "save" /\ writer # NULL
  /\ job' = [job EXCEPT ![w] = Error]
  /\ UNCHANGED <<now, setbacks, signing_key, receipts, writer, issued, delivered, damaged>>

SaveCommit(w) ==
  LET receipt == job[w].receipt IN
  /\ job[w].pc = "commit"
  /\ receipts' = [id \in DOMAIN receipts \cup {receipt.receipt_id} |->
                    IF id = receipt.receipt_id THEN receipt ELSE receipts[id]]
  /\ damaged' = damaged \ {receipt.receipt_id}
  /\ issued' = issued \cup {[call |-> job[w].call, receipt |-> receipt]}
  /\ writer' = NULL
  /\ job' = [job EXCEPT ![w] = Saving("receipt", job[w].call, job[w].receipt)]
  /\ UNCHANGED <<now, setbacks, signing_key, delivered>>

\* A bug a rewrite could bring in: a failed save is swallowed.
SaveFailureSwallowed(w) ==
  /\ job[w].pc = "commit"
  /\ writer' = NULL
  /\ job' = [job EXCEPT ![w] = Saving("receipt", job[w].call, job[w].receipt)]
  /\ UNCHANGED <<now, setbacks, signing_key, receipts, issued, delivered, damaged>>

\* the transaction fails (a full disk) and the context manager rolls it back: 500
SaveFails(w) ==
  /\ job[w].pc = "commit"
  /\ writer' = NULL
  /\ job' = [job EXCEPT ![w] = Error]
  /\ UNCHANGED <<now, setbacks, signing_key, receipts, issued, delivered, damaged>>

---------------------------------------------------------------------------
(* POST /v1/gate                                                           *)

\* store.get: json.loads of a row that is not JSON raises outside every try
GateRead(w, call) ==
  /\ job[w].pc = "idle" /\ Up(w)
  /\ LET stored == IF call.receipt_id \in DOMAIN receipts
                   THEN receipts[call.receipt_id] ELSE NULL
     IN job' = [job EXCEPT ![w] =
                  IF stored = Unparsable THEN Error
                  ELSE [pc |-> "gate", call |-> call, stored |-> stored,
                        altered |-> call.receipt_id \in damaged,
                        known |-> {d \in delivered : /\ d.receipt_id = call.receipt_id
                                                     /\ d.receipt_id \notin damaged}]]
  /\ UNCHANGED <<now, setbacks, signing_key, receipts, writer, issued, delivered, damaged>>

GateDecide(w) ==
  /\ job[w].pc = "gate"
  /\ LET reasons == GateReasons(job[w].stored, job[w].call, signing_key[Home[w]], now)
     IN job' = [job EXCEPT ![w] =
                  [pc |-> "decision", call |-> job[w].call, reasons |-> reasons,
                   receipt_id |-> AnsweredId(job[w].stored, job[w].call),
                   altered |-> job[w].altered,
                   decision |-> IF reasons = {} THEN "ALLOW" ELSE "BLOCK",
                   at |-> now, key |-> signing_key[Home[w]], known |-> job[w].known]]
  /\ UNCHANGED <<now, setbacks, signing_key, receipts, writer, issued, delivered, damaged>>

\* the response is sent
Answer(w) ==
  /\ job[w].pc \in {"error", "receipt", "decision"}
  /\ delivered' = IF job[w].pc = "receipt" THEN delivered \cup {job[w].receipt}
                                           ELSE delivered
  /\ job' = [job EXCEPT ![w] = Idle]
  /\ UNCHANGED <<now, setbacks, signing_key, receipts, writer, issued, damaged>>

---------------------------------------------------------------------------
(* Storage is not trusted: a row may change outside the service.  One field *)
(* takes another value, the text is that of another issued receipt or an    *)
(* old copy of its own, or it stops being JSON.  A row rewritten together   *)
(* with its digests is no row of this model.                                *)

AlteredForms(r) ==
  {[r EXCEPT !.verdict = "PASS"],
   [r EXCEPT !.checks = [c \in DOMAIN r.checks |-> [r.checks[c] EXCEPT !.passed = TRUE]]],
   [r EXCEPT !.blocking_reasons = {}], [r EXCEPT !.warnings = {}],
   [r EXCEPT !.not_verified = NULL],
   [r EXCEPT !.checks = [c \in DOMAIN r.checks |-> [r.checks[c] EXCEPT !.detail = Malformed]]],
   [r EXCEPT !.created_at = @ + 1], [r EXCEPT !.expires_at = MaxTime + 1],
   [r EXCEPT !.contract_sha256 = Noise], [r EXCEPT !.evidence_sha256 = <<Noise>>],
   [r EXCEPT !.parent_receipt_sha256 = Noise], [r EXCEPT !.receipt_id = Noise],
   [r EXCEPT !.receipt_sha256 = Noise], [r EXCEPT !.receipt_sha256 = Malformed],
   [r EXCEPT !.signature = NULL], [r EXCEPT !.signature = Noise]}
  \cup {[r EXCEPT !.artifact_sha256 = Sha256(a)] : a \in Artifacts}

Damage(id) ==
  /\ Cardinality(damaged) < MaxDamage
  /\ receipts[id] # Unparsable
  /\ \E altered \in AlteredForms(receipts[id]) \cup {i.receipt : i \in issued} \cup {Unparsable} :
        /\ altered # receipts[id]
        /\ receipts' = [receipts EXCEPT ![id] = altered]
  /\ damaged' = damaged \cup {id}
  /\ UNCHANGED <<now, setbacks, signing_key, writer, job, issued, delivered>>

---------------------------------------------------------------------------
GateCalls == [receipt_id : DOMAIN receipts \cup {UnknownId},
              artifact : Artifacts, require_signed : BOOLEAN]

Step(w) == SaveBegin(w) \/ SaveTimeout(w) \/ SaveCommit(w) \/ SaveFails(w)
             \/ GateDecide(w) \/ Answer(w)

Receive(w) ==
  \/ \E call \in Calls : VerifyRefused(w, call) \/ VerifyBegin(w, call)
  \/ \E call \in GateCalls : GateRead(w, call)

Next ==
  \/ \E w \in Workers : Step(w) \/ Receive(w)
  \/ \E i \in Instances : Crash(i) \/ (\E value \in EnvKeys : Start(i, value))
  \/ Tick \/ SetBack
  \/ \E id \in DOMAIN receipts : Damage(id)

Spec == Init /\ [][Next]_vars

\* A handler that has begun keeps running while its process does.
FairSpec == Spec /\ \A w \in Workers : WF_vars(Step(w))

---------------------------------------------------------------------------
(* Properties.                                                             *)

Keys == {ConfiguredKey(value) : value \in {v \in EnvKeys : KeyAccepted(v)}}

\* A handler runs only while its process does, the writer is the one worker
\* inside its transaction, and only what was committed is ever a row or an
\* answer (store.py _connect and save, api.py verify).
TypeOK ==
  /\ now \in Nat /\ setbacks \in Nat
  /\ signing_key \in [Instances -> Keys \cup {Down}]
  /\ \A i \in Instances : signing_key[i] \notin WeakKeys \cup {Blank}
  /\ \A w \in Workers :
       /\ job[w].pc \in {"idle", "save", "commit", "receipt", "gate", "decision", "error"}
       /\ job[w].pc # "idle" => Up(w)
       /\ job[w].pc = "commit" <=> writer = w
  /\ writer \in Workers \cup {NULL}
  /\ DOMAIN receipts = {i.receipt.receipt_id : i \in issued}
  /\ delivered \subseteq {i.receipt : i \in issued}
  /\ damaged \subseteq DOMAIN receipts

\* i is a proof for the artifact: a committed receipt whose call was for
\* exactly that artifact and failed no check, of either level.
Proves(i, artifact) ==
  /\ i.call.artifact = artifact
  /\ Failing(i.receipt.checks, "BLOCK") = {} /\ Failing(i.receipt.checks, "WARN") = {}

SignedBy(receipt, key) ==
  /\ key # NULL /\ receipt.signature # NULL
  /\ receipt.signature = Hmac(key, receipt.receipt_sha256)

\* The gate (api.py gate) answers ALLOW only when the receipt its answer names
\* was committed for exactly the artifact in hand, every check of it passed, it
\* had not expired when the gate decided and, where a signature is required, it
\* was signed with the very key the deciding instance holds; whatever was
\* rotated, replaced or restarted in between, with one field of the row altered
\* or another receipt's text in its place.  The receipt it names is the one the
\* caller named, unless that row was altered.
GateSound ==
  \A w \in Workers :
    (job[w].pc = "decision" /\ job[w].decision = "ALLOW") =>
      /\ \E i \in issued :
           /\ Proves(i, job[w].call.artifact)
           /\ i.receipt.receipt_id = job[w].receipt_id
           /\ job[w].at < i.receipt.expires_at
           /\ job[w].call.require_signed => SignedBy(i.receipt, job[w].key)
      /\ job[w].altered \/ job[w].receipt_id = job[w].call.receipt_id

\* The gate does not block what it should allow: a delivered, unaltered and
\* current PASS receipt for the artifact, that this instance can authenticate
\* and that no instance with another key issued again, gets ALLOW.
GateComplete ==
  \A w \in Workers :
    (job[w].pc = "decision" /\ job[w].decision = "BLOCK") =>
      \A d \in job[w].known :
        \/ d.artifact_sha256 # Sha256(job[w].call.artifact)
        \/ d.verdict # "PASS"
        \/ job[w].at >= d.expires_at
        \/ d.signature = NULL /\ job[w].call.require_signed
        \/ d.signature # NULL /\ ~SignedBy(d, job[w].key)
        \/ \E i \in issued : /\ i.receipt.receipt_id = d.receipt_id
                             /\ i.receipt.signature # d.signature

\* A receipt a caller was given stays in the table through crashes, restarts
\* and replacement, the signature aside, unless its row was altered outside the
\* service (api.py verify saves before it answers; store.py save replaces).
AcknowledgedDurable ==
  \A d \in delivered : d.receipt_id \notin damaged =>
    /\ d.receipt_id \in DOMAIN receipts
    /\ [receipts[d.receipt_id] EXCEPT !.signature = d.signature] = d

\* INSERT OR REPLACE (store.py save) never changes what a stored receipt says:
\* verifying again never renews an expired receipt and never touches its
\* verdict.  Only the signature of an unaltered row may change.
ReceiptsAreFinal ==
  [][\A id \in DOMAIN receipts : id \notin damaged \cup damaged' =>
       [receipts'[id] EXCEPT !.signature = NULL] = [receipts[id] EXCEPT !.signature = NULL]
    ]_vars

\* README.md, Proof Before Action: anything but ALLOW is BLOCK with explicit
\* reasons.  A gate that was called, whatever is stored, goes on to a decision.
GateAlwaysDecides ==
  [][\A w \in Workers : \A call \in GateCalls :
       GateRead(w, call) => job'[w].pc = "gate"]_vars

\* Every call is answered, or its process ends: nobody waits for the writer
\* lock for ever (store.py _connect, timeout=5).
CallsAreAnswered == \A w \in Workers : job[w].pc # "idle" ~> job[w].pc = "idle"

\* The writer lock is given up, by commit, rollback or the end of the process.
LockIsReleased == writer # NULL ~> writer = NULL

---------------------------------------------------------------------------
(* The service keeps the promise of ProofBeforeAction: a proof exists from  *)
(* the commit of a receipt without a failed check, and a decision is taken  *)
(* at GateDecide, whatever happened to the row since GateRead.              *)

ProofOf(i) == [artifact |-> i.call.artifact, until |-> i.receipt.expires_at,
               signer |-> SignerOf(i.receipt)]

DecisionOf(j) ==
  IF j.pc # "decision" THEN NULL
  ELSE [artifact |-> j.call.artifact, signed |-> j.call.require_signed,
        key |-> j.key, decision |-> j.decision]

Abstract == INSTANCE ProofBeforeAction WITH
  Actors  <- Workers,
  Keys    <- Keys,
  None    <- NULL,
  proofs  <- {ProofOf(i) : i \in {k \in issued : Proves(k, k.call.artifact)}},
  clock   <- now,
  decided <- [w \in Workers |-> DecisionOf(job[w])]

\* Sentinel implements ProofBeforeAction: however handlers, crashes, restarts
\* under other keys and altered rows interleave, each answer of the gate is one
\* atomic look at the proofs and the clock (api.py gate).
KeepsPromise == Abstract!Promise
=============================================================================
