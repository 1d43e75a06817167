# AgentForge Sentinel: specifications, model checking and proofs

Sentinel is an HTTP service that evaluates artifacts of other agents against an
explicit policy, hands out sealed receipts for its verdicts, and answers, later
and perhaps in another process, whether an action that relies on an artifact may
go on ("Proof Before Action"). The hard part is not a single call. It is that a
receipt made by one worker under one key at one time is judged by another worker,
another instance, under another key, at another time, over a row of an SQLite
file that may have been replaced or altered in between.

Paths below are relative to the repository's root (`src/sentinel/...` is the
Python package).

## The system

| Component | State | Operations | Talks to |
|---|---|---|---|
| Verifier core, `src/sentinel/core.py` | none; reads the clock, holds the key | `SentinelVerifier.verify`, `verify_receipt_integrity` | called by the schema layer and the codec |
| JSON Schema layer, `schema_verifier.py` | none | `SchemaSentinelVerifier.verify`: the base receipt, one more check, a new contract hash, a new seal | `super().verify`, the `jsonschema` library |
| Receipt codec, `receipt_codec.py` | none | `receipt_from_dict`, `serialized_receipt_is_valid` | called by the gate on every stored row |
| Receipt store, `store.py` | the SQLite table (WAL), its writer lock | `save` (INSERT OR REPLACE), `get`, `recent` | shared by all worker threads and all instances |
| API, `api.py` | per instance: the signing key read at start | `POST /v1/verify`, `POST /v1/gate`, `GET /v1/receipts[/id]`, health, descriptor, dashboard | verifier, store, codec |
| Arena ledger, `arena.py` | phase, trials, ranking, purchases | six calls of the representative agent | nothing |
| Web console, `web/index.html` | the last receipt, the forms, what is rendered, which buttons are disabled | verify, gate, use last, demos, refresh | the API, asynchronously |
| Preflight, `preflight.py` | none | static, runtime and submission findings; exit code | the environment, files |
| SharedOS bridge, `sharedos/src` | none | builds one turn request and sends it; checks its configuration | the environment, an external client |

What is hard to test here, and therefore what the properties are about:

* a handler is several steps: `verify` evaluates, then saves, then answers; `gate`
  reads the row, then reads the clock and decides. Crashes, other handlers, restarts
  under another key, ticks of the clock and changes of the row fall in between;
* `INSERT OR REPLACE` silently overwrites: a receipt made twice in the same instant
  by instances with different keys has one id and two signatures;
* every field of a receipt is derived from others, by three modules that must agree:
  core, schema layer, codec;
* the boundary of expiry, a clock that is set back, the writer lock and its timeout;
* sequences of legal calls: a caller that resubmits with another policy, a
  representative that tries, ranks and buys in unusual orders;
* times that are compared as texts, some of which lack their fraction, and receipts
  that are committed in another order than they were made;
* a page whose calls are answered late, in another order, or never, while its forms are
  edited and its other buttons pressed;
* one environment that four programs (preflight, service, check-config, run-turn) read, each
  normalising its values by its own code.

PROJECT.json lists these hazards one by one, at their lines, with the properties
that would catch them.

## The modules

```
Verification          the verifier and the schema layer, as functions
   |
Receipts              codec, integrity check, decision of the gate, as functions
   |
   |-- Sentinel             the service over its store      MCSentinel
   |      '-- INSTANCE ProofBeforeAction   what the service promises
   |-- Resubmission         a caller that edits its call    MCResubmission
   '-- Console              the page and the service        MCConsole
          |-- INSTANCE ProofBeforeAction
          |
Listing --'                 recent(), order of texts
   '-- History              saves, listings, fetches        MCHistory

TurnRequest                 the request of the bridge
   '-- Deployment           operator, preflight, service, bridge   MCDeployment

ArenaLedger                 the obligation ledger           MCArenaLedger
   '-- INSTANCE ArenaRound  what a round is held to

ReceiptProofs (Receipts)
   |-- SentinelProofs -- SentinelRefinementProofs
   |-- ResubmissionProofs
   '-- ConsoleProofs
HistoryProofs   DeploymentProofs   ArenaLedgerProofs
```

**Verification** models `core.py` and `schema_verifier.py`. An artifact is opaque;
the constant `Content` says what the checks can see of it: its size, its JSON kind
(object, other value, invalid, an integer literal that Python refuses to convert, or
nesting too deep for it), its fields and strings, and whether the injection, credential
and URL patterns match. A policy is the record a caller sends; `Policy` strips and drops
blank strings as `_tuple_of_strings` does. `CoreChecks` maps the code of each check
that applies to whether it passed, at which level and what its detail and evidence tell
(`Detail`: sizes, what is missing or found, the parent's digest; their wording and what
they quote of the artifact alone is left to `Content`); `VerdictOf`, `Failing`,
`Seed`, `Sealed` follow the code. A JSON Schema is a record: its identity once keys are
sorted, the order its keys came in, whether it is a schema, what it accepts, and on what
validating raises. The contract hash sees the first only; messages and the order of
violations may follow the second, and so may a reference that cannot be resolved or a
recursion too deep, of which one order may be spared. Digests are symbolic: `Sha256` and `Hmac` are
injective constructors, and a receipt id stands for the twenty hexadecimal digits
it shows, so collisions are out of the model. Times are minutes. `audit_trace` and
`verifier_version` are left out: the seed carries them along unread. The texts of
reasons are abstracted to the code of the check they come from, so the order of
reasons is not modelled.

**Receipts** models `receipt_codec.py` (`Decodes`), `verify_receipt_integrity`
(`Intact`, `Authenticated`, `Current`), the gate's list of reasons
(`GateReasons`) and the id its answer names (`AnsweredId`): once a row is decoded that is
the row's own id, which nothing compares with the one the caller named. Three refusals of
the codec are left out, of an id without its shape, of times without a zone and of blank
texts in a check: more decodes in the model than in the code.

**Sentinel** is the deployed service. Its variables are the wall clock, the key of
each running instance (`Down` when it is not running, `NULL` when it runs unsigned),
the table, the worker that holds SQLite's writer lock, and for each worker the
handler it runs and how far it is (`job`). Three ghosts record what was
committed (`issued`), what a caller was answered (`delivered`) and which rows were
altered outside the service (`damaged`).

| Action | Code |
|---|---|
| `Start` | `create_app`: the table is kept, the key is stripped, refused if weak, absent if blank |
| `Crash` | the process ends; its handlers are gone, an open transaction is rolled back |
| `Tick`, `SetBack` | the wall clock `datetime.now` reads |
| `VerifyRefused` | `verify` raises: 422, or 500 for an unresolvable schema reference or a recursion too deep |
| `VerifyBegin` | the receipt is made, from the clock and the key at that moment |
| `SaveBegin`, `SaveTimeout` | the INSERT gets the writer lock, or gives up after five seconds |
| `SaveCommit`, `SaveFails` | the `with connection` block commits, or rolls back |
| `GateRead` | `store.get`; a row that is not JSON raises, outside the handler's `try` |
| `GateDecide` | decoding, integrity, expiry, artifact, verdict, signature; ALLOW without a reason |
| `Answer` | the response is sent |
| `Damage` | outside the service, one field of a row changes, or its text becomes another issued receipt's, an old copy of its own, or no JSON |

`Damage` is there because the code expects it: the codec re-derives every field of
a stored row (`tests/test_receipt_codec.py`). Every field takes another value, the id and
the detail of a check included, one at a time. A row whose text is
another issued receipt's is allowed if that receipt is, and the answer then names the
other receipt: `GateSound` says both, and `altered` in the job of a gate records that the row
it read was such a one. A row that is rewritten together with its digests (sealed again, which needs no
key where nothing is signed) is no row of this model; what the gate makes of it where signatures
are required is the theorem `SignedAllowIsJustified`.

**ProofBeforeAction** is the abstract specification: a growing set of proofs
(artifact, expiry, signer), a clock, and decisions that are one atomic look at both.
No instances, rows, locks or digests. Sentinel implements it under the refinement
mapping at the end of `Sentinel.tla`: a proof exists from the commit of a receipt
without a failed check, and a decision is taken at `GateDecide`, whatever happened
to the row between `GateRead` and then. Console implements it too, under the mapping at
the end of `Console.tla`: its rows without a failed check are the proofs, and an answer of the
gate on its way to the page is the decision of the single actor `"page"`.

**Resubmission** is a caller that changes one part of its call at a time and submits
again. The state holds two successive evaluations, so that invariants can
relate them. `Parts` and `PolicyParts` are the fields of `VerifyInput` and `PolicyInput`
with the values each may take; the life span also takes one that is out of bounds.
`Reconstructible` says how far equal digests mean equal checks: the parent has a digest of
its own, which the detail of its check shows, and violations may come in the order of the schema's
keys, which the contract hash sorts away; all else is equal. `StricterStaysRefused` is about calls that
could not be evaluated, because `json.loads` or the validator raised what `verify` does not
turn into a check. `SchemaAssumption` is what JSON Schema says of itself: the order of keys
means nothing, so that two orders accept the same where validating ends.

**Listing** models `ReceiptStore.recent`. An instant is a second and a microsecond, and
`IsoText` is its text as a sequence of symbols that compare as the bytes do: the digits
of one width are one symbol, the `.` before the fraction and the `+` of the zone
are their character codes. `Pages` is the set of answers `ORDER BY created_at DESC LIMIT ?`
may give, equal texts in any order.

**History** is the store seen through its listing. Receipts are evaluated (`Evaluate`), wait
in their handlers (`pending`), are committed in any order (`Save`), listed (`List`, with
the limits the endpoint accepts) and fetched (`Fetch`), over a clock that may be set back.

**Console** is the page and the service it calls. A function of the page is
two actions, before and after its `await`; a call in between is a member of `requests`.

| Action | Code |
|---|---|
| `Edit`, `EditGate`, `LoadDemo` | the user types; a demo button fills some of the fields |
| `PressVerify`, `PressVerifyUnparsable` | `verify` up to its fetch; text in the schema field that is not JSON fails at once |
| `PressGate`, `Refresh` | `gate` and `loadReceipts` up to their fetch |
| `ServeVerify`, `ServeGate`, `ServeLoad` | the handlers of `api.py`, in one step each |
| `Lose` | the call or its answer is lost, or the service fails |
| `VerifyAnswer`, `GateAnswer`, `LoadAnswer` | the rest of the functions; `verify` then loads the history again |
| `Failure` | their `catch` and `finally` |
| `UseLast`, `UseLastWithout` | `useLast` with and without a receipt in `lastReceipt` |

The handlers are single steps here because Sentinel covers what happens inside them; that
both modules implement ProofBeforeAction says that they agree on what the page relies on.
The form is a record of what `verify` reads; a page displays, for each panel,
which call it answers (`verdict`, `decision`, `list`).

**TurnRequest** models `request.mjs`: what `buildTurnRequest` returns, and when it throws.
A principal is its kind and the id its kind has. `Or` is JavaScript's `||`, which takes
a text of blanks for a value. `messageId`, `traceId` and the payload are left out.

**Deployment** is an operator with an environment and a repository. `SetVariable`, `Remove`,
`Restore`, `DropName` and `Resolve` edit them; `Preflight` runs `preflight.py` with or
without `--static`; `Start` is `create_app` and `Stop` its end; `RunTurn` is
`run-turn.mjs` up to the call of the cloud, with the verdict of `check-config.mjs`. The text of
a variable is opaque: functions give its stripped form, its characters, its bytes and
what `int` makes of it. Report, service and turn remember the environment they saw,
so that properties can relate programs that read the same one.

**ArenaLedger** models `arena.py`, one action per operation. Calls the code
refuses with a ValueError change nothing and are no steps.

**ArenaRound** is its abstract specification: what an event's round is held to, without
texts, prices of single purchases or the order of what was recorded. A round only moves
forward, tried products, services and credits spent are never taken back, a ranking is made
once three products are tried and names tried ones only, credits stay within the budget and are spent on other teams, and a phase
is left only with what it asks for. The mapping is at the end of `ArenaLedger.tla`: what was
tried is the domain of `trials`, what was spent is `TotalSpend` of the purchases, whose
names are `PurchasedServices`.

## The runs

| Run | Instance | What it shows |
|---|---|---|
| `rotation` | two instances, a worker each, two keys (one configured with white space around it), one clean artifact, a refused call, clock 0..1, two committed receipts | type invariant, `GateSound`, `GateComplete`, `AcknowledgedDurable`, `ReceiptsAreFinal` under crashes and key rotation |
| `damage` | one instance and worker, unsigned, signed or with a weak key; a clean and a risky (WARN) artifact; two committed receipts; clock 0..1 set back once; one row altered or swapped | the gate's soundness and completeness against altered and swapped rows, expiry and clock steps; refinement of `ProofBeforeAction` |
| `progress` | one instance, two workers, fairness | `CallsAreAnswered`, `LockIsReleased` |
| `resubmission` | five artifacts, one per JSON kind; raw lists with padded and blank strings; text that is no schema, and a schema with its keys in two orders of which one meets an unresolvable reference; evidence with blank items; with and without a parent | `IndicatorsNeverPass`, `Reconstructible`, `StricterNeverBetter`, `StricterStaysRefused`, `IssuedIsAccepted` |
| `arena_ledger` | four products of which one is the team's own, padded and blank names, prices 0, 20, 40 | `CompleteIsQualified`, `BudgetIsKept`, `RankingIsOfTrials`, `ObligationsStayMet`; refinement of `ArenaRound` (`KeepsRules`) |
| `history` | two artifacts, four instants in two seconds of two microseconds, one step of the clock back, three receipts, limits 0 to 3 | `NewestFirst`, `ListedStaysTrue` |
| `console` | a form whose schema is not JSON, the two demos; two clicks; the clock ticks past the life of a receipt; fairness | `KeptPairIsAllowed`, `VerdictIsOfTheLastCall`, `ListShowsLastReceipt`, `ButtonsComeBack`; refinement of `ProofBeforeAction` (`KeepsPromise`) |
| `deployment` | a complete environment and repository, two edits: absent, blank, padded, short, long and foreign values of eight variables, three files, every name and item | the seven properties of green preflights, starts and turns |
| `gate_always_decides` | as `damage` | violated, see findings |
| `green_means_signed` | as `deployment` | violated, see findings |
| `arena_still_winnable`, `arena_trials_of_others` | as `arena_ledger` | violated, see findings |

Bounds, and why they are enough:

* Two workers on two instances are enough for every race the code has: the only
  shared state is the table and its lock, a handler touches one row, and no
  handler waits for more than one other. `rotation` checks two signers of one id, a commit
  between another handler's read and decision, and a crash in every state.
* `MaxIssued` bounds the receipts that are committed, as `RoomFor` in `VerifyBegin` counts them; two
  handlers that have begun may both find room. With two receipts one row is replaced
  under its id, or two ids have a row each and the text of one is put into the other. It
  is a bound on the model and no guard of the code.
* `MaxTime` is 1 with a life of one minute: created, and expired at the very boundary;
  `SetBack` brings an expired receipt back once.
* `MaxDamage` is one damaged row at a time, changed once: it can be changed again only after a
  commit has replaced it. Repeated changes of one row are covered by the proofs only, which have
  no bound on them.
* `TypeOK` is checked in `rotation`; the other runs of Sentinel do not repeat it.
* `Rankings` are at most three names, the number of trials that is required.
* `MicrosPerSecond` is 2: a fraction of zero and one that is not zero, in two seconds, are all the
  cases the comparison of two texts has; HistoryProofs covers the rest.
* A call the service refuses comes to what a lost one does, so that no form of `console` is
  refused. `MaxClicks` is 2: the properties relate a call and the one after it. Loads that a verification
  starts by itself are not counted. `TickMinutes` is the life of a receipt.
* `MaxEdits` is 2: one edit spoils what a program checks, a second one mends it or
  spoils it after another program has run. `DeploymentProofs` has no such bound.

All runs but those of ArenaLedger check for deadlock. `arena_ledger` does not: COMPLETE is final, and a market whose budget is spent on too few services
is stuck, which is what `StillWinnable` is about.

Fairness of `progress`: weak fairness of `Step(w)` for each worker. A handler
that has begun is a thread of a running process and is scheduled; the writer lock
is either obtained or the wait ends by `timeout=5`. Nothing is assumed about callers,
about restarts or about the clock. Fairness of `console`: weak fairness of `Settle`, that
is, calls under way are answered, lost or handled in the end. `CallsAreAnswered` justifies
it on the side of the service, the browser's own timeout and its event loop on the
other. Nothing is assumed about the user.

Every property of a passing run has a mutant: a definition with a plausible bug
("A bug a rewrite could bring in" in the modules) under which the same run finds
the property violated.

## Findings

* `StillWinnable` (`arena.py:91`): the ledger accepts purchases that use up the budget on
  one or two services. The round can then never be finished, while
  `docs/ARENA_RUNBOOK.md:54` calls the ledger "the local guard against accidental
  disqualification".
* `TrialsAreOfOthers` (`arena.py:60`): `self_service_ids` is consulted for purchases
  only, so the team's own product counts as a trial; `docs/ARENA_RUNBOOK.md:47` asks for
  three *other* products.
* `GateAlwaysDecides` (`api.py:215`): a row that is not JSON raises in `store.get`, before
  the gate's `try`, and the caller gets a 500 where `README.md:110` promises BLOCK with
  explicit reasons. No action is allowed by it: a client that treats an error as
  a refusal is safe.
* `GreenMeansSigned` (`preflight.py:115`): preflight counts the characters of the signing key
  before stripping it. Thirty-two blanks are green and the service runs unsigned;
  thirty-one characters and a blank are green and the service does not start.
  `README.md:153` says preflight blocks while signing material is missing.
  `GreenServiceSigns` is what remains true.

Three smaller observations that no run checks: `useLast` takes over whatever was verified last,
under a button labelled "Use last PASS receipt" (`web/index.html:167`; the gate blocks what
is taken over then); when a gate call fails, the decision of an earlier one stays on the
page, and `useLast` clears the error beside it; and the purpose in the descriptor keeps the
blanks around it that the bridge strips (`api.py:153`), which is why
`PurposeIsPublished` speaks of the stripped text.

## The proofs

`ReceiptProofs.tla` holds what the other modules need to know of receipts: what the verifier
makes is `Genuine` (`VerifyIsGenuine`), what it issues decodes and is intact under its key
(`VerifyIsAccepted`), the id fixes the receipt up to its signature (`SameButSignature`), what
the gate demands (`NoReasons`), and that it demands nothing else (`NothingAgainst`).
`CleanEvidenceIsList` says what is left of a list of evidence, and is the one fact
there about a recursive definition (see below). Two hypotheses appear where a
theorem says that something is *accepted*: `Distinct`, that a digest or signature is
neither `None` nor malformed, and `NoneIsNoReceipt`. They are true of the program by the types of
the values; the specification leaves the constants untyped.

`SentinelProofs.tla` is about every set of instances, workers, keys, calls and
artifacts, every clock and every amount of damage. Its assumptions are those
of the modules: `Home` maps workers to instances, the values that stand for "no key", "not running"
and "blank" differ, and the bounds are numbers. What it takes for granted of
cryptography is in the definitions of `Sha256`, `Hmac` and `ReceiptId`, which are
injective, and of `Noise`, which no key makes.

* `TypeCorrect`: `Spec => []TypeOK`. `TypeInv` adds to `TypeOK` that `job` is a function and that a
  worker about to answer with a receipt has committed it; without that,
  `delivered` could not be shown to hold only committed receipts.
* `GateIsSound`: `Spec => []GateSound`. `GateSound` speaks of decisions only and is
  not inductive. `GateInv` adds what rows, snapshots held by a running gate, and receipts on
  their way to the table are made of. Issued and pending receipts are
  `Genuine`: sealed over their own fields, bound to the call's artifact, with
  reasons and verdict derived from the checks (`VerifyIsGenuine`, for
  both layers). A row, whatever `Damage` did to it and however often, is `Traceable`: its id is that of
  a committed receipt or none, and its signature is that of a committed receipt, perhaps another one,
  is missing, or is noise. Nothing is assumed of the other fields, nor that the row was committed
  under the id it is found under. `AllowIsJustified` is the heart: a row for which the gate finds no reason has the
  digest its id names, the digest its seed, and the seed the artifact, the checks
  and the expiry, so it *is* the issued receipt its own id names in all that matters
  (`DigestBacks`), and a signature cannot have been moved there from another receipt (`SignatureBacks`).
* `SignedAllowIsJustified` goes beyond what `Damage` does: where a signature is required it assumes
  nothing of the row but that only the service makes signatures with its key. It covers rows
  that were swapped, and rows that were rewritten and sealed again. Where no signature is required,
  a row that is sealed again is allowed, as the code does: unsigned digests authenticate nothing.
 `AcknowledgedIsDurable` and `RowsAreFinal`: `Spec => []AcknowledgedDurable` and
  `Spec => ReceiptsAreFinal`. `DurableInv` adds that undamaged rows are issued receipts;
  `SameButSignature` shows that two genuine receipts with one id differ in the
  signature at most.
* `GateIsComplete`: `Spec => []GateComplete`, under `Distinct`, `NoneIsNoReceipt` and the shape of
  policies (`HasPolicy`). `CompleteInv` adds to `DurableInv` that receipts decode from when
  they are made, and that what a gate has read is the receipt its caller knows or
  that one was issued again with another signature (`ReadIsKnown`).

`SentinelRefinementProofs.tla` shows that Sentinel implements ProofBeforeAction, for
the same generality and one more assumption, `CallAssumption`: a call is about an artifact and carries a policy with a life span
for its receipt, which the request model of the API supplies when the caller does not.

* `PromiseIsKept`: `Spec => KeepsPromise`. `PromiseInv` adds to `GateInv` that issued and
  pending receipts can be proofs (an artifact of the model, an expiry that is a time, a
  signer that is a key) and that a gate call in flight is well-formed. There is one lemma
  per kind of step: `CommitRefines` (a commit creates a proof, or
  creates one that exists already, or is of a failed receipt and is invisible),
  `DecisionRefines` (an ALLOW at `GateDecide` is an abstract decision, by
  `AllowIsJustified`), `ForgettingRefines` (a crash or an answer takes a decision
  back off the worker), and `NextRefines` puts them together.

`ArenaLedgerProofs.tla` is about every set of names, prices and own services, and lists of
purchases of any length.

* `LedgerTypeCorrect`, `LedgerRankingIsOfTrials`, `LedgerCompleteIsQualified`,
  `LedgerBudgetIsKept`: four properties from one inductive invariant. `LedgerInv` is their
  conjunction and three facts more: no purchase is of an own service, which only
  `record_purchase` checks and `finish` relies on; the purchases are a list of services and
  credits; what is counted is finite, without which a count could not be compared.
* `LedgerObligationsStayMet`: `LedgerSpec => ObligationsStayMet`. `LedgerGrows` says what no
  call takes back: trials, services, the sum spent, and a ranking once there is one.
* `RulesAreKept`: `LedgerSpec => KeepsRules`, that is, the ledger implements ArenaRound.
  `LedgerStepIsRoundStep` has one case per operation: a trial or a ranking is a step of
  `Critique`, a purchase one of `Purchase`, and the other three advance the phase.

`TotalSpend` is a recursive function over the purchases. The induction theorems of the
library cannot be used here (they take an operator as a parameter), so its equation
is proved by the least counterexample. `LeastElement`: a set of numbers that is not empty has a
least one, itself from a bound that is lowered. `SumsExist`: were there a list without a function of
partial sums, there would be a shortest prefix without one, and the function of the prefix before
it could be extended. From it `TotalSpendIsSum` and `TotalSpendOfAppend`: a purchase adds
its credits to the sum. `CleanEvidenceIsList` of `ReceiptProofs.tla` is proved in the same way.

`ResubmissionProofs.tla` is about every caller, every content of artifacts, every policy
and every schema: `ResubmissionTypeCorrect`, `ResubmissionIndicatorsNeverPass`,
`ResubmissionReconstructible`, `ResubmissionStricterNeverBetter`, `ResubmissionStricterStaysRefused`,
`ResubmissionIssuedIsAccepted`. The invariant is that
both evaluations are of calls of the right shape (`CallOK`) and computed from them; the
properties are then facts about `Verify`. `CallAssumption` says of evidence that it is a list of
texts, which the request model of the API checks; that `CleanEvidence` leaves a list of it is
`CleanEvidenceIsList`. `SchemaAssumption` is what `SameSchemaCheck` rests on, the lemma by which
two orders of one schema's keys give checks that pass alike; `SameContract` recovers policy and
schema from the contract digest, and `SameDetail` has the rest of `ResubmissionReconstructible`.

`HistoryProofs.tla` shows that the texts sort as the instants do (`TextOrder`), for every number
of microseconds in a second, and from it `HistoryNewestFirst`; `HistoryListedStaysTrue`
needs the invariant `Kept`: rows, pending receipts and listed rows are what `Receipt`
makes of their ids, so that a replaced row is the same row.

`ConsoleProofs.tla` is about every form and demo, any number of clicks, and answers in any order.
`CallsInv` (numbers are unique, a button's call is the last of its kind) gives
`ConsoleVerdictIsOfTheLastCall`. `PairInv` (every row and every receipt on its way was made
by the deployment for the artifact of its call; a decision is about the row that
is still there) gives `ConsoleKeptPairIsAllowed`, and both `ConsoleTypeCorrect`. That rows are never
rewritten rests on `MadeAgree`: under one key the id fixes the signature too.

* `ConsoleListShowsLastReceipt`: `ListInv` says that the last list that was asked for holds the
  receipt on the page, when it is made by the service as well as when it is displayed.
  `verify` asks for it after its receipt has come, and rows only grow, so that the receipt is among
  the rows the list is made of; `PageHoldsTheNewest` does the rest. The property holds up to
  the limit of the list: at most twenty rows, the receipt among them, that are as new as it.
  Without that condition it is false, as answers of other verifications may be lost whose
  rows are newer.
* `ConsoleKeepsPromise`: `ConsoleSpec => KeepsPromise`. `PromiseInv` adds to `PairInv` that rows
  expire at points in time and that the gate's form and calls can be decisions. A decision of the
  gate is about the row that its call names (`AllowHasProof`, from `NoReasons`), a
  verification adds a proof or none (`ProofsGrow`), and whatever else happens leaves the
  decision alone or takes it back (`NoDecisionRefines`).

`DeploymentProofs.tla` is about all values, edits and files: `DeploymentTypeCorrect` and the
seven properties of the run, from an invariant that says what report, service and turn
are made of. `ValueAssumption` states what is used of texts: stripping twice is stripping once,
and a text has no more characters than bytes.

Model-checked only: liveness (`CallsAreAnswered`, `LockIsReleased`, `ButtonsComeBack`), which needs
fairness and is out of the prover's reach. Every other property of a passing run, invariant,
action property or refinement, is the conclusion of a theorem.

## Not modelled

* The regular expressions, the JSON parser and `jsonschema`: pure data, abstracted to what they
  find in an artifact.
* The comparison of the API token with the header, the response headers and `GET /health`: no
  state. `GET /v1/service` is modelled as far as other programs depend on it.
* The console's health line and service view, which display one answer each.
* `contract-check.mjs`, a test against an external package; the SharedOS cloud; SharedNet,
  for which the repository has no code.
* Chains of `parent_receipt_sha256`: the service records the digest and never resolves it;
  `Seed` carries it.
* `TurnRequest` leaves out blank message, execution and trace ids, whose effect is decided by the
  external service (see the hazards in PROJECT.json).
* Packaging and CI: no behaviour of the program.
