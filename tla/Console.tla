------------------------------ MODULE Console ------------------------------
(***************************************************************************)
(* The web console (web/index.html): a page in a browser, and the service  *)
(* it calls.  The page's functions run up to their await, other events and *)
(* answers come in between, and answers come in any order, late or never.  *)
(* The service handles a request in one step, which PromiseIsKept of       *)
(* SentinelRefinementProofs justifies for the gate.                        *)
(***************************************************************************)
EXTENDS Receipts, Listing, FiniteSetsExt

CONSTANTS
  Forms,         \* what a user may leave in the form of the verify view
  Demos,         \* what the demo buttons put there, field by field
  SignedBoxes,   \* the states of "Require deployment-signed receipt" that are tried
  NotJson,       \* text in the schema field that JSON.parse refuses
  SigningKey,    \* of the deployment, or NULL
  TickMinutes, MaxTime, MaxClicks   \* bounds of the verification

ASSUME ConsoleAssumption ==
  /\ TickMinutes \in Nat \ {0} /\ SigningKey # Blank /\ SignedBoxes \subseteq BOOLEAN
  /\ \A f \in Forms : "artifact" \in DOMAIN f /\ f.artifact \in Artifacts
  /\ \A demo \in Demos : "artifact" \in DOMAIN demo => demo.artifact \in Artifacts

VARIABLES
  now,           \* the service's clock
  receipts,      \* the service's table
  form,          \* the fields of the verify view
  gate_form,     \* the fields of the gate view
  requests,      \* calls whose answer the page has not handled
  last,          \* kind -> the number of the last call of that kind, 0 before
  disabled,      \* buttons that cannot be pressed
  errors,        \* error boxes that are displayed
  lastReceipt,   \* the script's variable of that name
  verdict, decision, list,   \* which call the result on display answers, and the
                 \* other panels with their call's number
  clicks

service == <<now, receipts>>
panels == <<errors, lastReceipt, verdict, decision, list>>
cvars == <<service, form, gate_form, requests, last, disabled, panels, clicks>>

Kinds == {"verify", "gate", "load"}
Failed == [ok |-> FALSE]
Ok(data) == [ok |-> TRUE, data |-> data]

DefaultTtl == 60
DefaultMaxBytes == 64000
DefaultLimit == 20

Init ==
  /\ now = 0 /\ receipts = << >>
  /\ form \in Forms
  /\ gate_form = [receipt_id |-> Blank, artifact |-> Blank, require_signed |-> TRUE]
  /\ requests = {} /\ last = [kind \in Kinds |-> 0]
  /\ disabled = {} /\ errors = {}
  /\ lastReceipt = NULL /\ verdict = 0 /\ decision = NULL /\ list = NULL
  /\ clicks = 0

Tick ==
  /\ now < MaxTime
  /\ now' = now + TickMinutes
  /\ UNCHANGED <<receipts, form, gate_form, requests, last, disabled, panels, clicks>>

---------------------------------------------------------------------------
(* What the user does.                                                     *)

Click == clicks < MaxClicks /\ clicks' = clicks + 1

Edit ==
  /\ form' \in Forms
  /\ UNCHANGED <<service, gate_form, requests, last, disabled, panels, clicks>>

LoadDemo(demo) ==
  /\ form' = [f \in DOMAIN form |-> IF f \in DOMAIN demo THEN demo[f] ELSE form[f]]
  /\ UNCHANGED <<service, gate_form, requests, last, disabled, panels, clicks>>

EditGate ==
  /\ gate_form' \in [receipt_id : DOMAIN receipts \cup {gate_form.receipt_id},
                     artifact : Artifacts, require_signed : SignedBoxes]
  /\ UNCHANGED <<service, form, requests, last, disabled, panels, clicks>>

Number == 1 + Max({last[kind] : kind \in Kinds})

\* fetch: others are the calls under way besides the new one
Send(kind, body, others) ==
  /\ requests' = others \cup {[no |-> Number, kind |-> kind, body |-> body, answer |-> NULL]}
  /\ last' = [last EXCEPT ![kind] = Number]

\* the body of POST /v1/verify; what the page leaves out takes its default
VerifyBody ==
  [task |-> form.task, artifact |-> form.artifact, evidence |-> form.evidence,
   json_schema |-> form.schema, parent_receipt_sha256 |-> NULL,
   contract |-> [require_json |-> \/ form.requireJson \/ form.fields # {} \/ form.schema # NULL,
                 required_json_fields |-> form.fields,
                 required_strings |-> {}, forbidden_strings |-> {},
                 min_evidence_items |-> form.evidenceMin, max_artifact_bytes |-> DefaultMaxBytes,
                 block_on_prompt_injection |-> form.blockInjection,
                 block_on_secret_exposure |-> form.blockSecrets,
                 receipt_ttl |-> DefaultTtl]]

\* text that is no JSON is an error at once, and finally enables the button
PressVerifyUnparsable ==
  /\ Click /\ "verify" \notin disabled
  /\ form.schema = NotJson
  /\ errors' = errors \cup {"verify"}
  /\ UNCHANGED <<service, form, gate_form, requests, last, disabled,
                 lastReceipt, verdict, decision, list>>

PressVerify ==
  /\ Click /\ "verify" \notin disabled
  /\ form.schema # NotJson
  /\ errors' = errors \ {"verify"} /\ disabled' = disabled \cup {"verify"}
  /\ Send("verify", VerifyBody, requests)
  /\ UNCHANGED <<service, form, gate_form, lastReceipt, verdict, decision, list>>

\* A bug a rewrite could bring in: the button stays enabled.
PressGateAgain ==
  /\ Click
  /\ errors' = errors \ {"gate"}
  /\ Send("gate", gate_form, requests)
  /\ UNCHANGED <<service, form, gate_form, disabled, lastReceipt, verdict, decision, list>>

PressGate ==
  /\ Click /\ "gate" \notin disabled
  /\ errors' = errors \ {"gate"} /\ disabled' = disabled \cup {"gate"}
  /\ Send("gate", gate_form, requests)
  /\ UNCHANGED <<service, form, gate_form, lastReceipt, verdict, decision, list>>

\* the button "Use last PASS receipt"
UseLast ==
  /\ lastReceipt # NULL
  /\ gate_form' = [gate_form EXCEPT !.receipt_id = lastReceipt.receipt.receipt_id,
                                    !.artifact = lastReceipt.artifact]
  /\ errors' = errors \ {"gate"}
  /\ UNCHANGED <<service, form, requests, last, disabled,
                 lastReceipt, verdict, decision, list, clicks>>

UseLastWithout ==
  /\ lastReceipt = NULL
  /\ errors' = errors \cup {"gate"}
  /\ UNCHANGED <<service, form, gate_form, requests, last, disabled,
                 lastReceipt, verdict, decision, list, clicks>>

\* the button Refresh, or the tab of the history
Refresh ==
  /\ Click
  /\ Send("load", NULL, requests)
  /\ UNCHANGED <<service, form, gate_form, disabled, panels>>

---------------------------------------------------------------------------
(* The service and the network.                                            *)

Answered(r, answer) == requests' = (requests \ {r}) \cup {[r EXCEPT !.answer = answer]}

ServeVerify(r) ==
  /\ r.kind = "verify" /\ r.answer = NULL
  /\ IF Rejects(r.body) \/ Breaks(r.body)
     THEN Answered(r, Failed) /\ UNCHANGED receipts
     ELSE LET receipt == Verify(r.body, now, SigningKey) IN
          /\ receipts' = [id \in DOMAIN receipts \cup {receipt.receipt_id} |->
                            IF id = receipt.receipt_id THEN receipt ELSE receipts[id]]
          /\ Answered(r, Ok(receipt))
  /\ UNCHANGED <<now, form, gate_form, last, disabled, panels, clicks>>

\* a receipt id without its shape is refused, 422
ServeGate(r) ==
  /\ r.kind = "gate" /\ r.answer = NULL
  /\ LET stored  == IF r.body.receipt_id \in DOMAIN receipts
                    THEN receipts[r.body.receipt_id] ELSE NULL
         reasons == GateReasons(stored, r.body, SigningKey, now)
     IN Answered(r, IF r.body.receipt_id = Blank THEN Failed
                    ELSE Ok([decision |-> IF reasons = {} THEN "ALLOW" ELSE "BLOCK",
                             at |-> now]))
  /\ UNCHANGED <<service, form, gate_form, last, disabled, panels, clicks>>

\* all receipts of one minute have one text
CreatedAt == [id \in DOMAIN receipts |-> IsoText([second |-> receipts[id].created_at, micro |-> 0])]

ServeLoad(r) ==
  /\ r.kind = "load" /\ r.answer = NULL
  /\ \E page \in Pages(CreatedAt, DefaultLimit) : Answered(r, Ok(page))
  /\ UNCHANGED <<service, form, gate_form, last, disabled, panels, clicks>>

\* the call or its answer is lost, or the service fails
Lose(r) ==
  /\ r.answer # Failed
  /\ Answered(r, Failed)
  /\ UNCHANGED <<service, form, gate_form, last, disabled, panels, clicks>>

---------------------------------------------------------------------------
(* The rest of the page's functions, after their await.                    *)

Shown(r) == [no |-> r.no, data |-> r.answer.data]

\* Bugs a rewrite could bring in: the field is read when the answer comes, or
\* the history is not loaded again.
VerifyAnswerReadsForm(r) ==
  /\ r.kind = "verify" /\ r.answer # NULL /\ r.answer.ok
  /\ lastReceipt' = [receipt |-> r.answer.data, artifact |-> form.artifact]
  /\ verdict' = r.no
  /\ Send("load", NULL, requests \ {r})
  /\ disabled' = disabled \ {"verify"}
  /\ UNCHANGED <<service, form, gate_form, errors, decision, list, clicks>>

VerifyAnswerNoRefresh(r) ==
  /\ r.kind = "verify" /\ r.answer # NULL /\ r.answer.ok
  /\ lastReceipt' = [receipt |-> r.answer.data, artifact |-> r.body.artifact]
  /\ verdict' = r.no
  /\ requests' = requests \ {r} /\ disabled' = disabled \ {"verify"}
  /\ UNCHANGED <<service, form, gate_form, last, errors, decision, list, clicks>>

VerifyAnswer(r) ==
  /\ r.kind = "verify" /\ r.answer # NULL /\ r.answer.ok
  /\ lastReceipt' = [receipt |-> r.answer.data, artifact |-> r.body.artifact]
  /\ verdict' = r.no
  /\ Send("load", NULL, requests \ {r})
  /\ disabled' = disabled \ {"verify"}
  /\ UNCHANGED <<service, form, gate_form, errors, decision, list, clicks>>

GateAnswer(r) ==
  /\ r.kind = "gate" /\ r.answer # NULL /\ r.answer.ok
  /\ decision' = Shown(r)
  /\ requests' = requests \ {r} /\ disabled' = disabled \ {"gate"}
  /\ UNCHANGED <<service, form, gate_form, last, errors, lastReceipt, verdict, list, clicks>>

\* Bugs a rewrite could bring in: no finally, or no error box.
FailureKeepsDisabled(r) ==
  /\ r.kind # "load" /\ r.answer = Failed
  /\ errors' = errors \cup {r.kind}
  /\ requests' = requests \ {r}
  /\ UNCHANGED <<service, form, gate_form, last, disabled, lastReceipt, verdict, decision, list, clicks>>

FailureUnsaid(r) ==
  /\ r.kind # "load" /\ r.answer = Failed
  /\ requests' = requests \ {r} /\ disabled' = disabled \ {r.kind}
  /\ UNCHANGED <<service, form, gate_form, last, panels, clicks>>

\* catch and finally of verify and gate
Failure(r) ==
  /\ r.kind # "load" /\ r.answer = Failed
  /\ errors' = errors \cup {r.kind}
  /\ requests' = requests \ {r} /\ disabled' = disabled \ {r.kind}
  /\ UNCHANGED <<service, form, gate_form, last, lastReceipt, verdict, decision, list, clicks>>

\* a list that could not be loaded takes the place of the one displayed
LoadAnswer(r) ==
  /\ r.kind = "load" /\ r.answer # NULL
  /\ list' = IF r.answer.ok THEN Shown(r) ELSE Failed
  /\ requests' = requests \ {r}
  /\ UNCHANGED <<service, form, gate_form, last, disabled, errors,
                 lastReceipt, verdict, decision, clicks>>

---------------------------------------------------------------------------
Serve(r) == ServeVerify(r) \/ ServeGate(r) \/ ServeLoad(r)
Handle(r) == VerifyAnswer(r) \/ GateAnswer(r) \/ Failure(r) \/ LoadAnswer(r)

Next ==
  \/ Tick
  \/ Edit \/ (\E demo \in Demos : LoadDemo(demo)) \/ EditGate
  \/ PressVerifyUnparsable \/ PressVerify \/ PressGate \/ Refresh
  \/ UseLast \/ UseLastWithout
  \/ \E r \in requests : Serve(r) \/ Lose(r) \/ Handle(r)

ConsoleSpec == Init /\ [][Next]_cvars

\* Every call is answered or fails in the end (CallsAreAnswered of Sentinel),
\* and the browser runs what waits for it.
Settle == \E r \in requests : Lose(r) \/ Handle(r) \/ Serve(r)
FairConsoleSpec == ConsoleSpec /\ WF_cvars(Settle)

---------------------------------------------------------------------------
(* Properties.                                                             *)

\* Each call is under way once; a button is disabled exactly while its call is,
\* and nothing is shown that was never called for (index.html, verify and gate).
TypeOK ==
  /\ form.artifact \in Artifacts /\ gate_form.artifact \in Artifacts \cup {Blank}
  /\ \A kind \in {"verify", "gate"} :
       /\ kind \in disabled <=> \E r \in requests : r.kind = kind
       /\ \A r, s \in requests : r.kind = kind /\ s.kind = kind => r = s
  /\ \A r, s \in requests : r.no = s.no => r = s
  /\ \A r \in requests : r.no <= last[r.kind]
  /\ \A id \in DOMAIN receipts : receipts[id].receipt_id = id
  /\ verdict <= last["verify"]
  /\ decision # NULL => decision.no <= last["gate"]

\* The pair the page keeps for "Use last PASS receipt" (index.html verify and
\* useLast) is one the gate allows while the receipt is current, however long
\* the answers took and whatever was typed meanwhile.
KeptPairIsAllowed ==
  \A r \in requests :
    (/\ r.kind = "gate" /\ r.answer \notin {NULL, Failed}
     /\ lastReceipt # NULL /\ lastReceipt.receipt.verdict = "PASS"
     /\ r.body.receipt_id = lastReceipt.receipt.receipt_id
     /\ r.body.artifact = lastReceipt.artifact
     /\ r.answer.data.at < lastReceipt.receipt.expires_at
     /\ r.body.require_signed => SigningKey # NULL)
    => r.answer.data.decision = "ALLOW"

\* While the verify button is enabled and no error is displayed, the verdict on
\* the page is the answer to the last call, never to an earlier one.
VerdictIsOfTheLastCall ==
  verdict # 0 /\ "verify" \notin disabled \cup errors => verdict = last["verify"]

\* receipts at least as new as the one on the page
AsNew == {id \in DOMAIN receipts : receipts[id].created_at >= lastReceipt.receipt.created_at}

\* Once every list that was asked for has come, and the last one came last, the
\* history displays the receipt the page shows, unless newer receipts, whose
\* answers were lost, fill the page (index.html verify, loadReceipts).
ListShowsLastReceipt ==
  (/\ lastReceipt # NULL /\ list \notin {NULL, Failed}
   /\ list.no = last["load"]
   /\ Cardinality(AsNew) <= DefaultLimit)
  => \E i \in DOMAIN list.data : list.data[i] = lastReceipt.receipt.receipt_id

\* Every button that was disabled is enabled again (the finally blocks).
ButtonsComeBack ==
  \A button \in {"verify", "gate"} : button \in disabled ~> button \notin disabled

---------------------------------------------------------------------------
(* What the page relies on is the promise Sentinel keeps: a proof is a row  *)
(* without a failed check, a decision is an answer of the gate under way.   *)

ProofOf(artifact, row) ==
  [artifact |-> artifact, until |-> row.expires_at, signer |-> SignerOf(row)]

Proves(row, artifact) ==
  /\ row.artifact_sha256 = Sha256(artifact)
  /\ Failing(row.checks, "BLOCK") = {} /\ Failing(row.checks, "WARN") = {}

Proofs ==
  {ProofOf(p[1], receipts[p[2]]) :
     p \in {q \in Artifacts \X DOMAIN receipts : Proves(receipts[q[2]], q[1])}}

DecisionOn(r) ==
  [artifact |-> r.body.artifact, signed |-> r.body.require_signed,
   key |-> SigningKey, decision |-> r.answer.data.decision]

Judged == {r \in requests : r.kind = "gate" /\ r.answer \notin {NULL, Failed}}

Abstract == INSTANCE ProofBeforeAction WITH
  Actors  <- {"page"},
  Keys    <- {SigningKey},
  None    <- NULL,
  proofs  <- Proofs,
  clock   <- now,
  decided <- [actor \in {"page"} |->
                IF Judged = {} THEN NULL ELSE DecisionOn(CHOOSE r \in Judged : TRUE)]

\* The page and its service implement ProofBeforeAction, as Sentinel does: what
\* the gate answers to the page, whatever is typed, verified or lost meanwhile,
\* is one look at the proofs there are, and no proof is taken back (api.py gate).
KeepsPromise == Abstract!Promise
=============================================================================
