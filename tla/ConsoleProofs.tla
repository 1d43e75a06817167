--------------------------- MODULE ConsoleProofs ---------------------------
(***************************************************************************)
(* Proofs about Console for every form, every demo, any number of clicks   *)
(* and answers in any order.                                               *)
(***************************************************************************)
EXTENDS Console, ReceiptProofs, FiniteSetTheorems

\* The number of a new call is larger than every number given before.
LEMMA NumberIsFresh ==
  ASSUME last \in [Kinds -> Nat]
  PROVE  Number \in Nat /\ \A kind \in Kinds : last[kind] < Number
<1> DEFINE S == {last[kind] : kind \in Kinds}
<1>1. \E x \in S : \A y \in S : x >= y
  <2> DEFINE v == last["verify"]
             g == last["gate"]
             l == last["load"]
  <2>1. S = {v, g, l}
    BY DEF Kinds
  <2>2. v \in Nat /\ g \in Nat /\ l \in Nat
    BY DEF Kinds
  <2> HIDE DEF S, v, g, l
  <2>3. \E x \in {v, g, l} : x >= v /\ x >= g /\ x >= l
    BY <2>2
  <2> QED BY <2>1, <2>3
<1>2. Max(S) \in S /\ \A y \in S : Max(S) >= y
  BY <1>1 DEF Max
<1>3. S \subseteq Nat /\ \A kind \in Kinds : last[kind] \in S
  OBVIOUS
<1>4. Number = 1 + Max(S)
  BY DEF Number
<1> HIDE DEF S
<1>5. Max(S) \in Nat /\ \A kind \in Kinds : last[kind] \in Nat /\ Max(S) >= last[kind]
  BY <1>2, <1>3
<1> QED BY <1>4, <1>5

---------------------------------------------------------------------------
(* Calls, buttons and numbers.                                             *)

Shaped(r, nos) ==
  /\ r = [no |-> r.no, kind |-> r.kind, body |-> r.body, answer |-> r.answer]
  /\ r.kind \in Kinds /\ r.no \in Nat /\ r.no <= nos[r.kind]
  /\ r.kind # "load" => r.no = nos[r.kind]

\* A button's call is the last of its kind, which TypeOK does not say.
CallsInv ==
  /\ last \in [Kinds -> Nat]
  /\ \A r \in requests : Shaped(r, last)
  /\ \A r, s \in requests : r.no = s.no => r = s
  /\ \A r, s \in requests : r.kind = s.kind /\ r.kind # "load" => r = s
  /\ \A kind \in {"verify", "gate"} : kind \in disabled <=> \E r \in requests : r.kind = kind
  /\ verdict \in Nat /\ verdict <= last["verify"]
  /\ "verify" \notin disabled \cup errors => verdict = last["verify"]
  /\ decision # NULL => decision.no \in Nat /\ decision.no <= last["gate"]

\* Nothing was called when the page was loaded.
LEMMA InitCalls == Init => CallsInv
BY DEF Init, CallsInv, Kinds

\* An answer, or its loss, changes no number.
LEMMA AnsweredKeepsCalls ==
  ASSUME CallsInv, NEW r \in requests, NEW answer, Answered(r, answer),
         UNCHANGED <<last, disabled, errors, verdict, decision>>
  PROVE  CallsInv'
<1> DEFINE a == [r EXCEPT !.answer = answer]
<1>1. /\ a = [no |-> r.no, kind |-> r.kind, body |-> r.body, answer |-> answer]
      /\ a.no = r.no /\ a.kind = r.kind /\ a.body = r.body /\ a.answer = answer
  BY DEF CallsInv, Shaped
<1>2. requests' = (requests \ {r}) \cup {a}
  BY DEF Answered
<1> HIDE DEF a
<1>3. \A s \in requests' : Shaped(s, last')
  BY <1>1, <1>2 DEF CallsInv, Shaped
<1>4. \A s, t \in requests' : s.no = t.no => s = t
  BY <1>1, <1>2 DEF CallsInv
<1>5. \A s, t \in requests' : s.kind = t.kind /\ s.kind # "load" => s = t
  BY <1>1, <1>2 DEF CallsInv
<1>6. \A kind : (\E s \in requests : s.kind = kind) <=> \E s \in requests' : s.kind = kind
  BY <1>1, <1>2
<1> QED BY <1>3, <1>4, <1>5, <1>6 DEF CallsInv

\* A new call takes a fresh number, whatever is under way.
LEMMA SendKeepsCalls ==
  ASSUME CallsInv, NEW kind \in Kinds, NEW body, NEW others \in SUBSET requests,
         Send(kind, body, others), kind # "load" => \A r \in others : r.kind # kind
  PROVE  /\ last' \in [Kinds -> Nat] /\ last'[kind] = Number
         /\ \A other \in Kinds \ {kind} : last'[other] = last[other]
         /\ \A r \in requests' : Shaped(r, last')
         /\ \A r, s \in requests' : r.no = s.no => r = s
         /\ \A r, s \in requests' : r.kind = s.kind /\ r.kind # "load" => r = s
         /\ \A other : (\E r \in requests' : r.kind = other)
                         <=> other = kind \/ \E r \in others : r.kind = other
<1> DEFINE new == [no |-> Number, kind |-> kind, body |-> body, answer |-> NULL]
<1>1. requests' = others \cup {new} /\ last' = [last EXCEPT ![kind] = Number]
  BY DEF Send
<1>2. new = [no |-> new.no, kind |-> new.kind, body |-> new.body, answer |-> new.answer]
      /\ new.no = Number /\ new.kind = kind
  OBVIOUS
<1>3. Number \in Nat /\ \A k \in Kinds : last[k] < Number
  BY NumberIsFresh DEF CallsInv
<1> HIDE DEF new
<1>4. /\ last' \in [Kinds -> Nat] /\ last'[kind] = Number
      /\ \A other \in Kinds \ {kind} : last'[other] = last[other]
  BY <1>1, <1>3 DEF CallsInv
<1>5. \A r \in others : r.no \in Nat /\ r.no < Number
  BY <1>3 DEF CallsInv, Shaped
<1>6. \A r \in requests' : Shaped(r, last')
  <2>1. Shaped(new, last')
    BY <1>2, <1>3, <1>4 DEF Shaped
  <2>2. ASSUME NEW r \in others PROVE Shaped(r, last')
    <3>1. Shaped(r, last)
      BY DEF CallsInv
    <3>2. CASE r.kind = kind
      BY <1>3, <1>4, <1>5, <3>1, <3>2 DEF Shaped
    <3>3. CASE r.kind # kind
      BY <1>4, <3>1, <3>3 DEF Shaped
    <3> QED BY <3>2, <3>3
  <2> QED BY <1>1, <2>1, <2>2 DEF Shaped
<1>7. \A r, s \in requests' : r.no = s.no => r = s
  BY <1>1, <1>2, <1>3, <1>5 DEF CallsInv
<1>8. \A r, s \in requests' : r.kind = s.kind /\ r.kind # "load" => r = s
  BY <1>1, <1>2 DEF CallsInv
<1> QED BY <1>1, <1>2, <1>4, <1>6, <1>7, <1>8

\* Handling an answer ends its call (the finally blocks of index.html).
LEMMA HandledKeepsCalls ==
  ASSUME CallsInv, NEW r \in requests, requests' = requests \ {r}, UNCHANGED last
  PROVE  /\ last' \in [Kinds -> Nat] /\ last' = last
         /\ \A s \in requests' : Shaped(s, last')
         /\ \A s, t \in requests' : s.no = t.no => s = t
         /\ \A s, t \in requests' : s.kind = t.kind /\ s.kind # "load" => s = t
         /\ \A kind \in {"verify", "gate"} :
              (\E s \in requests' : s.kind = kind)
                <=> kind # r.kind /\ \E s \in requests : s.kind = kind
BY DEF CallsInv, Shaped

\* Clicks, answers in any order and failures keep the calls in order: one step
\* per function of the page.
LEMMA NextCalls == CallsInv /\ [Next]_cvars => CallsInv'
<1> SUFFICES ASSUME CallsInv, [Next]_cvars PROVE CallsInv'
  OBVIOUS
<1>1. CASE UNCHANGED <<requests, last, disabled, errors, verdict, decision>>
  BY <1>1 DEF CallsInv, Shaped
<1>2. CASE PressVerifyUnparsable \/ UseLast \/ UseLastWithout
  <2>1. UNCHANGED <<requests, last, disabled, verdict, decision>>
        /\ ("verify" \in errors => "verify" \in errors')
    BY <1>2 DEF PressVerifyUnparsable, UseLast, UseLastWithout
  <2> QED BY <2>1 DEF CallsInv, Shaped
<1>3. CASE PressVerify
  <2>1. /\ Send("verify", VerifyBody, requests) /\ disabled' = disabled \cup {"verify"}
        /\ "verify" \notin disabled /\ UNCHANGED <<verdict, decision>>
    BY <1>3 DEF PressVerify
  <2>2. \A r \in requests : r.kind # "verify"
    BY <2>1 DEF CallsInv
  <2>3. PICK body : body = VerifyBody
    OBVIOUS
  <2>4. Send("verify", body, requests) /\ "verify" \in Kinds
    BY <2>1, <2>3 DEF Kinds
  <2>5. /\ last' \in [Kinds -> Nat] /\ last'["verify"] = Number
        /\ \A other \in Kinds \ {"verify"} : last'[other] = last[other]
        /\ \A r \in requests' : Shaped(r, last')
        /\ \A r, s \in requests' : r.no = s.no => r = s
        /\ \A r, s \in requests' : r.kind = s.kind /\ r.kind # "load" => r = s
        /\ \A other : (\E r \in requests' : r.kind = other)
                        <=> other = "verify" \/ \E r \in requests : r.kind = other
    BY <2>2, <2>4, SendKeepsCalls
  <2>6. last'["gate"] = last["gate"] /\ last["verify"] \in Nat /\ last["verify"] < Number
        /\ Number \in Nat
    BY <2>5, NumberIsFresh DEF Kinds, CallsInv
  <2>7. verdict' \in Nat /\ verdict' <= last'["verify"]
    BY <2>1, <2>5, <2>6 DEF CallsInv
  <2>8. \A kind \in {"verify", "gate"} : kind \in disabled' <=> \E r \in requests' : r.kind = kind
    BY <2>1, <2>5 DEF CallsInv
  <2> QED BY <2>1, <2>5, <2>6, <2>7, <2>8 DEF CallsInv
<1>4. CASE PressGate
  <2>1. /\ Send("gate", gate_form, requests) /\ disabled' = disabled \cup {"gate"}
        /\ "gate" \notin disabled /\ UNCHANGED <<verdict, decision>> /\ errors' = errors \ {"gate"}
        /\ "gate" \in Kinds
    BY <1>4 DEF PressGate, Kinds
  <2>2. \A r \in requests : r.kind # "gate"
    BY <2>1 DEF CallsInv
  <2>3. /\ last' \in [Kinds -> Nat] /\ last'["gate"] = Number
        /\ \A other \in Kinds \ {"gate"} : last'[other] = last[other]
        /\ \A r \in requests' : Shaped(r, last')
        /\ \A r, s \in requests' : r.no = s.no => r = s
        /\ \A r, s \in requests' : r.kind = s.kind /\ r.kind # "load" => r = s
        /\ \A other : (\E r \in requests' : r.kind = other)
                        <=> other = "gate" \/ \E r \in requests : r.kind = other
    BY <2>1, <2>2, SendKeepsCalls
  <2>4. last'["verify"] = last["verify"] /\ last["gate"] \in Nat /\ last["gate"] < Number
        /\ Number \in Nat
    BY <2>3, NumberIsFresh DEF Kinds, CallsInv
  <2>5. decision' # NULL => decision'.no \in Nat /\ decision'.no <= last'["gate"]
    BY <2>1, <2>3, <2>4 DEF CallsInv
  <2>6. \A kind \in {"verify", "gate"} : kind \in disabled' <=> \E r \in requests' : r.kind = kind
    BY <2>1, <2>3 DEF CallsInv
  <2> QED BY <2>1, <2>3, <2>4, <2>5, <2>6 DEF CallsInv
<1>5. CASE Refresh
  <2>1. Send("load", NULL, requests) /\ UNCHANGED <<disabled, errors, verdict, decision>>
        /\ "load" \in Kinds
    BY <1>5 DEF Refresh, panels, Kinds
  <2>2. /\ last' \in [Kinds -> Nat]
        /\ \A other \in Kinds \ {"load"} : last'[other] = last[other]
        /\ \A r \in requests' : Shaped(r, last')
        /\ \A r, s \in requests' : r.no = s.no => r = s
        /\ \A r, s \in requests' : r.kind = s.kind /\ r.kind # "load" => r = s
        /\ \A other : (\E r \in requests' : r.kind = other)
                        <=> other = "load" \/ \E r \in requests : r.kind = other
    BY <2>1, SendKeepsCalls
  <2>3. last'["gate"] = last["gate"] /\ last'["verify"] = last["verify"]
    BY <2>2 DEF Kinds
  <2> QED BY <2>1, <2>2, <2>3 DEF CallsInv
<1>6. ASSUME NEW r \in requests, Serve(r) \/ Lose(r) PROVE CallsInv'
  <2>1. /\ \E answer : Answered(r, answer)
        /\ UNCHANGED <<last, disabled, errors, verdict, decision>>
    BY <1>6 DEF Serve, ServeVerify, ServeGate, ServeLoad, Lose, panels
  <2> QED BY <2>1, AnsweredKeepsCalls
<1>7. ASSUME NEW r \in requests, VerifyAnswer(r) PROVE CallsInv'
  <2>1. /\ r.kind = "verify" /\ Send("load", NULL, requests \ {r}) /\ verdict' = r.no
        /\ disabled' = disabled \ {"verify"} /\ UNCHANGED <<errors, decision>>
        /\ "load" \in Kinds
    BY <1>7 DEF VerifyAnswer, Kinds
  <2>2. /\ last' \in [Kinds -> Nat]
        /\ \A other \in Kinds \ {"load"} : last'[other] = last[other]
        /\ \A s \in requests' : Shaped(s, last')
        /\ \A s, t \in requests' : s.no = t.no => s = t
        /\ \A s, t \in requests' : s.kind = t.kind /\ s.kind # "load" => s = t
        /\ \A other : (\E s \in requests' : s.kind = other)
                        <=> other = "load" \/ \E s \in requests \ {r} : s.kind = other
    BY <2>1, SendKeepsCalls
  <2>3. last'["gate"] = last["gate"] /\ last'["verify"] = last["verify"]
    BY <2>2 DEF Kinds
  <2>4. r.no \in Nat /\ r.no = last["verify"] /\ last["verify"] \in Nat
    BY <2>1 DEF CallsInv, Shaped, Kinds
  <2>5. \A s \in requests \ {r} : s.kind # "verify"
    BY <2>1 DEF CallsInv
  <2>6. \A kind \in {"verify", "gate"} : kind \in disabled' <=> \E s \in requests' : s.kind = kind
    BY <2>1, <2>2, <2>5 DEF CallsInv
  <2> QED BY <2>1, <2>2, <2>3, <2>4, <2>6 DEF CallsInv
<1>8. ASSUME NEW r \in requests, GateAnswer(r) PROVE CallsInv'
  <2>1. /\ r.kind = "gate" /\ requests' = requests \ {r} /\ disabled' = disabled \ {"gate"}
        /\ decision' = Shown(r) /\ UNCHANGED <<last, errors, verdict>>
    BY <1>8 DEF GateAnswer
  <2>2. decision'.no = r.no
    BY <2>1 DEF Shown
  <2>3. r.no \in Nat /\ r.no = last["gate"] /\ last["gate"] \in Nat
    BY <2>1 DEF CallsInv, Shaped, Kinds
  <2>4. \A kind \in {"verify", "gate"} : kind \in disabled' <=> \E s \in requests' : s.kind = kind
    BY <2>1, HandledKeepsCalls DEF CallsInv
  <2> QED BY <2>1, <2>2, <2>3, <2>4, HandledKeepsCalls DEF CallsInv
<1>9. ASSUME NEW r \in requests, Failure(r) PROVE CallsInv'
  <2>1. /\ r.kind # "load" /\ requests' = requests \ {r} /\ disabled' = disabled \ {r.kind}
        /\ errors' = errors \cup {r.kind} /\ UNCHANGED <<last, verdict, decision>>
    BY <1>9 DEF Failure
  <2>2. \A kind \in {"verify", "gate"} : kind \in disabled' <=> \E s \in requests' : s.kind = kind
    BY <2>1, HandledKeepsCalls DEF CallsInv
  <2>3. "verify" \notin disabled' \cup errors' => verdict' = last'["verify"]
    BY <2>1 DEF CallsInv
  <2> QED BY <2>1, <2>2, <2>3, HandledKeepsCalls DEF CallsInv
<1>10. ASSUME NEW r \in requests, LoadAnswer(r) PROVE CallsInv'
  <2>1. /\ r.kind = "load" /\ requests' = requests \ {r}
        /\ UNCHANGED <<last, disabled, errors, verdict, decision>>
    BY <1>10 DEF LoadAnswer
  <2>2. \A kind \in {"verify", "gate"} : kind \in disabled' <=> \E s \in requests' : s.kind = kind
    BY <2>1, HandledKeepsCalls DEF CallsInv
  <2> QED BY <2>1, <2>2, HandledKeepsCalls DEF CallsInv
<1>11. CASE Tick \/ Edit \/ (\E demo \in Demos : LoadDemo(demo)) \/ EditGate \/ UNCHANGED cvars
  <2>1. UNCHANGED <<requests, last, disabled, errors, verdict, decision>>
    BY <1>11 DEF Tick, Edit, LoadDemo, EditGate, cvars, panels
  <2> QED BY <1>1, <2>1
<1> QED
  BY <1>2, <1>3, <1>4, <1>5, <1>6, <1>7, <1>8, <1>9, <1>10, <1>11 DEF Next, Handle

\* While the verify button is enabled and no error is displayed, the verdict on
\* the page answers the last call (index.html verify).
THEOREM ConsoleVerdictIsOfTheLastCall == ConsoleSpec => []VerdictIsOfTheLastCall
<1>1. CallsInv => VerdictIsOfTheLastCall
  BY DEF CallsInv, VerdictIsOfTheLastCall
<1> QED BY <1>1, InitCalls, NextCalls, PTL DEF ConsoleSpec

---------------------------------------------------------------------------
(* The pair the page keeps.                                                *)

\* A receipt this deployment issued for an artifact.
Made(r, artifact) ==
  /\ Genuine([artifact |-> artifact], r)
  /\ Decodes(r) /\ Intact(r, SigningKey)
  /\ r.signature = IF SigningKey = NULL THEN NULL ELSE Hmac(SigningKey, r.receipt_sha256)

Stored(r, artifact, rows) ==
  /\ artifact \in Artifacts /\ Made(r, artifact)
  /\ r.receipt_id \in DOMAIN rows /\ rows[r.receipt_id] = r

Came(answer) == answer # NULL /\ answer # Failed

Decided(stored, call, at) ==
  IF GateReasons(stored, call, SigningKey, at) = {} THEN "ALLOW" ELSE "BLOCK"

CallOK(r, rows) ==
  /\ r.kind = "verify" =>
       /\ HasPolicy(r.body) /\ r.body.artifact \in Artifacts
       /\ Came(r.answer) => Stored(r.answer.data, r.body.artifact, rows)
  /\ r.kind = "gate" =>
       /\ r.body.receipt_id \in DOMAIN rows \cup {Blank}
       /\ Came(r.answer) =>
            /\ r.body.receipt_id \in DOMAIN rows
            /\ r.answer.data.decision
                 = Decided(rows[r.body.receipt_id], r.body, r.answer.data.at)

\* Every row, and every receipt on the page or on its way, was issued by the
\* deployment, and an answer of the gate is about the row that is still there.
PairInv ==
  /\ now \in Nat
  /\ "artifact" \in DOMAIN form /\ form.artifact \in Artifacts
  /\ gate_form.artifact \in Artifacts \cup {Blank}
  /\ gate_form.receipt_id \in DOMAIN receipts \cup {Blank}
  /\ \A id \in DOMAIN receipts : receipts[id].receipt_id = id /\ \E a : Made(receipts[id], a)
  /\ lastReceipt # NULL => Stored(lastReceipt.receipt, lastReceipt.artifact, receipts)
  /\ \A r \in requests : CallOK(r, receipts)

\* What verify issues for a call is made for its artifact.
LEMMA VerifyMakes ==
  ASSUME Distinct, NEW call, HasPolicy(call), ~Rejects(call), NEW clock \in Nat
  PROVE  Made(Verify(call, clock, SigningKey), call.artifact)
<1> DEFINE r == Verify(call, clock, SigningKey)
<1>1. Genuine(call, r)
  BY VerifyIsGenuine
<1>2. Decodes(r) /\ Intact(r, SigningKey)
  BY VerifyIsAccepted
<1>3. r.signature = IF SigningKey = NULL THEN NULL ELSE Hmac(SigningKey, r.receipt_sha256)
  BY SignatureOfVerify
<1> HIDE DEF r
<1>4. Genuine([artifact |-> call.artifact], r)
  BY <1>1 DEF Genuine
<1> QED BY <1>2, <1>3, <1>4 DEF Made, r

\* Under one key the id fixes the receipt, its signature too.
LEMMA MadeAgree ==
  ASSUME NEW r, NEW s, NEW a, NEW b, Made(r, a), Made(s, b), r.receipt_id = s.receipt_id
  PROVE  r = s
<1>1. Genuine([artifact |-> a], r) /\ Genuine([artifact |-> b], s)
  BY DEF Made
<1>2. Signed(r, r.signature) = Signed(s, r.signature)
  BY <1>1, SameButSignature
<1>3. r.signature = s.signature
  BY <1>1, Injective DEF Made, Genuine
<1>4. Signed(r, r.signature) = r /\ Signed(s, s.signature) = s
  BY <1>1 DEF Genuine, Signed
<1> QED BY <1>2, <1>3, <1>4

\* A call stays as it is while rows are only added.
LEMMA RowsGrow ==
  ASSUME NEW old, NEW new, DOMAIN old \subseteq DOMAIN new,
         \A id \in DOMAIN old : new[id] = old[id]
  PROVE  /\ \A r : CallOK(r, old) => CallOK(r, new)
         /\ \A r, a : Stored(r, a, old) => Stored(r, a, new)
<1>1. \A r, a : Stored(r, a, old) => Stored(r, a, new)
  BY DEF Stored
<1>2. ASSUME NEW r, CallOK(r, old) PROVE CallOK(r, new)
  BY <1>1, <1>2 DEF CallOK
<1> QED BY <1>1, <1>2

\* An empty form, an empty table and no call.
LEMMA InitPair == Init => PairInv
<1> SUFFICES ASSUME Init PROVE PairInv
  OBVIOUS
<1>1. DOMAIN receipts = {}
  BY DEF Init
<1>2. gate_form.artifact = Blank /\ gate_form.receipt_id = Blank
  BY DEF Init
<1> QED BY <1>1, <1>2, ConsoleAssumption DEF Init, PairInv

\* The body of a call to verify is a call with the form's artifact.
LEMMA BodyOfVerify == HasPolicy(VerifyBody) /\ VerifyBody.artifact = form.artifact
BY DEF HasPolicy, VerifyBody, PolicyFields

\* A row that verify writes again is the row that is there (api.py verify,
\* store.py save): under one key the id fixes the receipt.
LEMMA ServeVerifyKeepsRows ==
  ASSUME Distinct, PairInv, NEW r \in requests, ServeVerify(r)
  PROVE  \A id \in DOMAIN receipts : receipts'[id] = receipts[id]
<1> SUFFICES ASSUME receipts' # receipts, NEW id \in DOMAIN receipts
             PROVE  receipts'[id] = receipts[id]
  OBVIOUS
<1>1. ~(Rejects(r.body) \/ Breaks(r.body)) /\ HasPolicy(r.body)
  BY DEF ServeVerify, PairInv, CallOK
<1>2. PICK receipt : /\ receipt = Verify(r.body, now, SigningKey)
                     /\ receipts' = [i \in DOMAIN receipts \cup {receipt.receipt_id} |->
                                       IF i = receipt.receipt_id THEN receipt ELSE receipts[i]]
  BY <1>1 DEF ServeVerify
<1>3. Made(receipt, r.body.artifact)
  BY <1>1, <1>2, VerifyMakes DEF PairInv
<1>4. id = receipt.receipt_id => receipt = receipts[id]
  BY <1>3, MadeAgree DEF PairInv
<1> QED BY <1>2, <1>4

\* The service's answer to a call of verify adds at most one row, and changes
\* none (api.py verify, store.py save).
LEMMA ServeVerifyKeepsPair ==
  ASSUME Distinct, CallsInv, PairInv, NEW r \in requests, ServeVerify(r)
  PROVE  PairInv'
<1>1. r.kind = "verify" /\ HasPolicy(r.body) /\ r.body.artifact \in Artifacts
  BY DEF ServeVerify, PairInv, CallOK
<1>2. UNCHANGED <<now, form, gate_form, lastReceipt>>
  BY DEF ServeVerify, panels
<1>3. CASE Rejects(r.body) \/ Breaks(r.body)
  <2>1. Answered(r, Failed) /\ receipts' = receipts
    BY <1>3 DEF ServeVerify
  <2> DEFINE a == [r EXCEPT !.answer = Failed]
  <2>2. a.kind = r.kind /\ a.body = r.body /\ a.answer = Failed
    BY DEF CallsInv, Shaped
  <2>3. requests' = (requests \ {r}) \cup {a}
    BY <2>1 DEF Answered
  <2> HIDE DEF a
  <2>4. CallOK(a, receipts)
    BY <1>1, <2>2 DEF CallOK, Came
  <2> QED BY <1>2, <2>1, <2>3, <2>4 DEF PairInv
<1>4. CASE ~(Rejects(r.body) \/ Breaks(r.body))
  <2>1. PICK receipt : /\ receipt = Verify(r.body, now, SigningKey)
                       /\ receipts' = [id \in DOMAIN receipts \cup {receipt.receipt_id} |->
                                         IF id = receipt.receipt_id THEN receipt ELSE receipts[id]]
                       /\ Answered(r, Ok(receipt))
    BY <1>4 DEF ServeVerify
  <2>2. Made(receipt, r.body.artifact)
    BY <1>1, <1>4, <2>1, VerifyMakes DEF PairInv
  <2>3. \A id \in DOMAIN receipts : receipts'[id] = receipts[id]
    BY ServeVerifyKeepsRows
  <2>4. Stored(receipt, r.body.artifact, receipts')
    BY <1>1, <2>1, <2>2 DEF Stored
  <2> DEFINE a == [r EXCEPT !.answer = Ok(receipt)]
  <2>5. a.kind = r.kind /\ a.body = r.body /\ a.answer = Ok(receipt)
    BY DEF CallsInv, Shaped
  <2>6. requests' = (requests \ {r}) \cup {a}
    BY <2>1 DEF Answered
  <2>7. Ok(receipt).data = receipt
    BY DEF Ok
  <2> HIDE DEF a
  <2>8. CallOK(a, receipts')
    BY <1>1, <2>4, <2>5, <2>7 DEF CallOK
  <2>9. DOMAIN receipts \subseteq DOMAIN receipts'
    BY <2>1
  <2>10. \A s \in requests' : CallOK(s, receipts')
    BY <2>3, <2>6, <2>8, <2>9, RowsGrow DEF PairInv
  <2>11. \A id \in DOMAIN receipts' :
           receipts'[id].receipt_id = id /\ \E b : Made(receipts'[id], b)
    BY <2>1, <2>2 DEF PairInv
  <2>12. lastReceipt' # NULL => Stored(lastReceipt'.receipt, lastReceipt'.artifact, receipts')
    BY <1>2, <2>3, <2>9, RowsGrow DEF PairInv
  <2> QED BY <1>2, <2>9, <2>10, <2>11, <2>12 DEF PairInv
<1> QED BY <1>3, <1>4

\* An answer about a row is about the row that is there (api.py gate).
LEMMA ServeGateKeepsPair ==
  ASSUME CallsInv, PairInv, NEW r \in requests, ServeGate(r)
  PROVE  PairInv'
<1>1. r.kind = "gate" /\ r.body.receipt_id \in DOMAIN receipts \cup {Blank}
  BY DEF ServeGate, PairInv, CallOK
<1>2. UNCHANGED <<now, receipts, form, gate_form, lastReceipt>>
  BY DEF ServeGate, panels, service
<1>3. PICK answer : /\ Answered(r, answer)
                    /\ Came(answer) => /\ r.body.receipt_id \in DOMAIN receipts
                                       /\ answer.data.decision
                                            = Decided(receipts[r.body.receipt_id], r.body,
                                                      answer.data.at)
  <2>1. CASE r.body.receipt_id = Blank
    <3>1. Answered(r, Failed)
      BY <2>1 DEF ServeGate
    <3> QED BY <3>1 DEF Came
  <2>2. CASE r.body.receipt_id # Blank
    <3> DEFINE answer == Ok([decision |-> Decided(receipts[r.body.receipt_id], r.body, now),
                             at |-> now])
    <3>1. r.body.receipt_id \in DOMAIN receipts
      BY <1>1, <2>2
    <3>2. Answered(r, answer)
      BY <2>2, <3>1 DEF ServeGate, Decided
    <3>3. answer.data.decision = Decided(receipts[r.body.receipt_id], r.body, now)
          /\ answer.data.at = now
      BY DEF Ok
    <3> HIDE DEF answer
    <3> QED BY <3>1, <3>2, <3>3
  <2> QED BY <2>1, <2>2
<1> DEFINE a == [r EXCEPT !.answer = answer]
<1>4. a.kind = r.kind /\ a.body = r.body /\ a.answer = answer
  BY DEF CallsInv, Shaped
<1>5. requests' = (requests \ {r}) \cup {a}
  BY <1>3 DEF Answered
<1> HIDE DEF a
<1>6. CallOK(a, receipts)
  BY <1>1, <1>3, <1>4 DEF CallOK
<1> QED BY <1>2, <1>5, <1>6 DEF PairInv

\* What other steps leave of the pair's invariant.
LEMMA FrameKeepsPair ==
  ASSUME PairInv, UNCHANGED <<now, receipts>>,
         form' = form \/ ("artifact" \in DOMAIN form' /\ form'.artifact \in Artifacts),
         gate_form' = gate_form \/ (/\ gate_form'.artifact \in Artifacts \cup {Blank}
                                   /\ gate_form'.receipt_id \in DOMAIN receipts \cup {Blank}),
         lastReceipt' = lastReceipt
           \/ Stored(lastReceipt'.receipt, lastReceipt'.artifact, receipts),
         \A r \in requests' : r \in requests \/ CallOK(r, receipts)
  PROVE  PairInv'
BY DEF PairInv

\* A new call finds the pair's invariant in the forms it is made from.
LEMMA NewCallOK ==
  ASSUME NEW kind, NEW body, NEW others \in SUBSET requests, Send(kind, body, others),
         NEW rows,
         kind = "verify" => HasPolicy(body) /\ body.artifact \in Artifacts,
         kind = "gate" => body.receipt_id \in DOMAIN rows \cup {Blank}
  PROVE  \A r \in requests' : r \in requests \/ CallOK(r, rows)
<1> DEFINE new == [no |-> Number, kind |-> kind, body |-> body, answer |-> NULL]
<1>1. requests' = others \cup {new}
  BY DEF Send
<1>2. new.kind = kind /\ new.body = body /\ new.answer = NULL
  OBVIOUS
<1> HIDE DEF new
<1>3. CallOK(new, rows)
  BY <1>2 DEF CallOK, Came
<1> QED BY <1>1, <1>3

\* A call for the list is no call about a receipt.
LEMMA LoadCallOK ==
  ASSUME NEW others, others \subseteq requests, Send("load", NULL, others)
  PROVE  \A r \in requests' : r \in requests \/ CallOK(r, receipts)
<1> DEFINE new == [no |-> Number, kind |-> "load", body |-> NULL, answer |-> NULL]
<1>1. requests' = others \cup {new}
  BY DEF Send
<1>2. new.kind = "load"
  OBVIOUS
<1> HIDE DEF new
<1>3. CallOK(new, receipts)
  BY <1>2 DEF CallOK
<1> QED BY <1>1, <1>3

\* A call that is answered with a list, or lost, says nothing of a row.
LEMMA QuietAnswerKeepsPair ==
  ASSUME CallsInv, PairInv, NEW r \in requests, NEW answer, Answered(r, answer),
         answer = Failed \/ r.kind = "load",
         UNCHANGED <<now, receipts, form, gate_form, lastReceipt>>
  PROVE  PairInv'
<1> DEFINE a == [r EXCEPT !.answer = answer]
<1>1. a.kind = r.kind /\ a.body = r.body /\ a.answer = answer
  BY DEF CallsInv, Shaped
<1>2. requests' = (requests \ {r}) \cup {a}
  BY DEF Answered
<1> HIDE DEF a
<1>3. CallOK(r, receipts)
  BY DEF PairInv
<1>4. CallOK(a, receipts)
  BY <1>1, <1>3 DEF CallOK, Came
<1> QED BY <1>2, <1>4 DEF PairInv

\* Every step keeps the pair's invariant: one step per function of the page.
LEMMA NextPair == ASSUME Distinct PROVE CallsInv /\ PairInv /\ [Next]_cvars => PairInv'
<1> SUFFICES ASSUME CallsInv, PairInv, [Next]_cvars PROVE PairInv'
  OBVIOUS
<1>1. CASE UNCHANGED cvars
  BY <1>1, FrameKeepsPair DEF cvars, service, panels
<1>2. CASE Tick
  <2>1. now' \in Nat
    BY <1>2, ConsoleAssumption DEF Tick, PairInv
  <2>2. UNCHANGED <<receipts, form, gate_form, requests, lastReceipt>>
    BY <1>2 DEF Tick, panels
  <2> QED BY <2>1, <2>2 DEF PairInv
<1>3. CASE Edit
  <2>1. "artifact" \in DOMAIN form' /\ form'.artifact \in Artifacts
    BY <1>3, ConsoleAssumption DEF Edit
  <2> QED BY <1>3, <2>1, FrameKeepsPair DEF Edit, service, panels
<1>4. ASSUME NEW demo \in Demos, LoadDemo(demo) PROVE PairInv'
  <2>1. form' = [f \in DOMAIN form |-> IF f \in DOMAIN demo THEN demo[f] ELSE form[f]]
    BY <1>4 DEF LoadDemo
  <2>2. "artifact" \in DOMAIN form' /\ form'.artifact \in Artifacts
    BY <2>1, ConsoleAssumption DEF PairInv
  <2> QED BY <1>4, <2>2, FrameKeepsPair DEF LoadDemo, service, panels
<1>5. CASE EditGate
  <2>1. gate_form'.artifact \in Artifacts
        /\ gate_form'.receipt_id \in DOMAIN receipts \cup {gate_form.receipt_id}
    BY <1>5 DEF EditGate
  <2> QED BY <1>5, <2>1, FrameKeepsPair DEF EditGate, service, panels, PairInv
<1>6. CASE PressVerifyUnparsable
  BY <1>6, FrameKeepsPair DEF PressVerifyUnparsable, service
<1>7. CASE PressVerify
  <2>1. PICK body : body = VerifyBody
    OBVIOUS
  <2>2. Send("verify", body, requests)
    BY <1>7, <2>1 DEF PressVerify
  <2>3. HasPolicy(body) /\ body.artifact \in Artifacts
    BY <2>1, BodyOfVerify DEF PairInv
  <2>4. \A r \in requests' : r \in requests \/ CallOK(r, receipts)
    BY <2>2, <2>3, NewCallOK
  <2> QED BY <1>7, <2>4, FrameKeepsPair DEF PressVerify, service
<1>8. CASE PressGate
  <2>1. \A r \in requests' : r \in requests \/ CallOK(r, receipts)
    BY <1>8, NewCallOK DEF PressGate, PairInv
  <2> QED BY <1>8, <2>1, FrameKeepsPair DEF PressGate, service
<1>9. CASE Refresh
  <2>1. \A r \in requests' : r \in requests \/ CallOK(r, receipts)
    BY <1>9, LoadCallOK DEF Refresh
  <2> QED BY <1>9, <2>1, FrameKeepsPair DEF Refresh, service, panels
<1>10. CASE UseLast
  <2>1. Stored(lastReceipt.receipt, lastReceipt.artifact, receipts)
    BY <1>10 DEF UseLast, PairInv
  <2>2. PICK id, artifact : /\ id = lastReceipt.receipt.receipt_id
                            /\ artifact = lastReceipt.artifact
                            /\ id \in DOMAIN receipts /\ artifact \in Artifacts
    BY <2>1 DEF Stored
  <2>3. gate_form' = [gate_form EXCEPT !.receipt_id = id, !.artifact = artifact]
    BY <1>10, <2>2 DEF UseLast
  <2>4. gate_form'.artifact \in Artifacts \cup {Blank}
        /\ gate_form'.receipt_id \in DOMAIN receipts \cup {Blank}
    BY <2>2, <2>3 DEF PairInv
  <2> QED BY <1>10, <2>4, FrameKeepsPair DEF UseLast, service
<1>11. CASE UseLastWithout
  BY <1>11, FrameKeepsPair DEF UseLastWithout, service
<1>12. ASSUME NEW r \in requests, ServeVerify(r) \/ ServeGate(r) PROVE PairInv'
  BY <1>12, ServeVerifyKeepsPair, ServeGateKeepsPair
<1>13. ASSUME NEW r \in requests, ServeLoad(r) \/ Lose(r) PROVE PairInv'
  <2>1. /\ \E answer : Answered(r, answer) /\ (answer = Failed \/ r.kind = "load")
        /\ UNCHANGED <<now, receipts, form, gate_form, lastReceipt>>
    BY <1>13 DEF ServeLoad, Lose, service, panels
  <2> QED BY <2>1, QuietAnswerKeepsPair
<1>14. ASSUME NEW r \in requests, VerifyAnswer(r) PROVE PairInv'
  <2>1. Came(r.answer)
    BY <1>14 DEF VerifyAnswer, Came, Failed
  <2>2. Stored(r.answer.data, r.body.artifact, receipts)
    BY <1>14, <2>1 DEF VerifyAnswer, PairInv, CallOK
  <2>3. lastReceipt'.receipt = r.answer.data /\ lastReceipt'.artifact = r.body.artifact
    BY <1>14 DEF VerifyAnswer
  <2>4. Send("load", NULL, requests \ {r})
    BY <1>14 DEF VerifyAnswer
  <2>5. \A s \in requests' : s \in requests \/ CallOK(s, receipts)
    BY <2>4, LoadCallOK
  <2> QED BY <1>14, <2>2, <2>3, <2>5, FrameKeepsPair DEF VerifyAnswer, service
<1>15. ASSUME NEW r \in requests, GateAnswer(r) \/ Failure(r) \/ LoadAnswer(r) PROVE PairInv'
  BY <1>15, FrameKeepsPair DEF GateAnswer, Failure, LoadAnswer, service
<1> QED
  BY <1>1, <1>2, <1>3, <1>4, <1>5, <1>6, <1>7, <1>8, <1>9, <1>10, <1>11, <1>12, <1>13, <1>14,
     <1>15 DEF Next, Serve, Handle

\* Buttons, calls and numbers agree, whatever is clicked and lost (index.html).
THEOREM ConsoleTypeCorrect == ASSUME Distinct PROVE ConsoleSpec => []TypeOK
<1>1. CallsInv /\ PairInv => TypeOK
  <2> SUFFICES ASSUME CallsInv, PairInv PROVE TypeOK
    OBVIOUS
  <2>1. \A r \in requests : r.no <= last[r.kind]
    BY DEF CallsInv, Shaped
  <2>2. \A kind \in {"verify", "gate"} :
          \A r, s \in requests : r.kind = kind /\ s.kind = kind => r = s
    BY DEF CallsInv
  <2> QED BY <2>1, <2>2 DEF CallsInv, PairInv, TypeOK
<1>2. CallsInv /\ PairInv /\ [Next]_cvars => (CallsInv /\ PairInv)'
  BY NextCalls, NextPair
<1>3. Init => CallsInv /\ PairInv
  BY InitCalls, InitPair
<1> QED BY <1>1, <1>2, <1>3, PTL DEF ConsoleSpec

\* The gate has nothing against a PASS receipt in force, presented with the
\* artifact it was made for, under the key it was made with.
LEMMA GateAllowsMade ==
  ASSUME Distinct, NoneIsNoReceipt,
         NEW r, NEW artifact \in Artifacts, Made(r, artifact), r.verdict = "PASS",
         NEW call, call.artifact = artifact, NEW at, at < r.expires_at,
         call.require_signed => SigningKey # NULL
  PROVE  GateReasons(r, call, SigningKey, at) = {}
<1>1. Genuine([artifact |-> artifact], r) /\ r.artifact_sha256 = Sha256(artifact)
  BY DEF Made, Genuine
<1>2. r.signature # NULL =>
        SigningKey # NULL /\ r.signature = Hmac(SigningKey, r.receipt_sha256)
  BY DEF Made
<1>3. SigningKey # NULL => r.signature # NULL
  BY DEF Made, Distinct
<1> QED BY <1>1, <1>2, <1>3, NothingAgainst DEF Made

\* The pair kept for "Use last PASS receipt" is one the gate allows while the
\* receipt is current (index.html verify and useLast).
THEOREM ConsoleKeptPairIsAllowed ==
  ASSUME Distinct, NoneIsNoReceipt PROVE ConsoleSpec => []KeptPairIsAllowed
<1>1. CallsInv /\ PairInv => KeptPairIsAllowed
  <2> SUFFICES ASSUME PairInv, NEW r \in requests, r.kind = "gate", Came(r.answer),
                      lastReceipt # NULL, lastReceipt.receipt.verdict = "PASS",
                      r.body.receipt_id = lastReceipt.receipt.receipt_id,
                      r.body.artifact = lastReceipt.artifact,
                      r.answer.data.at < lastReceipt.receipt.expires_at,
                      r.body.require_signed => SigningKey # NULL
               PROVE  r.answer.data.decision = "ALLOW"
    BY DEF KeptPairIsAllowed, Came
  <2>1. Stored(lastReceipt.receipt, lastReceipt.artifact, receipts)
    BY DEF PairInv
  <2>2. r.answer.data.decision
          = Decided(receipts[r.body.receipt_id], r.body, r.answer.data.at)
    BY DEF PairInv, CallOK
  <2>3. receipts[r.body.receipt_id] = lastReceipt.receipt
    BY <2>1 DEF Stored
  <2>4. GateReasons(lastReceipt.receipt, r.body, SigningKey, r.answer.data.at) = {}
    BY <2>1, GateAllowsMade DEF Stored
  <2> QED BY <2>2, <2>3, <2>4 DEF Decided
<1>2. CallsInv /\ PairInv /\ [Next]_cvars => (CallsInv /\ PairInv)'
  BY NextCalls, NextPair
<1>3. Init => CallsInv /\ PairInv
  BY InitCalls, InitPair
<1> QED BY <1>1, <1>2, <1>3, PTL DEF ConsoleSpec

---------------------------------------------------------------------------
(* The list the page displays.                                             *)

\* A page holds every row that no more rows are as new as than it has places
\* for (store.py recent): a page without it is full of rows as new, or leaves
\* out nothing.
LEMMA PageHoldsTheNewest ==
  ASSUME NEW text, IsFiniteSet(DOMAIN text), NEW limit \in 1..100,
         NEW page \in Pages(text, limit), NEW id \in DOMAIN text,
         NEW crowd \in SUBSET DOMAIN text, id \in crowd, Cardinality(crowd) <= limit,
         \A other \in DOMAIN text \ crowd : TextBefore(text[other], text[id])
  PROVE  \E i \in DOMAIN page : page[i] = id
<1> DEFINE n == Cardinality(DOMAIN text)
           size == IF n < Clamped(limit) THEN n ELSE Clamped(limit)
<1>1. n \in Nat /\ Clamped(limit) = limit
  BY FS_CardinalityType DEF Clamped
<1>2. /\ page \in [1..size -> DOMAIN text]
      /\ \A i, j \in 1..size : i < j => page[i] # page[j]
      /\ \A i \in 1..size, other \in DOMAIN text :
           TextBefore(text[page[i]], text[other]) => \E j \in 1..size : page[j] = other
  BY DEF Pages
<1>3. size \in Nat /\ (size = limit \/ size = n)
  BY <1>1
<1> HIDE DEF n, size
<1> SUFFICES ASSUME \A i \in 1..size : page[i] # id PROVE FALSE
  BY <1>2
<1>4. \A i \in 1..size : page[i] \in crowd \ {id}
  BY <1>2
<1>5. page \in Injection(1..size, crowd \ {id})
  <2>1. page \in [1..size -> crowd \ {id}]
    BY <1>2, <1>4
  <2>2. ASSUME NEW i \in 1..size, NEW j \in 1..size, i # j PROVE page[i] # page[j]
    <3>1. i < j \/ j < i
      BY <1>3, <2>2
    <3> QED BY <1>2, <3>1
  <2> QED BY <2>1, <2>2 DEF Injection, IsInjective
<1>6. /\ IsFiniteSet(crowd) /\ Cardinality(crowd) \in Nat /\ Cardinality(crowd) <= n
      /\ IsFiniteSet(crowd \ {id}) /\ Cardinality(crowd \ {id}) = Cardinality(crowd) - 1
  BY FS_Subset, FS_RemoveElement, FS_CardinalityType DEF n
<1>7. Cardinality(1..size) = size /\ Cardinality(1..size) <= Cardinality(crowd \ {id})
  BY <1>3, <1>5, <1>6, FS_Interval, FS_Injection
<1> QED BY <1>1, <1>3, <1>6, <1>7

\* Texts of instants without a fraction are in the order of the instants.
LEMMA OlderTextIsBefore ==
  ASSUME NEW s, NEW t, s < t
  PROVE  TextBefore(IsoText([second |-> s, micro |-> 0]), IsoText([second |-> t, micro |-> 0]))
<1>1. IsoText([second |-> s, micro |-> 0]) = <<s, Plus>>
      /\ IsoText([second |-> t, micro |-> 0]) = <<t, Plus>>
  BY DEF IsoText
<1>2. /\ 1 \in 1..Len(<<t, Plus>>) /\ <<s, Plus>>[1] < <<t, Plus>>[1]
      /\ \A j \in 1..(1 - 1) : j \in DOMAIN <<s, Plus>> /\ <<s, Plus>>[j] = <<t, Plus>>[j]
  OBVIOUS
<1> QED BY <1>1, <1>2 DEF TextBefore

\* A receipt is dated with the clock at the call (core.py verify).
LEMMA DateOfVerify ==
  ASSUME NEW call, NEW clock, NEW key
  PROVE  Verify(call, clock, key).created_at = clock
<1>1. CoreReceipt(call, clock, key).created_at = clock
  BY DEF CoreReceipt, Sealed
<1>2. ASSUME NEW base, Genuine(call, base)
      PROVE  SchemaReceipt(call, base, key).created_at = base.created_at
  <2> DEFINE checks == AllChecks(call, base)
             u == [base EXCEPT !.verdict = VerdictOf(checks), !.checks = checks,
                               !.contract_sha256 = SchemaContractHash(call),
                               !.blocking_reasons = Failing(checks, "BLOCK"),
                               !.warnings = Failing(checks, "WARN")]
  <2>1. base = [f \in ReceiptFields |-> base[f]]
    BY <1>2 DEF Genuine
  <2> HIDE DEF checks
  <2>2. u.created_at = base.created_at
    BY <2>1 DEF ReceiptFields
  <2>3. SchemaReceipt(call, base, key) = Sealed(u, key)
    BY DEF SchemaReceipt, checks
  <2> HIDE DEF u
  <2> QED BY <2>2, <2>3 DEF Sealed
<1> QED BY <1>1, <1>2, CoreReceiptIsGenuine DEF Verify

Shows(page, kept) == \E i \in DOMAIN page : page[i] = kept.receipt.receipt_id

\* The receipt on the page, and those as new, fit on a page of the list.
Fits == lastReceipt # NULL /\ Cardinality(AsNew) <= DefaultLimit

\* The last list that was asked for, while it is on its way and when it is on
\* the page, holds the receipt the page shows.  It was asked for after that
\* receipt came, and rows are only added.
ListInv ==
  /\ IsFiniteSet(DOMAIN receipts)
  /\ \A id \in DOMAIN receipts : receipts[id].created_at \in Nat
  /\ list \notin {NULL, Failed} => list.no \in Nat /\ list.no <= last["load"]
  /\ Fits =>
       /\ list \notin {NULL, Failed} /\ list.no = last["load"] => Shows(list.data, lastReceipt)
       /\ \A r \in requests :
            r.kind = "load" /\ r.no = last["load"] /\ Came(r.answer)
              => Shows(r.answer.data, lastReceipt)

\* No row, no list and no receipt on the page.
LEMMA InitList == Init => ListInv
<1> SUFFICES ASSUME Init PROVE ListInv
  OBVIOUS
<1>1. DOMAIN receipts = {} /\ lastReceipt = NULL /\ list = NULL
  BY DEF Init
<1> QED BY <1>1, FS_EmptySet DEF ListInv, Fits

\* While rows are only added and no list comes, what a list holds stays.
LEMMA FrameKeepsList ==
  ASSUME ListInv, UNCHANGED <<lastReceipt, list>>, last'["load"] = last["load"],
         IsFiniteSet(DOMAIN receipts'), DOMAIN receipts \subseteq DOMAIN receipts',
         \A id \in DOMAIN receipts : receipts'[id] = receipts[id],
         \A id \in DOMAIN receipts' : receipts'[id].created_at \in Nat,
         \A r \in requests' \ requests :
           Fits' /\ r.kind = "load" /\ Came(r.answer) => Shows(r.answer.data, lastReceipt')
  PROVE  ListInv'
<1>1. Fits' => Fits
  <2> SUFFICES ASSUME Fits' PROVE Fits
    OBVIOUS
  <2>1. AsNew \subseteq AsNew' /\ AsNew' \subseteq DOMAIN receipts'
    BY DEF AsNew
  <2>2. /\ IsFiniteSet(AsNew') /\ IsFiniteSet(AsNew)
        /\ Cardinality(AsNew) <= Cardinality(AsNew')
        /\ Cardinality(AsNew) \in Nat /\ Cardinality(AsNew') \in Nat
    BY <2>1, FS_Subset, FS_CardinalityType
  <2> QED BY <2>2 DEF Fits, DefaultLimit
<1> QED BY <1>1 DEF ListInv

\* A list asked for now comes after every list there is, and the receipt the
\* page shows may be a new one (index.html verify, loadReceipts).
LEMMA NewLoadKeepsList ==
  ASSUME CallsInv, ListInv, NEW others \in SUBSET requests, Send("load", NULL, others),
         UNCHANGED <<receipts, list>>
  PROVE  ListInv'
<1> DEFINE new == [no |-> Number, kind |-> "load", body |-> NULL, answer |-> NULL]
<1>1. requests' = others \cup {new} /\ last' = [last EXCEPT !["load"] = Number]
  BY DEF Send
<1>2. new.answer = NULL
  OBVIOUS
<1> HIDE DEF new
<1>3. /\ Number \in Nat /\ last["load"] \in Nat /\ last["load"] < Number
      /\ last'["load"] = Number
  BY <1>1, NumberIsFresh DEF CallsInv, Kinds
<1>4. \A r \in others : r.kind = "load" => r.no # last'["load"]
  BY <1>3 DEF CallsInv, Shaped
<1>5. list' \notin {NULL, Failed} =>
        list'.no \in Nat /\ list'.no <= last'["load"] /\ list'.no # last'["load"]
  BY <1>3 DEF ListInv
<1>6. \A r \in requests' : r.kind = "load" /\ r.no = last'["load"] => ~Came(r.answer)
  BY <1>1, <1>2, <1>4 DEF Came
<1> QED BY <1>5, <1>6 DEF ListInv

\* The service's list holds the receipt on the page, if it fits (store.py recent).
LEMMA ServeLoadKeepsList ==
  ASSUME CallsInv, PairInv, ListInv, NEW r \in requests, ServeLoad(r)
  PROVE  ListInv'
<1>1. UNCHANGED <<receipts, last, lastReceipt, list>>
  BY DEF ServeLoad, service, panels
<1>2. PICK page \in Pages(CreatedAt, DefaultLimit) : Answered(r, Ok(page))
  BY DEF ServeLoad
<1>3. ASSUME Fits PROVE Shows(page, lastReceipt)
  <2> DEFINE id == lastReceipt.receipt.receipt_id
  <2>1. id \in DOMAIN receipts /\ receipts[id] = lastReceipt.receipt
    BY <1>3 DEF Fits, PairInv, Stored
  <2>2. DOMAIN CreatedAt = DOMAIN receipts /\ IsFiniteSet(DOMAIN CreatedAt)
    BY DEF CreatedAt, ListInv
  <2>3. AsNew \in SUBSET DOMAIN CreatedAt /\ id \in AsNew
    BY <2>1, <2>2 DEF AsNew, ListInv
  <2>4. Cardinality(AsNew) <= DefaultLimit /\ DefaultLimit \in 1..100
    BY <1>3 DEF Fits, DefaultLimit
  <2>5. ASSUME NEW other \in DOMAIN CreatedAt \ AsNew
        PROVE  TextBefore(CreatedAt[other], CreatedAt[id])
    <3>1. receipts[other].created_at < receipts[id].created_at
      BY <2>1, <2>2, <2>5 DEF AsNew, ListInv
    <3> QED BY <2>1, <2>2, <3>1, OlderTextIsBefore DEF CreatedAt
  <2> HIDE DEF id
  <2>6. \E i \in DOMAIN page : page[i] = id
    BY <1>2, <2>1, <2>2, <2>3, <2>4, <2>5, PageHoldsTheNewest
  <2> QED BY <2>6 DEF Shows, id
<1> DEFINE a == [r EXCEPT !.answer = Ok(page)]
<1>4. a.answer.data = page
  BY DEF CallsInv, Shaped, Ok
<1>5. requests' = (requests \ {r}) \cup {a}
  BY <1>2 DEF Answered
<1> HIDE DEF a
<1>6. Fits' => Shows(a.answer.data, lastReceipt')
  <2>1. Fits' <=> Fits
    BY <1>1 DEF Fits, AsNew
  <2> QED BY <1>1, <1>3, <1>4, <2>1
<1>7. \A s \in requests' \ requests :
        Fits' /\ s.kind = "load" /\ Came(s.answer) => Shows(s.answer.data, lastReceipt')
  BY <1>5, <1>6
<1> QED BY <1>1, <1>7, FrameKeepsList DEF ListInv

\* Every step keeps the list's invariant: one step per function of the page.
LEMMA NextList ==
  ASSUME Distinct PROVE CallsInv /\ PairInv /\ ListInv /\ [Next]_cvars => ListInv'
<1> SUFFICES ASSUME CallsInv, PairInv, ListInv, [Next]_cvars PROVE ListInv'
  OBVIOUS
<1>1. ASSUME UNCHANGED <<receipts, lastReceipt, list>>, last'["load"] = last["load"],
             \A r \in requests' \ requests : r.kind = "load" => ~Came(r.answer)
      PROVE  ListInv'
  <2>1. /\ IsFiniteSet(DOMAIN receipts') /\ DOMAIN receipts \subseteq DOMAIN receipts'
        /\ \A id \in DOMAIN receipts : receipts'[id] = receipts[id]
        /\ \A id \in DOMAIN receipts' : receipts'[id].created_at \in Nat
    BY <1>1 DEF ListInv
  <2> QED BY <1>1, <2>1, FrameKeepsList
<1>2. CASE Tick \/ Edit \/ (\E demo \in Demos : LoadDemo(demo)) \/ EditGate
           \/ PressVerifyUnparsable \/ UseLast \/ UseLastWithout \/ UNCHANGED cvars
  <2>1. UNCHANGED <<receipts, lastReceipt, list, last, requests>>
    BY <1>2 DEF Tick, Edit, LoadDemo, EditGate, PressVerifyUnparsable, UseLast, UseLastWithout,
                cvars, panels, service
  <2> QED BY <1>1, <2>1
<1>3. ASSUME NEW kind \in {"verify", "gate"}, NEW body, Send(kind, body, requests),
             UNCHANGED <<receipts, lastReceipt, list>>
      PROVE  ListInv'
  <2> DEFINE new == [no |-> Number, kind |-> kind, body |-> body, answer |-> NULL]
  <2>1. requests' = requests \cup {new} /\ new.kind # "load"
    BY <1>3 DEF Send
  <2>2. last'["load"] = last["load"]
    BY <1>3 DEF Send, CallsInv, Kinds
  <2> HIDE DEF new
  <2> QED BY <1>1, <1>3, <2>1, <2>2
<1>4. CASE PressVerify
  <2>1. PICK body : body = VerifyBody
    OBVIOUS
  <2> QED BY <1>3, <1>4, <2>1 DEF PressVerify, service
<1>5. CASE PressGate
  BY <1>3, <1>5 DEF PressGate, service
<1>6. CASE Refresh
  BY <1>6, NewLoadKeepsList DEF Refresh, service, panels
<1>7. ASSUME NEW r \in requests, ServeVerify(r) PROVE ListInv'
  <2>1. r.kind = "verify" /\ UNCHANGED <<last, lastReceipt, list>>
    BY <1>7 DEF ServeVerify, panels
  <2>2. /\ IsFiniteSet(DOMAIN receipts') /\ DOMAIN receipts \subseteq DOMAIN receipts'
        /\ \A id \in DOMAIN receipts : receipts'[id] = receipts[id]
        /\ \A id \in DOMAIN receipts' : receipts'[id].created_at \in Nat
    <3>1. CASE receipts' = receipts
      BY <3>1 DEF ListInv
    <3>2. CASE receipts' # receipts
      <4>1. PICK receipt :
              /\ receipt = Verify(r.body, now, SigningKey)
              /\ receipts' = [id \in DOMAIN receipts \cup {receipt.receipt_id} |->
                                IF id = receipt.receipt_id THEN receipt ELSE receipts[id]]
              /\ Answered(r, Ok(receipt))
        BY <1>7, <3>2 DEF ServeVerify
      <4>2. receipt.created_at \in Nat
        BY <4>1, DateOfVerify DEF PairInv
      <4>3. IsFiniteSet(DOMAIN receipts')
        BY <4>1, FS_AddElement DEF ListInv
      <4>4. \A id \in DOMAIN receipts : receipts'[id] = receipts[id]
        BY <1>7, ServeVerifyKeepsRows
      <4> QED BY <4>1, <4>2, <4>3, <4>4 DEF ListInv
    <3> QED BY <3>1, <3>2
  <2>3. \A s \in requests' \ requests : s.kind # "load"
    <3>1. PICK answer : Answered(r, answer)
      BY <1>7 DEF ServeVerify
    <3> DEFINE a == [r EXCEPT !.answer = answer]
    <3>2. a.kind = "verify"
      BY <2>1 DEF CallsInv, Shaped
    <3>3. requests' = (requests \ {r}) \cup {a}
      BY <3>1 DEF Answered
    <3> HIDE DEF a
    <3> QED BY <3>2, <3>3
  <2> QED BY <2>1, <2>2, <2>3, FrameKeepsList
<1>8. ASSUME NEW r \in requests, ServeGate(r) \/ Lose(r) PROVE ListInv'
  <2>1. /\ UNCHANGED <<receipts, last, lastReceipt, list>>
        /\ \E answer : Answered(r, answer) /\ (r.kind # "load" \/ answer = Failed)
    BY <1>8 DEF ServeGate, Lose, service, panels
  <2>2. PICK answer : Answered(r, answer) /\ (r.kind # "load" \/ answer = Failed)
    BY <2>1
  <2> DEFINE a == [r EXCEPT !.answer = answer]
  <2>3. a.kind = r.kind /\ a.answer = answer
    BY DEF CallsInv, Shaped
  <2>4. requests' = (requests \ {r}) \cup {a}
    BY <2>2 DEF Answered
  <2> HIDE DEF a
  <2> QED BY <1>1, <2>1, <2>2, <2>3, <2>4 DEF Came
<1>9. ASSUME NEW r \in requests, ServeLoad(r) PROVE ListInv'
  BY <1>9, ServeLoadKeepsList
<1>10. ASSUME NEW r \in requests, VerifyAnswer(r) PROVE ListInv'
  <2>1. requests \ {r} \in SUBSET requests
    OBVIOUS
  <2> QED BY <1>10, <2>1, NewLoadKeepsList DEF VerifyAnswer, service
<1>11. ASSUME NEW r \in requests, GateAnswer(r) \/ Failure(r) PROVE ListInv'
  <2>1. UNCHANGED <<receipts, last, lastReceipt, list>> /\ requests' = requests \ {r}
    BY <1>11 DEF GateAnswer, Failure, service
  <2> QED BY <1>1, <2>1
<1>12. ASSUME NEW r \in requests, LoadAnswer(r) PROVE ListInv'
  <2>1. /\ UNCHANGED <<receipts, last, lastReceipt>> /\ requests' = requests \ {r}
        /\ r.kind = "load" /\ r.answer # NULL
        /\ list' = IF r.answer.ok THEN Shown(r) ELSE Failed
    BY <1>12 DEF LoadAnswer, service
  <2>2. Fits' <=> Fits
    BY <2>1 DEF Fits, AsNew
  <2>3. CASE list' = Failed
    BY <2>1, <2>2, <2>3 DEF ListInv
  <2>4. CASE list' # Failed
    <3>1. Came(r.answer) /\ list' = Shown(r)
      BY <2>1, <2>4 DEF Came, Failed
    <3>2. list'.no = r.no /\ list'.data = r.answer.data
      BY <3>1 DEF Shown
    <3>3. r.no \in Nat /\ r.no <= last["load"]
      BY <2>1 DEF CallsInv, Shaped
    <3>4. Fits /\ r.no = last["load"] => Shows(r.answer.data, lastReceipt)
      BY <2>1, <3>1 DEF ListInv
    <3>5. Fits' /\ list'.no = last'["load"] => Shows(list'.data, lastReceipt')
      BY <2>1, <2>2, <3>2, <3>4
    <3> QED BY <2>1, <2>2, <3>2, <3>3, <3>5 DEF ListInv
  <2> QED BY <2>3, <2>4
<1> QED
  BY <1>2, <1>4, <1>5, <1>6, <1>7, <1>8, <1>9, <1>10, <1>11, <1>12 DEF Next, Serve, Handle

\* The history, once the last list that was asked for has come, displays the
\* receipt the page shows, unless newer ones fill it (index.html verify,
\* loadReceipts), whatever was clicked, lost or answered out of order.
THEOREM ConsoleListShowsLastReceipt ==
  ASSUME Distinct PROVE ConsoleSpec => []ListShowsLastReceipt
<1>1. ListInv => ListShowsLastReceipt
  BY DEF ListInv, ListShowsLastReceipt, Fits, Shows
<1>2. /\ CallsInv /\ PairInv /\ ListInv /\ [Next]_cvars
      => (CallsInv /\ PairInv /\ ListInv)'
  BY NextCalls, NextPair, NextList
<1>3. Init => CallsInv /\ PairInv /\ ListInv
  BY InitCalls, InitPair, InitList
<1> QED BY <1>1, <1>2, <1>3, PTL DEF ConsoleSpec

---------------------------------------------------------------------------
(* The page and its service keep the promise of ProofBeforeAction.          *)

\* A call of the gate names an artifact, if it names a receipt.
Asks(body) ==
  /\ body.require_signed \in BOOLEAN
  /\ body.receipt_id # Blank => body.artifact \in Artifacts

\* What the promise needs to know besides PairInv: rows expire at points in
\* time, and the gate's form and calls can be decisions.
PromiseInv ==
  /\ \A id \in DOMAIN receipts : receipts[id].expires_at \in Nat
  /\ gate_form = [receipt_id |-> gate_form.receipt_id, artifact |-> gate_form.artifact,
                  require_signed |-> gate_form.require_signed]
  /\ Asks(gate_form)
  /\ \A r \in requests : r.kind = "gate" =>
       Asks(r.body) /\ (Came(r.answer) => r.body.receipt_id # Blank)

\* No row, no call, and an empty form of the gate.
LEMMA InitPromise == Init => PromiseInv
BY DEF Init, PromiseInv, Asks

\* Most steps leave the rows and the gate's form alone, and give no answer to a
\* call of the gate.
LEMMA FrameKeepsPromise ==
  ASSUME PromiseInv, UNCHANGED <<receipts, gate_form>>,
         \A r \in requests' : \/ r \in requests \/ r.kind # "gate"
                              \/ Asks(r.body) /\ ~Came(r.answer)
  PROVE  PromiseInv'
BY DEF PromiseInv

\* The same of a call that is answered.
LEMMA AnsweredKeepsPromise ==
  ASSUME CallsInv, PromiseInv, UNCHANGED <<receipts, gate_form>>,
         NEW r \in requests, NEW answer, Answered(r, answer),
         r.kind = "gate" /\ Came(answer) => r.body.receipt_id # Blank
  PROVE  PromiseInv'
<1> DEFINE a == [r EXCEPT !.answer = answer]
<1>1. a.kind = r.kind /\ a.body = r.body /\ a.answer = answer
  BY DEF CallsInv, Shaped
<1>2. requests' = (requests \ {r}) \cup {a}
  BY DEF Answered
<1> HIDE DEF a
<1> QED BY <1>1, <1>2 DEF PromiseInv

\* Every step keeps what the promise needs.
LEMMA NextPromise ==
  ASSUME Distinct
  PROVE  CallsInv /\ PairInv /\ PromiseInv /\ [Next]_cvars => PromiseInv'
<1> SUFFICES ASSUME CallsInv, PairInv, PromiseInv, [Next]_cvars PROVE PromiseInv'
  OBVIOUS
<1>1. CASE Tick \/ Edit \/ (\E demo \in Demos : LoadDemo(demo))
           \/ PressVerifyUnparsable \/ UseLastWithout \/ UNCHANGED cvars
  <2>1. UNCHANGED <<receipts, gate_form, requests>>
    BY <1>1 DEF Tick, Edit, LoadDemo, PressVerifyUnparsable, UseLastWithout, cvars, service
  <2> QED BY <2>1, FrameKeepsPromise
<1>2. CASE EditGate
  <2>1. /\ gate_form' = [receipt_id |-> gate_form'.receipt_id, artifact |-> gate_form'.artifact,
                         require_signed |-> gate_form'.require_signed]
        /\ gate_form'.artifact \in Artifacts /\ gate_form'.require_signed \in SignedBoxes
    BY <1>2 DEF EditGate
  <2>2. Asks(gate_form') /\ UNCHANGED <<receipts, requests>>
    BY <1>2, <2>1, ConsoleAssumption DEF Asks, EditGate, service
  <2> QED BY <2>1, <2>2 DEF PromiseInv
<1>3. CASE UseLast
  <2>1. PICK id, artifact :
          /\ artifact \in Artifacts
          /\ gate_form' = [gate_form EXCEPT !.receipt_id = id, !.artifact = artifact]
    <3>1. lastReceipt.artifact \in Artifacts
      BY <1>3 DEF UseLast, PairInv, Stored
    <3> QED BY <1>3, <3>1 DEF UseLast
  <2>2. /\ gate_form'.artifact = artifact /\ gate_form'.receipt_id = id
        /\ gate_form'.require_signed = gate_form.require_signed
        /\ gate_form' = [receipt_id |-> id, artifact |-> artifact,
                         require_signed |-> gate_form.require_signed]
    BY <2>1 DEF PromiseInv
  <2>3. UNCHANGED <<receipts, requests>>
    BY <1>3 DEF UseLast, service
  <2>4. Asks(gate_form')
    <3>1. gate_form.require_signed \in BOOLEAN
      BY DEF PromiseInv, Asks
    <3> QED BY <2>1, <2>2, <3>1 DEF Asks
  <2> QED BY <2>2, <2>3, <2>4 DEF PromiseInv
<1>4. ASSUME NEW kind, NEW body, NEW others \in SUBSET requests, Send(kind, body, others),
             kind = "gate" => Asks(body), UNCHANGED <<receipts, gate_form>>
      PROVE  PromiseInv'
  <2> DEFINE new == [no |-> Number, kind |-> kind, body |-> body, answer |-> NULL]
  <2>1. requests' = others \cup {new}
    BY <1>4 DEF Send
  <2>2. new.kind = kind /\ new.body = body /\ ~Came(new.answer)
    BY DEF Came
  <2> HIDE DEF new
  <2> QED BY <1>4, <2>1, <2>2, FrameKeepsPromise
<1>5. CASE PressVerify
  <2>1. PICK body : body = VerifyBody
    OBVIOUS
  <2> QED BY <1>4, <1>5, <2>1 DEF PressVerify, service
<1>6. CASE PressGate
  BY <1>4, <1>6 DEF PressGate, PromiseInv, service
<1>7. CASE Refresh
  BY <1>4, <1>7 DEF Refresh, service
<1>8. ASSUME NEW r \in requests, ServeVerify(r) PROVE PromiseInv'
  <2>1. r.kind = "verify" /\ UNCHANGED gate_form
    BY <1>8 DEF ServeVerify
  <2>2. PICK answer : Answered(r, answer)
    BY <1>8 DEF ServeVerify
  <2>3. CASE receipts' = receipts
    BY <2>1, <2>2, <2>3, AnsweredKeepsPromise
  <2>4. CASE receipts' # receipts
    <3>1. PICK receipt :
            /\ receipt = Verify(r.body, now, SigningKey)
            /\ receipts' = [id \in DOMAIN receipts \cup {receipt.receipt_id} |->
                              IF id = receipt.receipt_id THEN receipt ELSE receipts[id]]
            /\ ~Rejects(r.body)
      BY <1>8, <2>4 DEF ServeVerify
    <3>2. PICK ttl : ttl = r.body.contract.receipt_ttl
      OBVIOUS
    <3>3. receipt.expires_at = now + ttl
      BY <2>1, <3>1, <3>2, VerifyIsAccepted DEF PairInv, CallOK
    <3>a. ttl \in 1..LongestTtl
      BY <3>1, <3>2 DEF Rejects, WithinBounds
    <3>4. receipt.expires_at \in Nat
      BY <3>3, <3>a DEF PairInv, LongestTtl
    <3>5. \A id \in DOMAIN receipts' : receipts'[id].expires_at \in Nat
      BY <3>1, <3>4 DEF PromiseInv
    <3> DEFINE a == [r EXCEPT !.answer = answer]
    <3>6. a.kind = "verify"
      BY <2>1 DEF CallsInv, Shaped
    <3>7. requests' = (requests \ {r}) \cup {a}
      BY <2>2 DEF Answered
    <3> HIDE DEF a
    <3> QED BY <2>1, <3>5, <3>6, <3>7 DEF PromiseInv
  <2> QED BY <2>3, <2>4
<1>9. ASSUME NEW r \in requests, ServeGate(r) \/ ServeLoad(r) \/ Lose(r) PROVE PromiseInv'
  <2>1. /\ UNCHANGED <<receipts, gate_form>>
        /\ \E answer : /\ Answered(r, answer)
                       /\ r.kind = "gate" /\ Came(answer) => r.body.receipt_id # Blank
    BY <1>9 DEF ServeGate, ServeLoad, Lose, service, Came
  <2> QED BY <2>1, AnsweredKeepsPromise
<1>10. ASSUME NEW r \in requests, VerifyAnswer(r) PROVE PromiseInv'
  <2>1. requests \ {r} \in SUBSET requests
    OBVIOUS
  <2> QED BY <1>4, <1>10, <2>1 DEF VerifyAnswer, service
<1>11. ASSUME NEW r \in requests, GateAnswer(r) \/ Failure(r) \/ LoadAnswer(r) PROVE PromiseInv'
  BY <1>11, FrameKeepsPromise DEF GateAnswer, Failure, LoadAnswer, service
<1> QED
  BY <1>1, <1>2, <1>3, <1>5, <1>6, <1>7, <1>8, <1>9, <1>10, <1>11 DEF Next, Serve, Handle

\* The call of the gate that has its answer, if there is one, is the decision.
Decision == IF Judged = {} THEN NULL ELSE DecisionOn(CHOOSE r \in Judged : TRUE)

\* A page without rows and calls has no proofs and no decision.
LEMMA InitRefines == Init => Abstract!PInit
<1> SUFFICES ASSUME Init PROVE Abstract!PInit
  OBVIOUS
<1>1. Proofs = {} /\ Judged = {} /\ now = 0
  BY DEF Init, Proofs, Judged
<1> QED BY <1>1 DEF Abstract!PInit

\* Rows that are only added are proofs that are only added.
LEMMA ProofsGrow ==
  ASSUME DOMAIN receipts \subseteq DOMAIN receipts',
         \A id \in DOMAIN receipts : receipts'[id] = receipts[id]
  PROVE  Proofs \subseteq Proofs'
<1> SUFFICES ASSUME NEW p \in Artifacts \X DOMAIN receipts, Proves(receipts[p[2]], p[1])
             PROVE  ProofOf(p[1], receipts[p[2]]) \in Proofs'
  BY DEF Proofs
<1>1. p \in Artifacts \X DOMAIN receipts' /\ receipts'[p[2]] = receipts[p[2]]
  OBVIOUS
<1> QED BY <1>1 DEF Proofs

\* A row is signed with the deployment's key, or not at all.
LEMMA SignerOfMade ==
  ASSUME NEW r, NEW artifact, Made(r, artifact)
  PROVE  SignerOf(r) \in {SigningKey, NULL}
         /\ (r.signature # NULL => SignerOf(r) = SigningKey /\ SigningKey # NULL)
<1>1. \A d : Hmac(SigningKey, d).key = SigningKey
  BY DEF Hmac
<1> QED BY <1>1 DEF Made, SignerOf

\* A row that was made for an artifact can be a proof of the abstract
\* specification.
LEMMA RowIsProof ==
  ASSUME NEW row, NEW a, Made(row, a), row.expires_at \in Nat, NEW artifact \in Artifacts
  PROVE  ProofOf(artifact, row) \in Abstract!Proof
BY SignerOfMade DEF ProofOf, Abstract!Proof

\* A row the gate has nothing against is a proof for the artifact in hand, in
\* force and, where it must be, signed with the deployment's key (api.py gate).
LEMMA AllowHasProof ==
  ASSUME PairInv, NEW call, call.artifact \in Artifacts, call.receipt_id \in DOMAIN receipts,
         GateReasons(receipts[call.receipt_id], call, SigningKey, now) = {},
         NEW d, d.artifact = call.artifact, d.signed = call.require_signed, d.key = SigningKey
  PROVE  \E p \in Proofs : Abstract!Justified(d, p, now)
<1>1. PICK row : row = receipts[call.receipt_id]
  OBVIOUS
<1>2. row # NULL
  BY <1>1 DEF GateReasons
<1>3. /\ Decodes(row) /\ Current(row, now) /\ row.artifact_sha256 = Sha256(call.artifact)
      /\ row.verdict = "PASS" /\ (call.require_signed => row.signature # NULL)
  BY <1>1, <1>2, NoReasons
<1>4. PICK a : Made(row, a)
  BY <1>1 DEF PairInv
<1>5. Failing(row.checks, "BLOCK") = {} /\ Failing(row.checks, "WARN") = {}
  BY <1>3, <1>4 DEF Made, Genuine, VerdictOf
<1>6. ProofOf(call.artifact, row) \in Proofs
  <2> DEFINE p == <<call.artifact, call.receipt_id>>
  <2>1. p \in Artifacts \X DOMAIN receipts /\ p[1] = call.artifact /\ receipts[p[2]] = row
    BY <1>1
  <2>2. Proves(row, call.artifact)
    BY <1>3, <1>5 DEF Proves
  <2> HIDE DEF p
  <2> QED BY <2>1, <2>2 DEF Proofs
<1>7. call.require_signed => SignerOf(row) = SigningKey /\ SigningKey # NULL
  BY <1>3, <1>4, SignerOfMade
<1>8. Abstract!Justified(d, ProofOf(call.artifact, row), now)
  BY <1>3, <1>7 DEF Abstract!Justified, ProofOf, Current
<1> QED BY <1>6, <1>8

\* While no row is added and no answer of the gate made, an answer may be taken
\* note of or lost.
LEMMA NoDecisionRefines ==
  ASSUME CallsInv, CallsInv', UNCHANGED <<now, receipts>>, Judged' \subseteq Judged
  PROVE  Abstract!PNext \/ UNCHANGED Abstract!pvars
<1>1. Proofs' = Proofs
  BY DEF Proofs
<1>2. CASE Judged' = {}
  <2>1. Decision' = NULL
    BY <1>2 DEF Decision
  <2>2. Abstract!Forget({"page"})
    BY <1>1, <2>1 DEF Abstract!Forget, Decision
  <2> QED BY <2>2 DEF Abstract!PNext
<1>3. CASE Judged' # {}
  <2>1. Judged' = Judged
    BY <1>3 DEF CallsInv, Judged
  <2>2. Decision' = Decision
    BY <2>1 DEF Decision, DecisionOn
  <2> QED BY <1>1, <2>2 DEF Abstract!pvars, Decision
<1> QED BY <1>2, <1>3

\* The answer of the gate is a decision of the promise (api.py gate).
LEMMA ServeGateRefines ==
  ASSUME CallsInv, CallsInv', PairInv, PromiseInv, NEW r \in requests, ServeGate(r)
  PROVE  Abstract!PNext \/ UNCHANGED Abstract!pvars
<1>1. r.kind = "gate" /\ r.answer = NULL /\ UNCHANGED <<now, receipts>>
  BY DEF ServeGate, service
<1>2. Judged = {}
  BY <1>1 DEF CallsInv, Judged
<1>3. PICK choice, answer :
        /\ Answered(r, answer)
        /\ Came(answer) =>
             /\ r.body.receipt_id # Blank /\ answer.data.decision = choice
             /\ choice = Decided(receipts[r.body.receipt_id], r.body, now)
  <2>1. CASE r.body.receipt_id = Blank
    <3>1. Answered(r, Failed) /\ ~Came(Failed)
      BY <2>1 DEF ServeGate, Came
    <3> QED BY <3>1
  <2>2. CASE r.body.receipt_id # Blank
    <3> DEFINE choice == Decided(receipts[r.body.receipt_id], r.body, now)
               answer == Ok([decision |-> choice, at |-> now])
    <3>1. r.body.receipt_id \in DOMAIN receipts
      BY <1>1, <2>2 DEF PairInv, CallOK
    <3>2. Answered(r, answer)
      BY <2>2, <3>1 DEF ServeGate, Decided
    <3>3. answer.data.decision = choice
      BY DEF Ok
    <3> HIDE DEF answer
    <3> QED BY <2>2, <3>2, <3>3
  <2> QED BY <2>1, <2>2
<1>4. PICK a : a = [r EXCEPT !.answer = answer]
  OBVIOUS
<1>5. a.kind = "gate" /\ a.body = r.body /\ a.answer = answer
  BY <1>1, <1>4 DEF CallsInv, Shaped
<1>6. requests' = (requests \ {r}) \cup {a}
  BY <1>3, <1>4 DEF Answered
<1>7. CASE ~Came(answer)
  <2>1. Judged' \subseteq Judged
    BY <1>5, <1>6, <1>7 DEF Judged, Came
  <2> QED BY <1>1, <2>1, NoDecisionRefines
<1>8. CASE Came(answer)
  <2> DEFINE d == [artifact |-> r.body.artifact, signed |-> r.body.require_signed,
                   key |-> SigningKey, decision |-> choice]
  <2>1. r.body.receipt_id \in DOMAIN receipts /\ Asks(r.body) /\ r.body.artifact \in Artifacts
    BY <1>1, <1>3, <1>8 DEF PairInv, CallOK, PromiseInv, Asks
  <2>2. Decision' = d
    <3>1. a \in Judged' /\ \A s \in Judged' : s = a
      BY <1>5, <1>6, <1>8 DEF Judged, Came, CallsInv
    <3>2. (CHOOSE s \in Judged' : TRUE) = a
      BY <3>1
    <3> QED BY <1>3, <1>5, <1>8, <3>1, <3>2 DEF Decision, DecisionOn
  <2>3. choice = "ALLOW" => \E p \in Proofs : Abstract!Justified(d, p, now)
    <3>1. /\ d.artifact = r.body.artifact /\ d.signed = r.body.require_signed
          /\ d.key = SigningKey
      OBVIOUS
    <3>2. choice = "ALLOW" =>
            GateReasons(receipts[r.body.receipt_id], r.body, SigningKey, now) = {}
      BY <1>3, <1>8 DEF Decided
    <3> HIDE DEF d
    <3> QED BY <2>1, <3>1, <3>2, AllowHasProof
  <2>4. Proofs' = Proofs /\ Decision = NULL
    BY <1>1, <1>2 DEF Proofs, Decision
  <2>5. Abstract!Decide("page")
    <3> DEFINE before == [actor \in {"page"} |-> Decision]
               after  == [actor \in {"page"} |-> Decision']
    <3>1. /\ r.body.require_signed \in BOOLEAN /\ choice \in {"ALLOW", "BLOCK"}
          /\ SigningKey \in {SigningKey} \cup {NULL}
      BY <1>3, <1>8, <2>1 DEF Asks, Decided
    <3>2. before["page"] = NULL /\ after = [before EXCEPT !["page"] = d]
      BY <2>2, <2>4
    <3>3. \E artifact \in Artifacts, signed \in BOOLEAN, k \in {SigningKey} \cup {NULL},
             outcome \in {"ALLOW", "BLOCK"} :
            LET e == [artifact |-> artifact, signed |-> signed, key |-> k, decision |-> outcome]
            IN /\ before["page"] = NULL
               /\ outcome = "ALLOW" => \E p \in Proofs : Abstract!Justified(e, p, now)
               /\ after = [before EXCEPT !["page"] = e]
               /\ UNCHANGED <<Proofs, now>>
      <4> HIDE DEF before, after
      <4> QED BY <1>1, <2>1, <2>3, <2>4, <3>1, <3>2, Zenon
    <3> QED BY <3>3 DEF Abstract!Decide, Decision
  <2> QED BY <2>5 DEF Abstract!PNext
<1> QED BY <1>7, <1>8

\* An answer to a call that is not the gate's, or a loss, makes no decision.
LEMMA AnsweredJudgesNone ==
  ASSUME CallsInv, NEW r \in requests, NEW answer, Answered(r, answer),
         r.kind # "gate" \/ answer = Failed
  PROVE  Judged' \subseteq Judged
<1> DEFINE a == [r EXCEPT !.answer = answer]
<1>1. a.kind = r.kind /\ a.answer = answer
  BY DEF CallsInv, Shaped
<1>2. requests' = (requests \ {r}) \cup {a}
  BY DEF Answered
<1> HIDE DEF a
<1> QED BY <1>1, <1>2 DEF Judged

\* A verification adds a proof, or one that there is, or none (api.py verify).
LEMMA ServeVerifyRefines ==
  ASSUME Distinct, CallsInv, PairInv, PairInv', PromiseInv', NEW r \in requests, ServeVerify(r)
  PROVE  Abstract!PNext
<1>1. r.kind = "verify" /\ UNCHANGED now
  BY DEF ServeVerify
<1>2. Proofs \subseteq Proofs'
  <2>1. \A id \in DOMAIN receipts : receipts'[id] = receipts[id]
    BY ServeVerifyKeepsRows
  <2>2. DOMAIN receipts \subseteq DOMAIN receipts'
    BY DEF ServeVerify
  <2> QED BY <2>1, <2>2, ProofsGrow
<1>3. Proofs' \subseteq Abstract!Proof
  <2> SUFFICES ASSUME NEW p \in Artifacts \X DOMAIN receipts'
               PROVE  ProofOf(p[1], receipts'[p[2]]) \in Abstract!Proof
    BY DEF Proofs
  <2>1. PICK row, a : row = receipts'[p[2]] /\ Made(row, a)
    BY DEF PairInv
  <2>2. row.expires_at \in Nat /\ p[1] \in Artifacts
    BY <2>1 DEF PromiseInv
  <2> QED BY <2>1, <2>2, RowIsProof
<1>4. Decision' = Decision
  <2>1. PICK answer : Answered(r, answer)
    BY DEF ServeVerify
  <2>2. PICK a : a = [r EXCEPT !.answer = answer]
    OBVIOUS
  <2>3. a.kind = "verify"
    BY <1>1, <2>2 DEF CallsInv, Shaped
  <2>4. requests' = (requests \ {r}) \cup {a}
    BY <2>1, <2>2 DEF Answered
  <2>5. Judged' = Judged
    BY <1>1, <2>3, <2>4 DEF Judged
  <2> QED BY <2>5 DEF Decision, DecisionOn
<1>5. Abstract!Prove
  BY <1>1, <1>2, <1>3, <1>4 DEF Abstract!Prove, Decision
<1> QED BY <1>5 DEF Abstract!PNext

\* Every step of the page and its service is a step of the promise, or none.
LEMMA NextRefines ==
  ASSUME Distinct, CallsInv, CallsInv', PairInv, PairInv', PromiseInv, PromiseInv', [Next]_cvars
  PROVE  Abstract!PNext \/ UNCHANGED Abstract!pvars
<1>1. CASE Tick
  <2>1. now' \in Nat /\ UNCHANGED <<receipts, requests>>
    BY <1>1 DEF Tick, PairInv
  <2>2. Proofs' = Proofs /\ Decision' = Decision
    BY <2>1 DEF Proofs, Decision, DecisionOn, Judged
  <2>3. Abstract!Pass
    BY <2>1, <2>2 DEF Abstract!Pass, Decision
  <2> QED BY <2>3 DEF Abstract!PNext
<1>2. CASE Edit \/ (\E demo \in Demos : LoadDemo(demo)) \/ EditGate
           \/ PressVerifyUnparsable \/ UseLast \/ UseLastWithout \/ UNCHANGED cvars
  <2>1. UNCHANGED <<now, receipts, requests>>
    BY <1>2 DEF Edit, LoadDemo, EditGate, PressVerifyUnparsable, UseLast, UseLastWithout,
                cvars, service
  <2>2. Judged' = Judged
    BY <2>1 DEF Judged
  <2> QED BY <2>1, <2>2, NoDecisionRefines
<1>3. ASSUME NEW kind, NEW body, NEW others \in SUBSET requests, Send(kind, body, others),
             UNCHANGED <<now, receipts>>
      PROVE  Abstract!PNext \/ UNCHANGED Abstract!pvars
  <2> DEFINE new == [no |-> Number, kind |-> kind, body |-> body, answer |-> NULL]
  <2>1. requests' = others \cup {new} /\ new.answer = NULL
    BY <1>3 DEF Send
  <2> HIDE DEF new
  <2>2. Judged' \subseteq Judged
    BY <2>1 DEF Judged
  <2> QED BY <1>3, <2>2, NoDecisionRefines
<1>4. CASE PressVerify
  <2>1. PICK body : body = VerifyBody
    OBVIOUS
  <2> QED BY <1>3, <1>4, <2>1 DEF PressVerify, service
<1>5. CASE PressGate \/ Refresh
  BY <1>3, <1>5 DEF PressGate, Refresh, service
<1>6. ASSUME NEW r \in requests, ServeLoad(r) \/ Lose(r)
      PROVE  Abstract!PNext \/ UNCHANGED Abstract!pvars
  <2>1. /\ UNCHANGED <<now, receipts>>
        /\ \E answer : Answered(r, answer) /\ (r.kind # "gate" \/ answer = Failed)
    BY <1>6 DEF ServeLoad, Lose, service
  <2> QED BY <2>1, AnsweredJudgesNone, NoDecisionRefines
<1>7. ASSUME NEW r \in requests, VerifyAnswer(r)
      PROVE  Abstract!PNext \/ UNCHANGED Abstract!pvars
  <2>1. requests \ {r} \in SUBSET requests
    OBVIOUS
  <2> QED BY <1>3, <1>7, <2>1 DEF VerifyAnswer, service
<1>8. ASSUME NEW r \in requests, GateAnswer(r) \/ Failure(r) \/ LoadAnswer(r)
      PROVE  Abstract!PNext \/ UNCHANGED Abstract!pvars
  <2>1. UNCHANGED <<now, receipts>> /\ requests' = requests \ {r}
    BY <1>8 DEF GateAnswer, Failure, LoadAnswer, service
  <2>2. Judged' \subseteq Judged
    BY <2>1 DEF Judged
  <2> QED BY <2>1, <2>2, NoDecisionRefines
<1> QED
  BY <1>1, <1>2, <1>4, <1>5, <1>6, <1>7, <1>8, ServeVerifyRefines, ServeGateRefines
     DEF Next, Serve, Handle

\* The page and its service implement the promise: whatever is typed, verified,
\* lost or answered late, what the gate answers to the page is one look at the
\* proofs there are, and no verification takes one back (api.py gate).
THEOREM ConsoleKeepsPromise == ASSUME Distinct PROVE ConsoleSpec => KeepsPromise
<1> DEFINE Inv == CallsInv /\ PairInv /\ PromiseInv
<1>1. Init => Inv /\ Abstract!PInit
  BY InitCalls, InitPair, InitPromise, InitRefines
<1>2. Inv /\ [Next]_cvars => Inv'
  BY NextCalls, NextPair, NextPromise
<1>3. Inv /\ Inv' /\ [Next]_cvars => [Abstract!PNext]_(Abstract!pvars)
  BY NextRefines
<1> QED BY <1>1, <1>2, <1>3, PTL DEF ConsoleSpec, KeepsPromise, Abstract!Promise
=============================================================================
