---------------------------- MODULE MCSentinel ----------------------------
(* Small instances of Sentinel for TLC: a clean artifact and a risky one,   *)
(* whose suspicious URL makes its verdict WARN.                             *)
EXTENDS Sentinel

CONSTANTS clean, risky, i1, i2, w1, w2, text, blank, padded, k1, k2, short

MCArtifacts == {clean, risky}

MCContent ==
  [a \in MCArtifacts |->
     [size |-> 10, json |-> "object", fields |-> {}, strings |-> {},
      injection |-> FALSE, secret |-> FALSE, urls |-> a = risky]]

\* padded is k1 between spaces
MCStrip == [t \in {text, blank, padded, k1, k2, short} |-> IF t = padded THEN k1 ELSE t]

MCPolicy == [require_json |-> FALSE, required_json_fields |-> {}, required_strings |-> {},
             forbidden_strings |-> {}, min_evidence_items |-> 0,
             max_artifact_bytes |-> 64000, block_on_prompt_injection |-> TRUE,
             block_on_secret_exposure |-> TRUE, receipt_ttl |-> 1]

Call(artifact, task) ==
  [task |-> task, artifact |-> artifact, contract |-> MCPolicy, json_schema |-> NULL,
   evidence |-> << >>, parent_receipt_sha256 |-> NULL]

MCCalls == {Call(clean, text), Call(risky, text), Call(clean, blank)}
CleanCalls == {Call(clean, text), Call(clean, blank)}

TwoInstances == [w \in {w1, w2} |-> IF w = w1 THEN i1 ELSE i2]
OneInstance == [w \in {w1, w2} |-> i1]
OneWorker == [w \in {w1} |-> i1]
=============================================================================
