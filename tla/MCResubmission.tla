--------------------------- MODULE MCResubmission ---------------------------
(* Five artifacts, one of each JSON kind: a clean object, a list that        *)
(* carries an injection phrase, prose with a credential and a URL, an object *)
(* with an integer literal Python refuses, and lists nested too deep.        *)
EXTENDS Resubmission

CONSTANTS object, list, prose, digits, deep, text, blank, field, padded, key, parent

MCArtifacts == {object, list, prose, digits, deep}

MCContent ==
  [a \in MCArtifacts |->
     [size |-> IF a = prose THEN 100 ELSE 10,
      json |-> CASE a = object -> "object" [] a = list -> "other"
                 [] a = prose -> "invalid" [] a = digits -> "oversized"
                 [] a = deep -> "nested",
      fields |-> IF a = object THEN {field} ELSE {},
      strings |-> IF a \in {object, prose} THEN {field} ELSE {},
      injection |-> a = list, secret |-> a = prose, urls |-> a \in {prose, digits}]]

MCStrip == [t \in {text, blank, field, padded} |-> IF t = padded THEN field ELSE t]

MCFirstCall ==
  [task |-> text, artifact |-> object, json_schema |-> NULL, evidence |-> << >>,
   parent_receipt_sha256 |-> NULL,
   contract |-> [require_json |-> FALSE, required_json_fields |-> {},
                 required_strings |-> {}, forbidden_strings |-> {},
                 min_evidence_items |-> 0, max_artifact_bytes |-> 64000,
                 block_on_prompt_injection |-> TRUE, block_on_secret_exposure |-> TRUE,
                 receipt_ttl |-> 60]]

MCEvidences == {<< >>, <<blank, text>>}
MCRawLists == {{}, {padded, blank}}

\* text that is no schema, and one schema with its keys in two orders, of which
\* one meets its unresolvable reference in the list and the other gives up before
NoSchema == [sorted |-> "no schema", key_order |-> "either", valid |-> FALSE,
             accepts |-> {}, raises |-> {}]
Schema(key_order, raises) ==
  [sorted |-> "schema", key_order |-> key_order, valid |-> TRUE,
   accepts |-> {object}, raises |-> raises]
MCSchemas == {NULL, NoSchema, Schema("one", {list}), Schema("other", {})}
=============================================================================
