----------------------------- MODULE MCConsole -----------------------------
(* A form that makes no receipt, and the two demos of the page, which do:    *)
(* PASS for the valid one, BLOCK for the hostile one.                        *)
EXTENDS Console

CONSTANTS valid, hostile, text, decided, key

MCArtifacts == {valid, hostile}

MCContent ==
  [a \in MCArtifacts |->
     [size |-> 10, json |-> "object", fields |-> {decided}, strings |-> {},
      injection |-> a = hostile, secret |-> FALSE, urls |-> FALSE]]

MCStrip == [t \in {text, decided, Blank} |-> t]

MCSchema == [sorted |-> "decision", key_order |-> "as typed", valid |-> TRUE,
             accepts |-> MCArtifacts, raises |-> {}]

Typed == [task |-> text, artifact |-> valid, fields |-> {}, evidence |-> << >>,
          evidenceMin |-> 0, schema |-> NULL, requireJson |-> FALSE,
          blockInjection |-> TRUE, blockSecrets |-> TRUE]

\* text that is no JSON in the schema field; what a refused call comes to, Lose covers
MCForms == {[Typed EXCEPT !.schema = NotJson]}

\* loadValidDemo and loadHostileDemo; they leave the two policy boxes alone
Demo(artifact, evidence) ==
  [task |-> text, artifact |-> artifact, fields |-> {decided}, requireJson |-> TRUE,
   schema |-> MCSchema, evidence |-> evidence, evidenceMin |-> Len(evidence)]

MCDemos == {Demo(valid, <<text>>), Demo(hostile, << >>)}
=============================================================================
