---------------------------- MODULE MCDeployment ----------------------------
(* A complete environment in a complete repository, and the ways to spoil    *)
(* one or two variables or files of it.  Texts are named for what they are.  *)
EXTENDS Deployment

CONSTANTS text, url, blanks, key, shortKey, paddedKey, price20, price100, price101,
          purpose, paddedPurpose, long, otherPath

MCValues == {Blank, text, url, blanks, key, shortKey, paddedKey, price20, price100, price101,
             purpose, paddedPurpose, long, otherPath}

MCStrip == [v \in MCValues \cup {FreshId} |->
  CASE v = blanks -> Blank [] v = paddedKey -> shortKey [] v = paddedPurpose -> purpose
    [] OTHER -> v]

\* blanks are 32 of them; shortKey has 31 characters, paddedKey one blank more
MCChars == [v \in MCValues |->
  CASE v = Blank -> 0 [] v \in {blanks, key, paddedKey} -> 32 [] v = shortKey -> 31
    [] v = long -> 161 [] v = paddedPurpose -> 29 [] v = purpose -> 28 [] OTHER -> 10]

MCBytes == [v \in MCValues |-> IF v = shortKey THEN 31 ELSE MCChars[v]]

MCIntOf == [v \in MCValues |->
  CASE v = price20 -> 20 [] v = price100 -> 100 [] v = price101 -> 101 [] OTHER -> NotInt]

MCNames == TemplateNames \cup {"SENTINEL_WEB_INDEX"}

MCEnv == [name \in MCNames |->
  CASE name = "SENTINEL_SIGNING_KEY" -> key
    [] name = "SENTINEL_ARENA_PRICE" -> price20
    [] name = "SHAREDOS_PURPOSE" -> purpose
    [] name \in {"SHAREDOS_CLOUD_BASE_URL", "SHAREDNET_API_BASE"} -> url
    [] name = "SENTINEL_WEB_INDEX" -> Absent
    [] OTHER -> text]

MCEdits == [name \in MCNames |->
  CASE name = "SENTINEL_SIGNING_KEY" -> {Absent, blanks, shortKey, paddedKey}
    [] name = "SENTINEL_API_TOKEN" -> {Absent, blanks}
    [] name = "SENTINEL_ARENA_PRICE" -> {Absent, Blank, price100, price101}
    [] name = "SHAREDOS_PURPOSE" -> {Absent, blanks, paddedPurpose, long}
    [] name = "SHAREDNET_SERVICE_NAME" -> {long}
    [] name = "SHAREDOS_CLOUD_BASE_URL" -> {blanks, text}
    [] name = "SENTINEL_SHAREDOS_AGENT_ID" -> {Absent, blanks}
    [] name = "SENTINEL_WEB_INDEX" -> {otherPath}
    [] OTHER -> {}]

MCTree == [files |-> StaticFiles \cup {".env.example"}, template |-> TemplateNames,
           open |-> {Video}]

MCPaths == {"web/index.html", ".env.example", "docs/DEVPOST_SUBMISSION.md"}

Sender == [kind |-> "service", id |-> text]
MCInput == [agentId |-> Absent, sender |-> Sender, receiver |-> Absent, purpose |-> Absent,
            executionId |-> Absent, maxSteps |-> Absent, maxToolCalls |-> Absent,
            timeoutMs |-> Absent]

MCInputs ==
  {MCInput,
   [MCInput EXCEPT !.agentId = blanks, !.purpose = text],
   [MCInput EXCEPT !.agentId = purpose, !.purpose = text],
   [MCInput EXCEPT !.sender = [kind |-> "human", id |-> blanks]],
   [MCInput EXCEPT !.receiver = [kind |-> "agent", id |-> purpose]],
   [MCInput EXCEPT !.receiver = [kind |-> "group", id |-> text], !.timeoutMs = 290000],
   [MCInput EXCEPT !.timeoutMs = 290001]}
=============================================================================
