----------------------------- MODULE Deployment -----------------------------
(***************************************************************************)
(* Getting Sentinel into the Arena: an operator edits the environment and  *)
(* the repository, runs the release preflight (preflight.py), starts the   *)
(* service (api.py create_app) and drives turns through the SharedOS       *)
(* bridge (sharedos/src/run-turn.mjs).  Each of the three reads the        *)
(* environment by its own rules, and at its own moment.                    *)
(*                                                                         *)
(* A value of a variable is opaque; functions say what the programs find   *)
(* in it.                                                                  *)
(***************************************************************************)
EXTENDS TurnRequest, Sequences, FiniteSets

CONSTANTS
  Values,            \* texts a variable may have
  Chars, Bytes,      \* text -> its length in characters, and in UTF-8
  IntOf,             \* text -> what int() makes of it, or NotInt
  NotInt,
  Urls,              \* the texts that are http(s) URLs
  ServiceNames,      \* the texts that match the pattern of service names
  DefaultPurpose,    \* the text sentinel.verify-before-action
  DefaultPrice,      \* the text 20
  InitialEnv,        \* the environment before anything is edited
  Edits,             \* variable -> the values it may be given
  InitialTree,
  Paths,             \* files that may be removed, or put there
  Installed,         \* "editable", or "wheel": the package lies outside the repository
  StartedIn,         \* "root" or "elsewhere": the directory the service is started in
  Inputs,            \* what run-turn may read
  MaxEdits,          \* bound of the verification
  Down, NULL

ASSUME ValueAssumption ==
  /\ DefaultPrice \in Values /\ IntOf[DefaultPrice] = 20
  /\ Blank \in Values /\ Strip[Blank] = Blank /\ Chars[Blank] = 0
  /\ Absent \notin Values /\ NULL \notin Values /\ NotInt \notin Int
  /\ \A v \in Values : /\ Strip[v] \in Values
                        /\ Strip[Strip[v]] = Strip[v] /\ IntOf[Strip[v]] = IntOf[v]
                        /\ Chars[v] \in Nat /\ Bytes[v] \in Nat /\ Chars[v] <= Bytes[v]

VARIABLES
  env,       \* variable -> its value, or Absent
  tree,      \* the repository: its files, the names in .env.example, and what
             \* is still open in docs/DEVPOST_SUBMISSION.md
  report,    \* the last preflight, with the environment and tree it saw
  service,   \* the process, with the environment it was started in; up unless it ended
  turn,      \* the last turn that was driven, with its environment
  edits

dvars == <<env, tree, report, service, turn, edits>>

ArenaNames ==
  {"SHAREDOS_TENANT_ID", "SHAREDOS_OWNER_ADDRESS", "SHAREDOS_PURPOSE",
   "SHAREDOS_CLOUD_BASE_URL", "SHAREDOS_CLOUD_TOKEN", "SENTINEL_SHAREDOS_AGENT_ID",
   "SHAREDNET_NODE_ID", "SHAREDNET_API_BASE", "SHAREDNET_API_TOKEN",
   "SHAREDNET_SERVICE_NAME", "SHAREDNET_SERVICE_CALL_METHOD", "SENTINEL_DISCORD_USERNAME"}

TemplateNames ==
  ArenaNames \cup {"SENTINEL_SIGNING_KEY", "SENTINEL_API_TOKEN", "SENTINEL_ARENA_PRICE"}

ASSUME EnvironmentAssumption ==
  /\ DOMAIN InitialEnv = TemplateNames \cup {"SENTINEL_WEB_INDEX"}
  /\ \A name \in DOMAIN InitialEnv : InitialEnv[name] \in Values \cup {Absent}
  /\ \A name \in DOMAIN Edits : Edits[name] \subseteq Values \cup {Absent}

StaticFiles ==
  {".dockerignore", "README.md", "SECURITY.md", "Dockerfile", "web/index.html",
   "docs/ARENA.md", "docs/ARENA_RUNBOOK.md", "docs/DEVPOST_SUBMISSION.md",
   "docs/DEMO_SCRIPT.md", "docs/GRANT_MAP.md", "docs/RELEASE_CHECKLIST.md",
   "sharedos/package.json", "sharedos/src/request.mjs", "sharedos/src/run-turn.mjs",
   "sharedos/src/check-config.mjs", "sharedos/src/contract-check.mjs"}

Placeholders ==
  {"call contract", "product agent address", "node id", "owner address", "tenant id",
   "discord username"}
RequiredItems ==
  {"SharedNet node ID", "Exact SharedNet call method",
   "Product agent addresses / tenant identifiers", "Team lead Discord username"}
Video == "demo video"

Init ==
  /\ env = InitialEnv /\ tree = InitialTree
  /\ report = NULL /\ service = Down /\ turn = NULL /\ edits = 0

---------------------------------------------------------------------------
(* The release preflight.                                                  *)

Finding(level, code, about) == [level |-> level, code |-> code, about |-> about]
Block(code, about) == Finding("BLOCK", code, about)
When(condition, finding) == IF condition THEN {finding} ELSE {}

\* _repo_root: two directories above the package
RootFiles(t) == IF Installed = "editable" THEN t.files ELSE {}

StaticFindings(t) ==
  {Block("file_missing", f) : f \in StaticFiles \ RootFiles(t)}
  \cup IF ".env.example" \notin RootFiles(t) THEN {Block("env_template_missing", ".env.example")}
       ELSE {Block("env_name_missing", name) : name \in TemplateNames \ t.template}

\* Bugs a rewrite could bring in: what is set but blank counts, or a key of any
\* length does, or the service's token is not stripped.
UnsetNames(e) == {name \in ArenaNames : e[name] = Absent}
AnyKeyIsStrong(e) == e["SENTINEL_SIGNING_KEY"] \in {Absent, Blank}
TokenIsAbsent(e) == e["SENTINEL_API_TOKEN"] \in {Absent, Blank}

MissingNames(e) == {name \in ArenaNames : Text(e[name]) = Blank}

\* the characters are counted before anything is stripped
KeyIsWeak(e) == e["SENTINEL_SIGNING_KEY"] = Absent \/ Chars[e["SENTINEL_SIGNING_KEY"]] < 32

TokenIsUnset(e) == Text(e["SENTINEL_API_TOKEN"]) = Blank

ConfiguredPrice(e) == IntOf[Strip[IF e["SENTINEL_ARENA_PRICE"] = Absent THEN DefaultPrice
                                  ELSE e["SENTINEL_ARENA_PRICE"]]]

RuntimeFindings(e) ==
  {Block("env_missing", name) : name \in MissingNames(e)}
  \cup When(KeyIsWeak(e), Block("signing_key_weak", "SENTINEL_SIGNING_KEY"))
  \cup When(TokenIsUnset(e), Finding("WARN", "api_token_unset", "SENTINEL_API_TOKEN"))
  \cup {Block("url_invalid", name) : name \in
          {n \in {"SHAREDOS_CLOUD_BASE_URL", "SHAREDNET_API_BASE"} :
             Text(e[n]) # Blank /\ Text(e[n]) \notin Urls}}
  \cup When(e["SHAREDOS_PURPOSE"] # Absent /\ Chars[Text(e["SHAREDOS_PURPOSE"])] > 160,
            Block("purpose_too_long", "SHAREDOS_PURPOSE"))
  \cup When(Text(e["SHAREDNET_SERVICE_NAME"]) \notin ServiceNames \cup {Blank},
            Block("service_name_invalid", "SHAREDNET_SERVICE_NAME"))
  \cup When(ConfiguredPrice(e) = NotInt, Block("price_invalid", "SENTINEL_ARENA_PRICE"))
  \cup When(ConfiguredPrice(e) # NotInt /\ ConfiguredPrice(e) \notin 1..100,
            Block("price_range", "SENTINEL_ARENA_PRICE"))

SubmissionFindings(t) ==
  IF "docs/DEVPOST_SUBMISSION.md" \notin RootFiles(t)
  THEN {Block("submission_missing", "docs/DEVPOST_SUBMISSION.md")}
  ELSE {Block("placeholder", item) : item \in Placeholders \cap t.open}
         \cup {Block("unchecked", item) : item \in RequiredItems \cap t.open}
         \cup When(Video \in t.open, Finding("WARN", "video_missing", Video))

\* only the first with --static
CollectFindings(static_only, e, t) ==
  StaticFindings(t) \cup IF static_only THEN {} ELSE RuntimeFindings(e) \cup SubmissionFindings(t)

Preflight(static_only) ==
  /\ report' = [static_only |-> static_only, env |-> env, tree |-> tree,
                findings |-> CollectFindings(static_only, env, tree)]
  /\ UNCHANGED <<env, tree, service, turn, edits>>

\* exit code 0 of the full preflight
Green == report # NULL /\ ~report.static_only /\ \A f \in report.findings : f.level # "BLOCK"

---------------------------------------------------------------------------
(* The service.                                                            *)

KeyText(e) == Text(e["SENTINEL_SIGNING_KEY"])

\* A bug a rewrite could bring in: the bytes are counted before the strip.
PaddedKeyAccepted(e) ==
  KeyText(e) = Blank \/ Bytes[e["SENTINEL_SIGNING_KEY"]] >= 32

KeyAccepted(e) == KeyText(e) = Blank \/ Bytes[KeyText(e)] >= 32
ConfiguredKey(e) == IF KeyText(e) = Blank THEN NULL ELSE KeyText(e)

\* web/index.html below the working directory, or two above the package
Nowhere == "no such file"
IndexBelow(inside) == IF inside THEN "web/index.html" ELSE Nowhere

Candidates(e) ==
  LET defaults == <<IndexBelow(StartedIn = "root"), IndexBelow(Installed = "editable")>>
      override == Text(e["SENTINEL_WEB_INDEX"])
  IN IF override = Blank THEN defaults ELSE <<override, defaults[1], defaults[2]>>

\* A bug a rewrite could bring in: the first candidate, there or not.
FirstCandidate(e, files) == Candidates(e)[1]

WebIndex(e, files) ==
  LET paths == Candidates(e)
      there == {i \in DOMAIN paths : paths[i] \in files}
  IN IF there = {} THEN paths[1]
     ELSE paths[CHOOSE i \in there : \A j \in there : i <= j]

\* create_app returns, or raises and there is no service
Start ==
  /\ service = Down
  /\ service' = [env |-> env, up |-> KeyAccepted(env), signing_key |-> ConfiguredKey(env),
                 tree |-> tree, web_index |-> WebIndex(env, tree.files)]
  /\ UNCHANGED <<env, tree, report, turn, edits>>

Stop ==
  /\ service # Down
  /\ service' = Down
  /\ UNCHANGED <<env, tree, report, turn, edits>>

\* GET /, or 503
DashboardServed == service.web_index \in tree.files

\* require_api_token lets a call without a header pass
Open(e) == Text(e["SENTINEL_API_TOKEN"]) = Blank

\* A bug a rewrite could bring in: the highest price is out of range.
ArenaPriceBelow100(e) ==
  IF e["SENTINEL_ARENA_PRICE"] = Absent THEN 20
  ELSE IF IntOf[e["SENTINEL_ARENA_PRICE"]] \in 1..99 THEN IntOf[e["SENTINEL_ARENA_PRICE"]] ELSE 20

\* _arena_price: whatever is no price makes it 20
ArenaPrice(e) ==
  IF e["SENTINEL_ARENA_PRICE"] = Absent THEN 20
  ELSE IF IntOf[e["SENTINEL_ARENA_PRICE"]] \in 1..100 THEN IntOf[e["SENTINEL_ARENA_PRICE"]] ELSE 20

\* A bug a rewrite could bring in: the bridge's default is not the endpoint's.
PublishedPurposeOrEmpty(e) ==
  IF e["SHAREDOS_PURPOSE"] = Absent THEN Blank ELSE e["SHAREDOS_PURPOSE"]

\* the purpose of GET /v1/service
PublishedPurpose(e) ==
  IF e["SHAREDOS_PURPOSE"] = Absent THEN DefaultPurpose ELSE e["SHAREDOS_PURPOSE"]

---------------------------------------------------------------------------
(* The SharedOS bridge.                                                    *)

\* check-config.mjs exits with 0
ConfigComplete(e) ==
  \A name \in {"SHAREDOS_CLOUD_BASE_URL", "SHAREDOS_CLOUD_TOKEN", "SENTINEL_SHAREDOS_AGENT_ID",
               "SHAREDOS_TENANT_ID", "SHAREDOS_OWNER_ADDRESS", "SHAREDOS_PURPOSE"} :
    Text(e[name]) # Blank

BridgeConfig(e) ==
  [agentId |-> Text(e["SENTINEL_SHAREDOS_AGENT_ID"]),
   purpose |-> Or(Text(e["SHAREDOS_PURPOSE"]), DefaultPurpose)]

\* run-turn.mjs, up to the call of the SharedOS cloud
RunTurn(input) ==
  /\ turn' =
       LET built == /\ Text(env["SHAREDOS_CLOUD_BASE_URL"]) # Blank
                    /\ Text(env["SHAREDOS_CLOUD_TOKEN"]) # Blank
                    /\ Builds(input, BridgeConfig(env))
       IN [env |-> env, input |-> input, complete |-> ConfigComplete(env), built |-> built,
           request |-> IF built THEN Request(input, BridgeConfig(env)) ELSE NULL]
  /\ UNCHANGED <<env, tree, report, service, edits>>

---------------------------------------------------------------------------
(* The operator.                                                           *)

Edit == edits < MaxEdits /\ edits' = edits + 1 /\ UNCHANGED <<report, service, turn>>

SetVariable(name, value) ==
  /\ Edit
  /\ env' = [env EXCEPT ![name] = value]
  /\ UNCHANGED tree

Remove(path) ==
  /\ Edit /\ path \in tree.files
  /\ tree' = [tree EXCEPT !.files = @ \ {path}]
  /\ UNCHANGED env

Restore(path) ==
  /\ Edit /\ path \notin tree.files
  /\ tree' = [tree EXCEPT !.files = @ \cup {path}]
  /\ UNCHANGED env

DropName(name) ==
  /\ Edit /\ name \in tree.template
  /\ tree' = [tree EXCEPT !.template = @ \ {name}]
  /\ UNCHANGED env

Resolve(item) ==
  /\ Edit /\ item \in tree.open
  /\ tree' = [tree EXCEPT !.open = @ \ {item}]
  /\ UNCHANGED env

Next ==
  \/ \E name \in DOMAIN Edits : \E value \in Edits[name] : SetVariable(name, value)
  \/ \E path \in Paths : Remove(path) \/ Restore(path)
  \/ \E name \in TemplateNames : DropName(name)
  \/ \E item \in Placeholders \cup RequiredItems \cup {Video} : Resolve(item)
  \/ Preflight(TRUE) \/ Preflight(FALSE) \/ Start \/ Stop
  \/ \E input \in Inputs : RunTurn(input)

DeploymentSpec == Init /\ [][Next]_dvars

---------------------------------------------------------------------------
(* Properties.                                                             *)

Running == service # Down /\ service.up
GreenFor(e) == Green /\ report.env = e

\* A service runs unsigned or under a stripped key of 32 bytes (api.py
\* _configured_signing_key), and preflight is green for no repository that
\* lacks a file, nor for a package outside of it (preflight.py _repo_root).
TypeOK ==
  /\ DOMAIN env = DOMAIN InitialEnv
  /\ \A name \in DOMAIN env : env[name] \in Values \cup {Absent}
  /\ Running => \/ service.signing_key = NULL
                \/ /\ service.signing_key = Strip[service.signing_key]
                   /\ Bytes[service.signing_key] >= 32
  /\ Green => Installed = "editable" /\ StaticFiles \subseteq report.tree.files

\* What preflight passed starts and signs, unless its key has blanks around it:
\* the characters preflight.py counts are enough of the bytes api.py counts.
GreenServiceSigns ==
  (/\ service # Down /\ GreenFor(service.env)
   /\ KeyText(service.env) = service.env["SENTINEL_SIGNING_KEY"])
  => service.up /\ service.signing_key # NULL

\* README.md, Release preflight: "Full preflight blocks release if required
\* Arena identifiers, service-call details, signing material, or mandatory
\* Devpost fields are still missing".  What preflight passed starts and signs.
GreenMeansSigned ==
  service # Down /\ GreenFor(service.env) => service.up /\ service.signing_key # NULL

\* A dashboard preflight found is served, wherever the service was started and
\* whatever SENTINEL_WEB_INDEX names (api.py _resolve_web_index falls back to
\* what is there), as long as no file has gone since.
GreenServesDashboard ==
  (/\ Running /\ Green
   /\ tree = report.tree /\ service.tree = tree)
  => DashboardServed

\* A service that answers calls without a token is one that preflight warned of
\* (api.py require_api_token, preflight.py runtime_findings).
OpenServiceWasWarned ==
  (/\ Running /\ report # NULL /\ ~report.static_only /\ report.env = service.env
   /\ Open(service.env))
  => \E f \in report.findings : f.code = "api_token_unset"

\* The price a service preflight passed publishes is the configured one, never
\* the one api.py falls back to.
PublishedPriceIsConfigured ==
  Running /\ GreenFor(service.env) => ArenaPrice(service.env) = ConfiguredPrice(service.env)

\* An input that leaves it to the configuration.
LeavesToConfig(input) ==
  /\ input.agentId = Absent /\ input.purpose = Absent /\ input.receiver = Absent
  /\ input.sender # Absent /\ IsPrincipal(input.sender)
  /\ {input.maxSteps, input.maxToolCalls, input.timeoutMs} = {Absent}

\* In an environment preflight passed, check-config passes too and a turn is
\* built for the configured agent and under the configured purpose: the three
\* programs agree on what is missing (run-turn.mjs, check-config.mjs).
GreenTurnIsBuilt ==
  turn # NULL /\ GreenFor(turn.env) =>
    /\ turn.complete
    /\ LeavesToConfig(turn.input) =>
         /\ turn.built
         /\ turn.request.agent.id = Text(turn.env["SENTINEL_SHAREDOS_AGENT_ID"])
         /\ turn.request.message.purpose = Text(turn.env["SHAREDOS_PURPOSE"])

\* Whatever the input names, a turn runs as the agent that receives the message
\* (sharedos/src/request.mjs), under a purpose that is not blank.
RecipientOwned ==
  turn # NULL /\ turn.built =>
    /\ turn.request.message.receiver = turn.request.agent
    /\ Blank \notin {turn.request.agent.id, turn.request.message.purpose,
                     turn.request.message.sender.id}

\* docs/DEMO_SCRIPT.md: "Product-agent turns run through SharedOS under one
\* purpose string".  Turns have the purpose the service of the same environment
\* publishes, up to the blanks around it, preflight or not; a purpose of blanks
\* only is published as it is while turns fall back to the default.
PurposeIsPublished ==
  (/\ Running /\ turn # NULL /\ turn.built /\ LeavesToConfig(turn.input)
   /\ turn.env = service.env
   /\ service.env["SHAREDOS_PURPOSE"] = Absent \/ Text(service.env["SHAREDOS_PURPOSE"]) # Blank)
  => turn.request.message.purpose = Strip[PublishedPurpose(service.env)]
=============================================================================
