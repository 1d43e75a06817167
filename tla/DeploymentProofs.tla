-------------------------- MODULE DeploymentProofs --------------------------
(***************************************************************************)
(* Proofs about Deployment for every environment, repository, edit and     *)
(* input, and every place the package is installed or started in.          *)
(***************************************************************************)
EXTENDS Deployment, TLAPS

NamesKept(e) == DOMAIN e = DOMAIN InitialEnv
EnvOk(e) == \A name \in DOMAIN e : e[name] \in Values \cup {Absent}

\* A report, a process and a turn are what the programs make of the
\* environment each of them saw.
Remembered ==
  /\ NamesKept(env) /\ EnvOk(env)
  /\ report # NULL =>
       /\ NamesKept(report.env) /\ EnvOk(report.env)
       /\ report.findings = CollectFindings(report.static_only, report.env, report.tree)
  /\ service # Down =>
       /\ NamesKept(service.env) /\ EnvOk(service.env)
       /\ service.up = KeyAccepted(service.env)
       /\ service.signing_key = ConfiguredKey(service.env)
       /\ service.web_index = WebIndex(service.env, service.tree.files)
  /\ turn # NULL =>
       /\ NamesKept(turn.env) /\ EnvOk(turn.env)
       /\ turn.complete = ConfigComplete(turn.env)
       /\ turn.built = (/\ Text(turn.env["SHAREDOS_CLOUD_BASE_URL"]) # Blank
                        /\ Text(turn.env["SHAREDOS_CLOUD_TOKEN"]) # Blank
                        /\ Builds(turn.input, BridgeConfig(turn.env)))
       /\ turn.built => turn.request = Request(turn.input, BridgeConfig(turn.env))

\* Nothing was remembered before anything ran.
LEMMA InitRemembers == Init => Remembered
BY EnvironmentAssumption DEF Init, Remembered, NamesKept, EnvOk

\* Every step of the operator, preflight, the service and the bridge keeps what
\* was remembered, or remembers anew.
LEMMA NextRemembers == Remembered /\ [Next]_dvars => Remembered'
<1> SUFFICES ASSUME Remembered, [Next]_dvars PROVE Remembered'
  OBVIOUS
<1> USE DEF Remembered
<1>1. ASSUME NEW name \in DOMAIN Edits, NEW value \in Edits[name], SetVariable(name, value)
      PROVE  Remembered'
  <2>1. value \in Values \cup {Absent}
    BY EnvironmentAssumption
  <2>2. NamesKept(env') /\ EnvOk(env')
    BY <1>1, <2>1 DEF SetVariable, NamesKept, EnvOk
  <2> QED BY <1>1, <2>2 DEF SetVariable, Edit
<1>2. ASSUME NEW path, Remove(path) \/ Restore(path) PROVE Remembered'
  BY <1>2 DEF Remove, Restore, Edit
<1>3. ASSUME NEW name, DropName(name) PROVE Remembered'
  BY <1>3 DEF DropName, Edit
<1>4. ASSUME NEW item, Resolve(item) PROVE Remembered'
  BY <1>4 DEF Resolve, Edit
<1>5. ASSUME NEW static_only, Preflight(static_only) PROVE Remembered'
  BY <1>5 DEF Preflight
<1>6. CASE Start
  BY <1>6 DEF Start
<1>7. CASE Stop
  BY <1>7 DEF Stop
<1>8. ASSUME NEW input, RunTurn(input) PROVE Remembered'
  BY <1>8 DEF RunTurn
<1>9. CASE UNCHANGED dvars
  BY <1>9 DEF dvars
<1> QED BY <1>1, <1>2, <1>3, <1>4, <1>5, <1>6, <1>7, <1>8, <1>9 DEF Next

\* So in every behaviour the report, the process and the turn are what their
\* programs made of the environment they saw.
LEMMA AlwaysRemembered == DeploymentSpec => []Remembered
BY InitRemembers, NextRemembers, PTL DEF DeploymentSpec

---------------------------------------------------------------------------
(* What a green preflight says.                                            *)

\* No blocking finding: no file, name or value that preflight asks for is
\* missing, and the key and the price are within its bounds.
LEMMA GreenMeans ==
  ASSUME Remembered, Green
  PROVE  LET e == report.env IN
         /\ StaticFiles \subseteq RootFiles(report.tree)
         /\ MissingNames(e) = {} /\ ~KeyIsWeak(e)
         /\ ConfiguredPrice(e) # NotInt /\ ConfiguredPrice(e) \in 1..100
<1> DEFINE e == report.env
<1>1. report.findings = StaticFindings(report.tree) \cup RuntimeFindings(e)
                          \cup SubmissionFindings(report.tree)
  BY DEF Remembered, Green, CollectFindings
<1>2. \A code, about : Block(code, about) \notin report.findings
  BY DEF Green, Block, Finding
<1>3. \A code, about : /\ Block(code, about) \notin StaticFindings(report.tree)
                       /\ Block(code, about) \notin RuntimeFindings(e)
  BY <1>1, <1>2
<1>4. StaticFiles \subseteq RootFiles(report.tree)
  <2> SUFFICES ASSUME NEW f \in StaticFiles \ RootFiles(report.tree) PROVE FALSE
    OBVIOUS
  <2>1. Block("file_missing", f) \in StaticFindings(report.tree)
    BY DEF StaticFindings
  <2> QED BY <2>1, <1>3
<1>5. MissingNames(e) = {}
  <2> SUFFICES ASSUME NEW name \in MissingNames(e) PROVE FALSE
    OBVIOUS
  <2>1. Block("env_missing", name) \in RuntimeFindings(e)
    BY DEF RuntimeFindings
  <2> QED BY <2>1, <1>3
<1>6. ~KeyIsWeak(e)
  BY <1>3 DEF RuntimeFindings, When
<1>7. ConfiguredPrice(e) # NotInt
  BY <1>3 DEF RuntimeFindings, When
<1>8. ConfiguredPrice(e) \in 1..100
  <2> HIDE DEF e
  <2>1. ~(ConfiguredPrice(e) # NotInt /\ ConfiguredPrice(e) \notin 1..100)
    BY <1>3 DEF RuntimeFindings, When
  <2> QED BY <2>1, <1>7
<1> QED BY <1>4, <1>5, <1>6, <1>7, <1>8

---------------------------------------------------------------------------
(* Theorems.                                                               *)

\* Whatever is configured, a process that runs signs with a stripped key of 32
\* bytes or not at all, and preflight is green only over a complete repository,
\* never from an installed package (api.py _configured_signing_key, preflight.py).
THEOREM DeploymentTypeCorrect == DeploymentSpec => []TypeOK
<1>1. Remembered => TypeOK
  <2> SUFFICES ASSUME Remembered PROVE TypeOK
    OBVIOUS
  <2>1. DOMAIN env = DOMAIN InitialEnv /\ \A name \in DOMAIN env : env[name] \in Values \cup {Absent}
    BY DEF Remembered, NamesKept, EnvOk
  <2>2. ASSUME Running, service.signing_key # NULL
        PROVE  /\ service.signing_key = Strip[service.signing_key]
               /\ Bytes[service.signing_key] >= 32
    <3> DEFINE e == service.env
    <3>1. KeyAccepted(e) /\ service.signing_key = ConfiguredKey(e)
      BY <2>2 DEF Running, Remembered
    <3>2. KeyText(e) # Blank /\ service.signing_key = KeyText(e)
      BY <3>1, <2>2 DEF ConfiguredKey
    <3>3. e["SENTINEL_SIGNING_KEY"] # Absent /\ KeyText(e) = Strip[e["SENTINEL_SIGNING_KEY"]]
      BY <3>2 DEF KeyText, Text
    <3>4. e["SENTINEL_SIGNING_KEY"] \in Values
      <4>1. "SENTINEL_SIGNING_KEY" \in DOMAIN e /\ EnvOk(e)
        BY EnvironmentAssumption, <2>2 DEF Running, Remembered, NamesKept, TemplateNames
      <4> QED BY <4>1, <3>3 DEF EnvOk
    <3> QED BY <3>1, <3>2, <3>3, <3>4, ValueAssumption DEF KeyAccepted
  <2>3. ASSUME Green PROVE Installed = "editable" /\ StaticFiles \subseteq report.tree.files
    <3>1. StaticFiles \subseteq RootFiles(report.tree) /\ "README.md" \in StaticFiles
      BY <2>3, GreenMeans DEF StaticFiles
    <3> QED BY <3>1 DEF RootFiles
  <2> QED BY <2>1, <2>2, <2>3 DEF TypeOK
<1> QED BY <1>1, AlwaysRemembered, PTL

\* The names of the variables a proof looks up.
LEMMA Known ==
  ASSUME NEW e, NamesKept(e), EnvOk(e)
  PROVE  /\ \A name \in ArenaNames \cup {"SENTINEL_SIGNING_KEY", "SENTINEL_API_TOKEN",
                                        "SENTINEL_ARENA_PRICE"} : e[name] \in Values \cup {Absent}
BY EnvironmentAssumption DEF NamesKept, EnvOk, TemplateNames

\* What preflight passed starts and signs, for every key without blanks around
\* it (preflight.py runtime_findings, api.py _configured_signing_key).
THEOREM DeploymentGreenSigns == DeploymentSpec => []GreenServiceSigns
<1>1. Remembered => GreenServiceSigns
  <2> DEFINE e == service.env
             v == e["SENTINEL_SIGNING_KEY"]
  <2> SUFFICES ASSUME Remembered, service # Down, GreenFor(e), KeyText(e) = v
               PROVE  service.up /\ service.signing_key # NULL
    BY DEF GreenServiceSigns
  <2>1. ~KeyIsWeak(e)
    BY GreenMeans DEF GreenFor
  <2>2. v \in Values \cup {Absent}
    BY Known DEF Remembered
  <2>3. v \in Values /\ ~(Chars[v] < 32)
    BY <2>1, <2>2 DEF KeyIsWeak
  <2> HIDE DEF v
  <2>4. Chars[v] >= 32 /\ Bytes[v] >= 32 /\ v # Blank /\ v # NULL
    BY <2>3, ValueAssumption
  <2>5. KeyAccepted(e) /\ ConfiguredKey(e) = v
    BY <2>4 DEF KeyAccepted, ConfiguredKey
  <2> QED BY <2>4, <2>5 DEF Remembered
<1> QED BY <1>1, AlwaysRemembered, PTL

\* A service that answers without a token was warned of (api.py
\* require_api_token, preflight.py runtime_findings).
THEOREM DeploymentOpenIsWarned == DeploymentSpec => []OpenServiceWasWarned
<1>1. Remembered => OpenServiceWasWarned
  <2> SUFFICES ASSUME Remembered, Running, report # NULL, ~report.static_only,
                      report.env = service.env, Open(service.env)
               PROVE  \E f \in report.findings : f.code = "api_token_unset"
    BY DEF OpenServiceWasWarned
  <2> DEFINE warning == Finding("WARN", "api_token_unset", "SENTINEL_API_TOKEN")
  <2>1. TokenIsUnset(report.env)
    BY DEF Open, TokenIsUnset
  <2>2. warning \in RuntimeFindings(report.env)
    BY <2>1 DEF RuntimeFindings, When
  <2>3. warning \in report.findings
    BY <2>2 DEF Remembered, CollectFindings
  <2>4. warning.code = "api_token_unset"
    BY DEF Finding
  <2> QED BY <2>3, <2>4
<1> QED BY <1>1, AlwaysRemembered, PTL

\* The price that is published is the configured one (api.py _arena_price).
THEOREM DeploymentPriceIsConfigured == DeploymentSpec => []PublishedPriceIsConfigured
<1>1. Remembered => PublishedPriceIsConfigured
  <2> DEFINE e == service.env
             v == e["SENTINEL_ARENA_PRICE"]
  <2> SUFFICES ASSUME Remembered, Running, GreenFor(e)
               PROVE  ArenaPrice(e) = ConfiguredPrice(e)
    BY DEF PublishedPriceIsConfigured
  <2>1. ConfiguredPrice(e) \in 1..100
    BY GreenMeans DEF GreenFor
  <2>2. v \in Values \cup {Absent}
    BY Known DEF Remembered, Running
  <2>3. CASE v = Absent
    BY <2>3, ValueAssumption DEF ArenaPrice, ConfiguredPrice
  <2>4. CASE v # Absent
    BY <2>1, <2>2, <2>4, ValueAssumption DEF ArenaPrice, ConfiguredPrice
  <2> QED BY <2>3, <2>4
<1> QED BY <1>1, AlwaysRemembered, PTL

\* No turn runs as another agent than the one that receives it, or without a
\* purpose (sharedos/src/request.mjs buildTurnRequest).
THEOREM DeploymentRecipientOwned == DeploymentSpec => []RecipientOwned
<1>1. Remembered => RecipientOwned
  <2> DEFINE config == BridgeConfig(turn.env)
  <2> SUFFICES ASSUME Remembered, turn # NULL, turn.built
               PROVE  /\ turn.request.message.receiver = turn.request.agent
                      /\ Blank \notin {turn.request.agent.id, turn.request.message.purpose,
                                       turn.request.message.sender.id}
    BY DEF RecipientOwned
  <2>1. Builds(turn.input, config) /\ turn.request = Request(turn.input, config)
    BY DEF Remembered
  <2> HIDE DEF config
  <2>2. Text(turn.input.sender.id) # Blank
    BY <2>1 DEF Builds, IsPrincipal
  <2>3. Strip[turn.input.sender.id] # Blank
    BY <2>2 DEF Text
  <2> QED BY <2>1, <2>3 DEF Builds, Request, TargetAgent, Validated
<1> QED BY <1>1, AlwaysRemembered, PTL

\* A principal that is an agent with a stripped name stays as it is, and limits
\* that are left out are in bounds (request.mjs).
LEMMA AgentPrincipal ==
  ASSUME NEW id, id # Blank, id # Absent, Strip[id] = id
  PROVE  /\ IsPrincipal([kind |-> "agent", id |-> id])
         /\ Validated([kind |-> "agent", id |-> id]) = [kind |-> "agent", id |-> id]
<1>2. Text(id) = id
  BY DEF Text
<1> DEFINE value == [kind |-> "agent", id |-> id]
<1>3. value.kind = "agent" /\ value.id = id
  OBVIOUS
<1> HIDE DEF value
<1>4. IsPrincipal(value)
  BY <1>2, <1>3 DEF IsPrincipal
<1>5. Validated(value) = [kind |-> "agent", id |-> id]
  BY <1>3 DEF Validated
<1> QED BY <1>4, <1>5 DEF value

\* A limit that is left out is in bounds (request.mjs boundedInt).
LEMMA AbsentInBounds == \A min, max : InBounds(Absent, min, max)
BY DEF InBounds

\* Where the agent, the receiver and the purpose of a request come from
\* (request.mjs buildTurnRequest).
LEMMA RequestShape ==
  ASSUME NEW input, NEW config
  PROVE  /\ Request(input, config).agent.id = AgentId(input, config)
         /\ Request(input, config).message.purpose = Purpose(input, config)
BY DEF Request, TargetAgent

\* Where preflight passed, check-config passes and every turn that leaves it to
\* the configuration is built, for the configured agent and purpose.
THEOREM DeploymentTurnIsBuilt == DeploymentSpec => []GreenTurnIsBuilt
<1>1. Remembered => GreenTurnIsBuilt
  <2> DEFINE e == turn.env
             config == BridgeConfig(e)
             input == turn.input
             agent == e["SENTINEL_SHAREDOS_AGENT_ID"]
             purpose == e["SHAREDOS_PURPOSE"]
  <2> SUFFICES ASSUME Remembered, turn # NULL, GreenFor(e)
               PROVE  /\ turn.complete
                      /\ LeavesToConfig(input) =>
                           /\ turn.built
                           /\ turn.request.agent.id = Text(agent)
                           /\ turn.request.message.purpose = Text(purpose)
    BY DEF GreenTurnIsBuilt
  <2>1. \A name \in ArenaNames : Text(e[name]) # Blank
    BY GreenMeans DEF GreenFor, MissingNames
  <2>2. ConfigComplete(e)
    BY <2>1 DEF ConfigComplete, ArenaNames
  <2>3. ASSUME NEW name \in ArenaNames
        PROVE  /\ Text(e[name]) \in Values /\ Text(e[name]) # Absent
               /\ Strip[Text(e[name])] = Text(e[name])
    <3>1. e[name] \in Values
      BY <2>1, Known DEF Remembered, Text
    <3> QED BY <3>1, ValueAssumption DEF Text
  <2>4. /\ Text(agent) # Blank /\ Text(agent) # Absent /\ Strip[Text(agent)] = Text(agent)
        /\ Text(purpose) # Blank /\ Text(purpose) # Absent
        /\ Strip[Text(purpose)] = Text(purpose)
    BY <2>1, <2>3 DEF ArenaNames
  <2>5. ASSUME LeavesToConfig(input)
        PROVE  /\ turn.built /\ turn.request.agent.id = Text(agent)
               /\ turn.request.message.purpose = Text(purpose)
    <3>1. config.agentId = Text(agent) /\ config.purpose = Text(purpose)
      BY <2>4 DEF BridgeConfig, Or
    <3>2. AgentId(input, config) = Text(agent) /\ Purpose(input, config) = Text(purpose)
      <4>1. Text(Text(agent)) = Text(agent) /\ Text(Text(purpose)) = Text(purpose)
        BY <2>4 DEF Text
      <4> QED BY <4>1, <3>1, <2>5 DEF AgentId, Purpose, Or, LeavesToConfig
    <3> HIDE DEF agent, purpose, config, input
    <3>3. Receiver(input, config) = TargetAgent(input, config)
      BY <2>5 DEF Receiver, Or, LeavesToConfig
    <3>4. /\ IsPrincipal(TargetAgent(input, config))
          /\ Validated(TargetAgent(input, config)) = TargetAgent(input, config)
      <4>1. TargetAgent(input, config) = [kind |-> "agent", id |-> Text(agent)]
        BY <3>2 DEF TargetAgent
      <4> QED BY <4>1, <2>4, AgentPrincipal
    <3>5. Builds(input, config)
      <4>1. input.maxSteps = Absent /\ input.maxToolCalls = Absent /\ input.timeoutMs = Absent
        BY <2>5 DEF LeavesToConfig
      <4>2. input.sender # Absent /\ IsPrincipal(input.sender)
        BY <2>5 DEF LeavesToConfig
      <4> QED BY <4>1, <4>2, <3>2, <3>3, <3>4, <2>4, AbsentInBounds DEF Builds
    <3>6. turn.built /\ turn.request = Request(input, config)
      BY <3>5, <2>1 DEF Remembered, ArenaNames, input, config
    <3>7. /\ Request(input, config).agent.id = AgentId(input, config)
          /\ Request(input, config).message.purpose = Purpose(input, config)
      BY RequestShape
    <3> QED BY <3>6, <3>7, <3>2
  <2> QED BY <2>2, <2>5 DEF Remembered
<1> QED BY <1>1, AlwaysRemembered, PTL

\* A turn that leaves it to the configuration runs under the purpose that is
\* published, less its blanks (api.py service_descriptor, run-turn.mjs).
THEOREM DeploymentPurposeIsPublished == DeploymentSpec => []PurposeIsPublished
<1>1. Remembered => PurposeIsPublished
  <2> DEFINE e == service.env
             config == BridgeConfig(e)
             v == e["SHAREDOS_PURPOSE"]
  <2> SUFFICES ASSUME Remembered, Running, turn # NULL, turn.built, LeavesToConfig(turn.input),
                      turn.env = e, v = Absent \/ Text(v) # Blank
               PROVE  turn.request.message.purpose = Strip[PublishedPurpose(e)]
    BY DEF PurposeIsPublished
  <2>1. Builds(turn.input, config) /\ turn.request = Request(turn.input, config)
    BY DEF Remembered
  <2>2. turn.request.message.purpose = Purpose(turn.input, config)
    BY <2>1, RequestShape
  <2>3. Purpose(turn.input, config) = Text(config.purpose) /\ Text(config.purpose) # Blank
    <3>1. Purpose(turn.input, config) = Text(config.purpose)
      BY DEF LeavesToConfig, Purpose, Or
    <3> QED BY <3>1, <2>1 DEF Builds
  <2>4. config.purpose = Or(Text(v), DefaultPurpose)
    BY DEF BridgeConfig
  <2>5. v \in Values \cup {Absent}
    BY Known DEF Remembered, Running, ArenaNames
  <2>6. PublishedPurpose(e) = IF v = Absent THEN DefaultPurpose ELSE v
    BY DEF PublishedPurpose
  <2> HIDE DEF v, config, e
  <2>7. CASE v = Absent
    BY <2>2, <2>3, <2>4, <2>6, <2>7 DEF Text, Or
  <2>8. CASE v # Absent
    <3>1. Text(v) = Strip[v] /\ Strip[v] \in Values /\ Strip[Strip[v]] = Strip[v]
      BY <2>5, <2>8, ValueAssumption DEF Text
    <3>2. config.purpose = Strip[v] /\ Strip[v] # Absent
      BY <3>1, <2>4, <2>8, ValueAssumption DEF Or, v
    <3> QED BY <3>1, <3>2, <2>2, <2>3, <2>6, <2>8 DEF Text
  <2> QED BY <2>7, <2>8
<1> QED BY <1>1, AlwaysRemembered, PTL

\* A candidate that is there is chosen (api.py _resolve_web_index).
LEMMA ChosenIndexIsThere ==
  ASSUME NEW e, NEW files, Installed = "editable", "web/index.html" \in files
  PROVE  WebIndex(e, files) \in files
<1> DEFINE paths == Candidates(e)
           there == {i \in DOMAIN paths : paths[i] \in files}
           least(i) == i \in there /\ \A j \in there : i <= j
<1>1. \E i \in there : \A j \in there : i <= j
  <2>1. CASE Text(e["SENTINEL_WEB_INDEX"]) = Blank
    <3>1. DOMAIN paths = 1..2 /\ paths[2] = "web/index.html"
      BY <2>1 DEF Candidates, IndexBelow
    <3> HIDE DEF paths
    <3>2. 2 \in there /\ there \subseteq {1, 2}
      BY <3>1
    <3> HIDE DEF there
    <3> QED BY <3>2
  <2>2. CASE Text(e["SENTINEL_WEB_INDEX"]) # Blank
    <3>1. DOMAIN paths = 1..3 /\ paths[3] = "web/index.html"
      BY <2>2 DEF Candidates, IndexBelow
    <3> HIDE DEF paths
    <3>2. 3 \in there /\ there \subseteq {1, 2, 3}
      BY <3>1
    <3> HIDE DEF there
    <3> QED BY <3>2
  <2> QED BY <2>1, <2>2
<1> DEFINE chosen == CHOOSE i \in there : \A j \in there : i <= j
<1>2. chosen \in there
  <2> HIDE DEF there
  <2> QED BY <1>1
<1>3. WebIndex(e, files) = paths[chosen]
  BY <1>1 DEF WebIndex
<1>4. paths[chosen] \in files
  <2> HIDE DEF paths, chosen
  <2> QED BY <1>2
<1> QED BY <1>3, <1>4

\* A dashboard preflight found is served from there on
\* (api.py _resolve_web_index and dashboard).
THEOREM DeploymentDashboardIsServed == DeploymentSpec => []GreenServesDashboard
<1>1. Remembered => GreenServesDashboard
  <2> SUFFICES ASSUME Remembered, Running, Green, tree = report.tree, service.tree = tree
               PROVE  DashboardServed
    BY DEF GreenServesDashboard
  <2>1. StaticFiles \subseteq RootFiles(tree)
    BY GreenMeans
  <2>2. "web/index.html" \in RootFiles(tree)
    BY <2>1 DEF StaticFiles
  <2>3. Installed = "editable" /\ "web/index.html" \in tree.files
    BY <2>2 DEF RootFiles
  <2>4. service.web_index = WebIndex(service.env, tree.files)
    BY DEF Remembered, Running
  <2> QED BY <2>3, <2>4, ChosenIndexIsThere DEF DashboardServed
<1> QED BY <1>1, AlwaysRemembered, PTL
=============================================================================
