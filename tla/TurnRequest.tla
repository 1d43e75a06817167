---------------------------- MODULE TurnRequest ----------------------------
(***************************************************************************)
(* The request the SharedOS bridge makes of a turn's input and of what is  *)
(* configured (sharedos/src/request.mjs).  Where the code throws there is  *)
(* no request.                                                             *)
(*                                                                         *)
(* Blank is the empty text.  Strip stands for Python's strip and           *)
(* JavaScript's trim, which differ on a few control characters.            *)
(***************************************************************************)
EXTENDS Integers

CONSTANTS
  Strip, Blank,
  Absent,        \* a field that is undefined, or a variable that is not set
  FreshId        \* what crypto.randomUUID returns

\* JavaScript's || : text of blanks is not the empty text
Or(value, otherwise) == IF value \in {Absent, Blank} THEN otherwise ELSE value

Text(value) == IF value = Absent THEN Blank ELSE Strip[value]

AgentId(input, config) == Text(Or(input.agentId, config.agentId))
Purpose(input, config) == Text(Or(input.purpose, config.purpose))

\* validatePrincipal returns; the id goes by the name its kind gives it
IsPrincipal(value) ==
  /\ value.kind \in {"human", "agent", "group", "service"}
  /\ Text(value.id) # Blank

Validated(value) == [kind |-> value.kind, id |-> Strip[value.id]]

TargetAgent(input, config) == [kind |-> "agent", id |-> AgentId(input, config)]
Receiver(input, config) == Or(input.receiver, TargetAgent(input, config))

\* boundedInt returns; what is no integer is not in any range
InBounds(value, min, max) == value = Absent \/ value \in min..max
BoundedInt(value, fallback) == IF value = Absent THEN fallback ELSE value

\* A bug a rewrite could bring in: any principal may receive the turn.
BuildsForAnyReceiver(input, config) ==
  /\ AgentId(input, config) # Blank /\ Purpose(input, config) # Blank
  /\ input.sender # Absent /\ IsPrincipal(input.sender) /\ IsPrincipal(Receiver(input, config))
  /\ InBounds(input.maxSteps, 1, 16)
  /\ InBounds(input.maxToolCalls, 1, 32)
  /\ InBounds(input.timeoutMs, 1000, 290000)

\* buildTurnRequest returns
Builds(input, config) ==
  /\ AgentId(input, config) # Blank /\ Purpose(input, config) # Blank
  /\ input.sender # Absent /\ IsPrincipal(input.sender) /\ IsPrincipal(Receiver(input, config))
  /\ Validated(Receiver(input, config)) = TargetAgent(input, config)
  /\ InBounds(input.maxSteps, 1, 16)
  /\ InBounds(input.maxToolCalls, 1, 32)
  /\ InBounds(input.timeoutMs, 1000, 290000)

Request(input, config) ==
  [agent       |-> TargetAgent(input, config),
   executionId |-> Text(Or(input.executionId, FreshId)),
   message     |-> [sender   |-> Validated(input.sender),
                    receiver |-> Validated(Receiver(input, config)),
                    purpose  |-> Purpose(input, config)],
   options     |-> [maxSteps     |-> BoundedInt(input.maxSteps, 6),
                    maxToolCalls |-> BoundedInt(input.maxToolCalls, 8),
                    timeoutMs    |-> BoundedInt(input.timeoutMs, 150000)]]
=============================================================================
