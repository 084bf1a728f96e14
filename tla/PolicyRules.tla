----------------------------- MODULE PolicyRules -----------------------------
(***************************************************************************)
(* policy/models.py and policy/evaluator.py: independently managed layers, *)
(* the effective policy that intersects them and the decision about one    *)
(* action.  Names of routes, action types and field classes are opaque,    *)
(* and the words of a target's description are reduced to the strongest    *)
(* list they match.  The origin is one more allowlist of the same shape as *)
(* the routes and is left out.                                             *)
(*                                                                         *)
(* A layer is [routes, actions, ceiling, forbidden].  A context is         *)
(* [principal, owner, mode, route, kind, words, registered, declared,      *)
(* field]; registered may be absent.                                       *)
(***************************************************************************)
EXTENDS Naturals

CONSTANT None

RISK_RANK == [read_only |-> 0, reversible |-> 1, sensitive |-> 2, irreversible |-> 3]
Risks == DOMAIN RISK_RANK

Worse(risk, other) == IF RISK_RANK[other] > RISK_RANK[risk] THEN other ELSE risk

\* What the runtime itself thinks of an action, whatever the proposal declares.
\* Words are those of the irreversible or the sensitive list, or None; a scroll
\* activates nothing and is not judged by its words.
InferredRisk(context) ==
  IF context.kind # "scroll" /\ context.words # None THEN context.words
  ELSE IF context.registered # None THEN context.registered
  ELSE IF context.kind \in {"type", "select"} THEN "reversible"
  ELSE "read_only"

EffectiveRisk(context) == Worse(context.declared, InferredRisk(context))

\* Mutant: an action type of any layer is allowed.
IntersectLoosely(layers) ==
  [routes    |-> {route \in UNION {layer.routes : layer \in layers} :
                    \A layer \in layers : route \in layer.routes},
   actions   |-> UNION {layer.actions : layer \in layers},
   ceiling   |-> CHOOSE risk \in {layer.ceiling : layer \in layers} :
                   \A layer \in layers : RISK_RANK[risk] <= RISK_RANK[layer.ceiling],
   forbidden |-> UNION {layer.forbidden : layer \in layers}]

\* EffectivePolicy.intersect, of at least one layer.
Intersect(layers) ==
  [routes    |-> {route \in UNION {layer.routes : layer \in layers} :
                    \A layer \in layers : route \in layer.routes},
   actions   |-> {kind \in UNION {layer.actions : layer \in layers} :
                    \A layer \in layers : kind \in layer.actions},
   ceiling   |-> CHOOSE risk \in {layer.ceiling : layer \in layers} :
                   \A layer \in layers : RISK_RANK[risk] <= RISK_RANK[layer.ceiling],
   forbidden |-> UNION {layer.forbidden : layer \in layers}]

LocationAllowed(policy, route) == route \in policy.routes

InControl(context) ==
  /\ context.owner = context.principal
  /\ context.principal # "automation" => context.mode = "human_control"

\* What the policy does not forbid outright.
Permitted(policy, context) ==
  /\ InControl(context)
  /\ LocationAllowed(policy, context.route)
  /\ context.kind \in policy.actions
  /\ context.field \notin policy.forbidden
  /\ EffectiveRisk(context) # "irreversible"
  /\ RISK_RANK[EffectiveRisk(context)] <= RISK_RANK[policy.ceiling]

Evaluate(policy, context) ==
  CASE ~Permitted(policy, context) -> "deny"
    [] Permitted(policy, context) /\ EffectiveRisk(context) = "sensitive" ->
         "require_human_approval"
    [] OTHER -> "allow"
==============================================================================
