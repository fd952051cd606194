-------------------------------- MODULE Planning -------------------------------
(***************************************************************************)
(* From a command to a frozen plan: the planners (runtime/planner.py), the *)
(* policy applied to every attempt (runtime/policy.py, policy/), and the   *)
(* credential bindings (credentials/store.py), frozen as digests and       *)
(* resolved when an attempt runs (runtime/adapters.py).                    *)
(*                                                                         *)
(* One command is planned while outcomes are recorded and bindings are     *)
(* replaced.  A planner reads each candidate's health in a query of its    *)
(* own, and apply_execution_policy reads a binding before it awaits the    *)
(* policy, so those are separate actions.  A binding is its own digest.    *)
(***************************************************************************)
EXTENDS Routing, Integers

CONSTANTS
  Commands,        \* capabilities asked for, risk, data class and level
  Policies,        \* routing policies
  StaticBindings,  \* CapabilityBinding (or None) of a capability
  Rules,           \* the rules of the policy set
  Bindings,        \* credential bindings that writers may bring
  Writers          \* callers of put and replace

VARIABLES
  plan,            \* the plan in the making, then frozen
  store,           \* table credential_bindings, by adapter and capability
  writer,          \* per writer: the binding it holds as current
  stored,          \* history: bindings that put or replace reported stored
  invoked          \* the attempt invoked last, with the binding resolved

planningVars == <<plan, store, writer, stored, invoked>>

(* PolicyRule and PolicySet.                                                *)
MaxPriority == 1000000

ValidRules(rules) ==
  /\ \A rule \in rules : /\ rule.id \in Nat /\ rule.priority \in -MaxPriority..MaxPriority
                          /\ rule.effect \in {"ALLOW", "DENY", "REQUIRE_APPROVAL"}
  /\ \A rule, other \in rules : rule.id = other.id => rule = other

ASSUME PoliciesAssumption == \A policy \in Policies : ValidPolicy(policy)

ASSUME RulesAssumption == ValidRules(Rules)

ASSUME CommandsAssumption ==
  \A command \in Commands : /\ command.capabilities \in Seq(DOMAIN StaticBindings)
                             /\ command.capabilities # <<>>

ASSUME BindingsAssumption == \A b \in Bindings : b # None /\ b.revision \in Nat

ASSUME ProvidersAssumption == None \notin {"embedded", "opa"}

BindingKeys == {b.key : b \in Bindings}

PlanningInit ==
  /\ RoutingInit
  /\ plan = [phase |-> "new"]
  /\ store = [k \in BindingKeys |-> None]
  /\ writer = [w \in Writers |-> None]
  /\ stored = {}
  /\ invoked = None

(* A function that is also defined, or defined anew, at x.                  *)
With(f, x, y) == [z \in DOMAIN f \cup {x} |-> IF z = x THEN y ELSE f[z]]

Fail(code) == plan' = [phase |-> "failed", code |-> code]

-----------------------------------------------------------------------------
(* The planners.                                                            *)

Kinds == {"primary", "fallback", "compensation"}

Attempt(step, kind, route, adapter, capability, risk) ==
  [step |-> step, kind |-> kind, route |-> route, adapter |-> adapter,
   capability |-> capability, risk |-> risk]

RouteAttempt(step, kind, c, capability, risk) ==
  Attempt(step, kind, c, Profile[c].adapter, capability, risk)

Built(command, steps) ==
  plan' = [phase |-> "built", command |-> command, steps |-> steps, routed |-> <<>>]

(* StaticExecutionPlanner.build: one binding per capability.                *)
StaticStep(i, capability, risk) ==
  LET binding == StaticBindings[capability] IN
  [primary |-> Attempt(i, "primary", binding.adapter, binding.adapter, capability, risk),
   fallbacks |-> <<>>, approval |-> binding.approval, compensation |-> <<>>]

StaticBuild(command) ==
  LET capabilities == command.capabilities IN
  /\ plan.phase = "new"
  /\ IF \E i \in 1..Len(capabilities) : StaticBindings[capabilities[i]] = None
     THEN Fail("capability_not_available")
     ELSE Built(command,
       [i \in 1..Len(capabilities) |-> StaticStep(i, capabilities[i], command.risk)])
  /\ UNCHANGED <<store, writer, stored, invoked, routingVars>>

(* SyntheticBookingPlanner.build: a draft, then the submit step that an     *)
(* approval opens and a cancellation undoes.                                *)
BookingBuild(command) ==
  LET api == "synthetic.booking.api"
      draft == Attempt(1, "primary", "synthetic.booking.draft", "synthetic.booking.draft",
                       "booking.draft.prepare", 0)
      submit == Attempt(2, "primary", api, api, "booking.submit", 2)
      cancel == Attempt(2, "compensation", api, api, "booking.cancel", 1)
  IN /\ plan.phase = "new"
     /\ IF command.type # "booking.create" THEN Fail("planning_failed")
        ELSE Built(command,
          <<[primary |-> draft, fallbacks |-> <<>>, approval |-> FALSE, compensation |-> <<>>],
            [primary |-> submit, fallbacks |-> <<>>, approval |-> TRUE,
             compensation |-> <<cancel>>]>>)
     /\ UNCHANGED <<store, writer, stored, invoked, routingVars>>

(* OptimizingExecutionPlanner.build, capability by capability: the clock is *)
(* read, then each candidate's health, and the route is selected.  "table"  *)
(* is history: the outcomes there were when a candidate's health was read.  *)
RoutedBuild(command, policy) ==
  /\ plan.phase = "new"
  /\ plan' = [phase |-> "clock", command |-> command, policy |-> policy,
              steps |-> <<>>, routed |-> <<>>]
  /\ UNCHANGED <<store, writer, stored, invoked, routingVars>>

Capability == plan.command.capabilities[Len(plan.steps) + 1]

ReadClock ==
  /\ plan.phase = "clock"
  /\ plan' = [phase |-> "health", command |-> plan.command, policy |-> plan.policy,
              steps |-> plan.steps, routed |-> plan.routed, at |-> now,
              rows |-> [c \in {} |-> <<>>], table |-> [c \in {} |-> {}]]
  /\ UNCHANGED <<store, writer, stored, invoked, routingVars>>

Offering == {c \in Candidates : Profile[c].capability = Capability}

ReadHealth(c) ==
  /\ plan.phase = "health"
  /\ c \in Offering \ DOMAIN plan.rows /\ \A d \in Offering \ DOMAIN plan.rows : c <= d
  /\ LET rows == Replay(c, plan.policy.window) IN
     IF ValidSnapshot(HealthSnapshot(rows, plan.policy, plan.at), plan.at)
     THEN plan' = [plan EXCEPT !.rows = With(plan.rows, c, rows),
                               !.table = With(plan.table, c, Recorded(c))]
     ELSE Fail("invalid_route_model")
  /\ UNCHANGED <<store, writer, stored, invoked, routingVars>>

RoutedStep(i, command, capability, decision) ==
  LET chosen == Head(decision.ranked) IN
  [primary |-> RouteAttempt(i, "primary", chosen, capability, command.risk),
   fallbacks |-> [k \in 1..Len(decision.fallbacks) |->
                    RouteAttempt(i, "fallback", decision.fallbacks[k], capability, command.risk)],
   approval |-> Profile[chosen].approval, compensation |-> <<>>]

Select ==
  LET i == Len(plan.steps) + 1
      command == plan.command
      health == [c \in DOMAIN plan.rows |-> HealthSnapshot(plan.rows[c], plan.policy, plan.at)]
      decision == SelectRoute(command, plan.policy, health)
      step == RoutedStep(i, command, Capability, decision)
      routed == Append(plan.routed, [policy |-> plan.policy, at |-> plan.at, rows |-> plan.rows,
                                     table |-> plan.table, decision |-> decision])
      last == i = Len(command.capabilities)
  IN /\ plan.phase = "health" /\ DOMAIN plan.rows = Offering
     /\ IF \E c \in Offering : ~ValidEvaluation(c, plan.policy, health[c])
        THEN Fail("invalid_route_model")
        ELSE IF decision.ranked = <<>> THEN Fail("no_eligible_route")
        ELSE IF ~ValidDecision(decision) THEN Fail("invalid_route_model")
        ELSE plan' = [phase |-> IF last THEN "built" ELSE "clock", command |-> command,
                      policy |-> plan.policy, steps |-> Append(plan.steps, step),
                      routed |-> routed]
     /\ UNCHANGED <<store, writer, stored, invoked, routingVars>>

-----------------------------------------------------------------------------
(* apply_execution_policy.                                                  *)

Matches(rule, attempt) ==
  \A f \in DOMAIN rule.select : rule.select[f] = {} \/ attempt[f] \in rule.select[f]

(* EmbeddedPolicyEvaluator.evaluate: the first rule that matches, by        *)
(* priority and then by id.                                                 *)
EvaluatePolicy(attempt) ==
  LET matching == {r \in Rules : Matches(r, attempt)}
      First(r) == \A q \in matching :
        r.priority < q.priority \/ (r.priority = q.priority /\ r.id <= q.id)
  IN IF matching = {} THEN "DENY" ELSE (CHOOSE r \in matching : First(r)).effect

(* The attempts of a step in the order in which they are evaluated.         *)
Part(kind, step) ==
  IF kind = "primary" THEN <<step.primary>>
  ELSE IF kind = "fallback" THEN step.fallbacks ELSE step.compensation

Routes(step) == Part("primary", step) \o Part("fallback", step) \o Part("compensation", step)

AllAttempts(steps) == UNION {Range(Routes(steps[i])) : i \in 1..Len(steps)}

(* Without a policy provider the plan is used as it was built.              *)
SkipPolicy ==
  /\ plan.phase = "built"
  /\ plan' = [phase |-> "frozen", command |-> plan.command, steps |-> plan.steps,
              routed |-> plan.routed, provider |-> None,
              digest |-> [a \in AllAttempts(plan.steps) |-> None],
              decisions |-> <<>>]
  /\ UNCHANGED <<store, writer, stored, invoked, routingVars>>

(* Step by step and route by route; the decisions are kept by kind.         *)
BeginPolicy(provider) ==
  /\ plan.phase = "built"
  /\ plan' = [phase |-> "binding", provider |-> provider, command |-> plan.command, steps |-> plan.steps,
              routed |-> plan.routed, digest |-> [a \in {} |-> None], step |-> 1, route |-> 1,
              made |-> [kind \in Kinds |-> <<>>]]
  /\ UNCHANGED <<store, writer, stored, invoked, routingVars>>

Current == Routes(plan.steps[plan.step])[plan.route]
Key(attempt) == <<attempt.adapter, attempt.capability>>
Held(attempt) == IF Key(attempt) \in BindingKeys THEN store[Key(attempt)] ELSE None

(* _binding_digest, before the policy is asked.                             *)
ReadBinding ==
  /\ plan.phase = "binding" /\ plan.step <= Len(plan.steps)
  /\ plan' = [plan EXCEPT !.phase = "asking", !.digest = With(plan.digest, Current, Held(Current))]
  /\ UNCHANGED <<store, writer, stored, invoked, routingVars>>

ReadBindingFails ==
  /\ plan.phase = "binding" /\ plan.step <= Len(plan.steps)
  /\ Fail("credential_directory_unavailable")
  /\ UNCHANGED <<store, writer, stored, invoked, routingVars>>

(* The current attempt is decided on, and the next one is in turn.          *)
Decided(effect) ==
  LET last == plan.route = Len(Routes(plan.steps[plan.step]))
      decision == [attempt |-> Current, effect |-> effect]
      kind == Current.kind
  IN [plan EXCEPT !.phase = "binding",
                  !.made = [plan.made EXCEPT ![kind] = Append(plan.made[kind], decision)],
                  !.step = IF last THEN plan.step + 1 ELSE plan.step,
                  !.route = IF last THEN 1 ELSE plan.route + 1]

(* _evaluate_attempt with the embedded rules, or with whatever an OPA       *)
(* endpoint decides; a compensation has to be allowed outright.             *)
PolicyAnswers(effect) ==
  /\ plan.phase = "asking"
  /\ \/ plan.provider = "embedded" /\ effect = EvaluatePolicy(Current)
     \/ plan.provider = "opa" /\ effect \in {"ALLOW", "REQUIRE_APPROVAL", "DENY"}
  /\ IF effect = "DENY" THEN Fail("policy_denied")
     ELSE IF effect = "REQUIRE_APPROVAL" /\ Current.kind = "compensation"
     THEN Fail("compensation_approval_unsupported")
     ELSE plan' = Decided(effect)
  /\ UNCHANGED <<store, writer, stored, invoked, routingVars>>

(* Every failure of a provider denies.                                      *)
PolicyUnavailable ==
  /\ plan.phase = "asking"
  /\ Fail("policy_unavailable")
  /\ UNCHANGED <<store, writer, stored, invoked, routingVars>>

(* Primaries, then fallbacks, then compensations.                           *)
Grouped(made) == made["primary"] \o made["fallback"] \o made["compensation"]

(* Fault: only the primary attempt's decision opens the approval.           *)
NeedsApprovalFault(step, i, decisions) ==
  \/ step.approval
  \/ \E d \in Range(decisions) :
       d.attempt.step = i /\ d.effect = "REQUIRE_APPROVAL" /\ d.attempt.kind = "primary"

NeedsApproval(step, i, decisions) ==
  \/ step.approval
  \/ \E d \in Range(decisions) : d.attempt.step = i /\ d.effect = "REQUIRE_APPROVAL"

(* validate_plan collects them in this order from the steps.                *)
Planned(kind, steps) == FlattenSeq([i \in 1..Len(steps) |-> Part(kind, steps[i])])

PlannedAttempts(steps) ==
  Planned("primary", steps) \o Planned("fallback", steps) \o Planned("compensation", steps)

(* validate_plan: the frozen decisions are those of the plan's attempts, in *)
(* its own order, and what they require is in the steps.                    *)
ValidFrozen(steps, decisions) ==
  LET attempts == PlannedAttempts(steps)
  IN /\ Len(attempts) = Len(decisions)
     /\ \A k \in 1..Len(attempts) :
          /\ decisions[k].attempt = attempts[k]
          /\ decisions[k].effect # "DENY"
          /\ decisions[k].effect = "REQUIRE_APPROVAL" =>
               attempts[k].kind # "compensation" /\ steps[attempts[k].step].approval

Approved(steps, decisions) ==
  [i \in 1..Len(steps) |-> [steps[i] EXCEPT !.approval = NeedsApproval(steps[i], i, decisions)]]

Freeze ==
  LET decisions == Grouped(plan.made)
      steps == Approved(plan.steps, decisions)
  IN /\ plan.phase = "binding" /\ plan.step > Len(plan.steps)
     /\ IF ValidFrozen(steps, decisions)
        THEN plan' = [phase |-> "frozen", command |-> plan.command, steps |-> steps,
                      routed |-> plan.routed, provider |-> plan.provider,
                      digest |-> plan.digest, decisions |-> decisions]
        ELSE Fail("policy_plan_invalid")
     /\ UNCHANGED <<store, writer, stored, invoked, routingVars>>

-----------------------------------------------------------------------------
(* Credential bindings.                                                     *)

(* A writer looks a binding up to issue its successor.                      *)
GetBinding(w, key) ==
  /\ store[key] # None
  /\ writer' = [writer EXCEPT ![w] = store[key]]
  /\ UNCHANGED <<plan, store, stored, invoked, routingVars>>

(* put, also as provision: only the first one and its replays are accepted. *)
PutBinding(b) ==
  /\ b \in Bindings
  /\ store[b.key] \in {None, b}
  /\ store' = [store EXCEPT ![b.key] = b]
  /\ stored' = stored \cup {b}
  /\ UNCHANGED <<plan, writer, invoked, routingVars>>

(* Fault: a replacement may carry the revision it replaces.                 *)
AdvancesFault(new, old) == new.revision \in {old.revision, old.revision + 1}

Advances(new, old) == new.revision = old.revision + 1

(* replace, with the successor of what the writer has seen.                 *)
ReplaceBinding(w, b) ==
  /\ writer[w] # None /\ b \in Bindings
  /\ b.key = writer[w].key /\ b.revision = writer[w].revision + 1
  /\ store[b.key] # None /\ Advances(b, store[b.key])
  /\ store' = [store EXCEPT ![b.key] = b]
  /\ stored' = stored \cup {b}
  /\ writer' = [writer EXCEPT ![w] = None]
  /\ UNCHANGED <<plan, invoked, routingVars>>

(* Fault: whatever is bound now is resolved.                                *)
ResolvableFault(digest, binding) == binding # None

Resolvable(digest, binding) == binding = digest

(* _invoke: an attempt planned without a binding runs without secrets, one  *)
(* planned with a binding only if that binding is the one still held.       *)
Invoke(attempt) ==
  LET digest == plan.digest[attempt]
      binding == Held(attempt)
  IN /\ plan.phase = "frozen" /\ attempt \in DOMAIN plan.digest
     /\ digest # None => Resolvable(digest, binding)
     /\ invoked' = [attempt |-> attempt, secrets |-> IF digest = None THEN None ELSE binding]
     /\ UNCHANGED <<plan, store, writer, stored, routingVars>>

-----------------------------------------------------------------------------
RoutingNext ==
  /\ UNCHANGED planningVars
  /\ \/ \E a \in Attempts, shared \in BOOLEAN : IssueOutcome(a, shared)
     \/ \E o \in pending : AppendOutcome(o) \/ AppendFails(o)
     \/ Tick

BuildNext ==
  \/ \E command \in Commands : StaticBuild(command) \/ BookingBuild(command)
  \/ \E command \in Commands, policy \in Policies : RoutedBuild(command, policy)
  \/ ReadClock
  \/ \E c \in Candidates : ReadHealth(c)
  \/ Select

PolicyNext ==
  \/ SkipPolicy
  \/ \E provider \in {"embedded", "opa"} : BeginPolicy(provider)
  \/ ReadBinding
  \/ ReadBindingFails
  \/ \E effect \in {"ALLOW", "REQUIRE_APPROVAL", "DENY"} : PolicyAnswers(effect)
  \/ PolicyUnavailable
  \/ Freeze

BindingNext ==
  \/ \E w \in Writers, key \in BindingKeys : GetBinding(w, key)
  \/ \E b \in Bindings : PutBinding(b)
  \/ \E w \in Writers, b \in Bindings : ReplaceBinding(w, b)
  \/ plan.phase = "frozen" /\ \E a \in DOMAIN plan.digest : Invoke(a)

-----------------------------------------------------------------------------
(* A candidate is shut out by its circuit exactly when, of the outcomes     *)
(* recorded when its health was read, the latest ones by the time they      *)
(* happened all failed, as many as the threshold asks for, and the last of  *)
(* them is not yet a cooldown old: outcomes stored late neither open a      *)
(* circuit that a later success keeps closed nor hide the failures that     *)
(* open it (routing/store.py, replay and health_snapshot).  This is said of *)
(* a policy whose window holds the samples and the failures it asks for; a  *)
(* smaller window, which RoutingPolicy accepts, keeps every circuit closed. *)
CircuitFollowsOccurrence ==
  plan.phase \in {"built", "frozen"} =>
    \A i \in 1..Len(plan.routed) :
      LET r == plan.routed[i] IN
      \A c \in DOMAIN r.rows :
        LET rows == r.table[c]
            Failing(S) == \A o \in S : o.kind # "success"
            Latest(S) == \A o \in S, p \in rows \ S :
              p.at < o.at \/ (p.at = o.at /\ p.event < o.event)
            open == /\ Cardinality(rows) >= r.policy.minSamples
                    /\ \E S \in SUBSET rows :
                         /\ Cardinality(S) = r.policy.threshold /\ Failing(S) /\ Latest(S)
                         /\ \E o \in S : o.at + r.policy.cooldown > r.at
            wide == r.policy.window >= r.policy.minSamples /\ r.policy.window >= r.policy.threshold
        IN ("circuit_open" \in r.decision.reasons[c]) <=> (wide /\ open)

(* What the store derives and the engine computes is always accepted by the *)
(* models that carry it, so that no history of outcomes makes planning fail *)
(* (validate_counts, validate_evaluation, the bounds of their fields).      *)
HistoryNeverBlocksPlanning ==
  plan.phase = "failed" => plan.code # "invalid_route_model"

(* Of two candidates the policy accepts, one that has done at least as well *)
(* in every respect and has the better static priority is ranked first,     *)
(* whatever the weights and the rounding of the scores (select_route).  As  *)
(* well in latency: every latency of the one is at most every one of the    *)
(* other, a latency of 0 counting as the profile's; or no latency is 0 and  *)
(* within each limit the one has finished as many attempts as the other.    *)
RankingRespectsDominance ==
  plan.phase \in {"built", "frozen"} =>
    \A i \in 1..Len(plan.routed) :
      LET r == plan.routed[i]
          Wins(c) == Cardinality({o \in Range(r.rows[c]) : o.kind = "success"})
          Latencies(c) == {o.latency : o \in Range(r.rows[c])}
          Assumed(c) == IF r.rows[c] = <<>> \/ 0 \in Latencies(c) THEN {Profile[c].latency} ELSE {}
          Within(c, limit) == Cardinality({o \in Range(r.rows[c]) : o.latency <= limit})
          Faster(c, d) ==
            \/ \A x \in (Latencies(c) \ {0}) \cup Assumed(c),
                  y \in (Latencies(d) \ {0}) \cup Assumed(d) : x <= y
            \/ /\ Assumed(c) \cup Assumed(d) = {}
               /\ \A limit \in Latencies(d) : Within(c, limit) >= Within(d, limit)
          Better(c, d) ==
            /\ Profile[c].success >= Profile[d].success /\ Profile[c].weight = Profile[d].weight
            /\ Len(r.rows[c]) = Len(r.rows[d]) /\ Wins(c) >= Wins(d)
            /\ Faster(c, d)
            /\ Profile[c].cost <= Profile[d].cost /\ Profile[c].priority < Profile[d].priority
      IN \A j, k \in 1..Len(r.decision.ranked) :
           Better(r.decision.ranked[j], r.decision.ranked[k]) => j < k

(* A plan whose attempts the policy lets through can always be frozen: the  *)
(* decisions collected attempt by attempt are the ones validate_plan looks  *)
(* for, and an approval that any of a step's routes needs is in the step    *)
(* (runtime/policy.py, apply_execution_policy).                             *)
PolicyPlanFreezes ==
  plan.phase = "failed" => plan.code # "policy_plan_invalid"

(* An attempt runs with the secrets that were bound when its policy was     *)
(* asked, or with none if there were none; under a policy it ran on a       *)
(* decision of its own that does not deny it, with the step's approval      *)
(* where one was required; under the embedded rules some rule lets it pass  *)
(* that no better-placed rule forbids.                                      *)
AttemptsAreCovered ==
  invoked # None =>
    LET a == invoked.attempt
        own == {d \in Range(plan.decisions) : d.attempt = a}
        Covers(r) == \A f \in DOMAIN r.select : a[f] \in r.select[f] \/ r.select[f] = {}
    IN /\ invoked.secrets = plan.digest[a]
       /\ plan.provider # None =>
            \E d \in own :
              /\ d.effect \in {"ALLOW", "REQUIRE_APPROVAL"}
              /\ d.effect = "REQUIRE_APPROVAL" => plan.steps[a.step].approval
       /\ plan.provider = "embedded" =>
            \E r \in Rules :
              /\ Covers(r) /\ r.effect # "DENY"
              /\ \A q \in Rules : Covers(q) /\ q.effect = "DENY" => q.priority >= r.priority

(* One revision of a binding never has two contents: of two writers that    *)
(* replace the same revision, one is told that it conflicts                 *)
(* (credentials/store.py, replace).                                         *)
RevisionHasOneContent ==
  \A a, b \in stored : a.key = b.key /\ a.revision = b.revision => a = b
=============================================================================
