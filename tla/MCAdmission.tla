------------------------------ MODULE MCAdmission ------------------------------
(***************************************************************************)
(* Three questions about a command on its way to a running workflow: the   *)
(* routes chosen over any history of outcomes, the plans frozen under any  *)
(* policy while bindings change, and the submissions of one idempotency    *)
(* key.  A behaviour is about one of them.                                 *)
(***************************************************************************)
EXTENDS Planning, Submission

VARIABLE focus

mcVars == <<focus, planningVars, routingVars, vars>>

Candidate(capability, adapter, success, cost, priority, approval, enabled) ==
  [capability |-> capability, adapter |-> adapter, channel |-> adapter, success |-> success,
   weight |-> 1, latency |-> 3, cost |-> cost, priority |-> priority, maxRisk |-> 1, maxData |-> 1,
   maxLevel |-> 2, approval |-> approval, enabled |-> enabled]

(* Two routes that differ in cost and priority for one capability; for      *)
(* another one that asks for approval, two that do not, one disabled.       *)
FiveRoutes ==
  1 :> Candidate("track", "api", 9000, 1, 1, FALSE, TRUE)
    @@ 2 :> Candidate("track", "browser", 9000, 1, 2, FALSE, TRUE)
    @@ 3 :> Candidate("quote", "api", 9000, 1, 1, TRUE, TRUE)
    @@ 4 :> Candidate("quote", "browser", 8000, 1, 1, FALSE, TRUE)
    @@ 5 :> Candidate("quote", "human", 8000, 2, 1, FALSE, FALSE)

Ending(c, kind, latency) == [candidate |-> c, kind |-> kind, latency |-> latency]

ThreeEndings ==
  {Ending(1, "success", 0), Ending(1, "retryable", 1), Ending(2, "terminal", 5)}

Command(type, capabilities, risk) ==
  [type |-> type, capabilities |-> capabilities, risk |-> risk, data |-> 1, level |-> 1]

FourCommands ==
  {Command("track", <<"track">>, 0), Command("track", <<"quote", "track">>, 0),
   Command("track", <<"quote">>, 1), Command("booking.create", <<"other">>, 2)}

PolicyOf(fallbacks, minSamples, window, approvalAt, denied) ==
  [channels |-> {"api", "browser", "human"}, allowed |-> {}, denied |-> denied, minSuccess |-> 2000,
   maxLatency |-> 6, maxCost |-> 2, maxRisk |-> 2, maxData |-> 2, minLevel |-> 0,
   approvalAt |-> approvalAt, minSamples |-> minSamples, window |-> window, threshold |-> 2, cooldown |-> 2,
   fallbacks |-> fallbacks,
   weights |-> [reliability |-> 60, latency |-> 25, cost |-> 15]]

(* The window of the last one is smaller than the samples it asks for.      *)
ThreePolicies == {PolicyOf(2, 2, 2, None, {}), PolicyOf(0, 0, 3, 1, {}), PolicyOf(1, 3, 1, None, {1})}

StaticTable ==
  "track" :> [adapter |-> "api", approval |-> FALSE]
    @@ "quote" :> [adapter |-> "human", approval |-> TRUE] @@ "other" :> None

Rule(id, priority, adapters, risks, effect) ==
  [id |-> id, priority |-> priority, select |-> [adapter |-> adapters, risk |-> risks],
   effect |-> effect]

FourRules ==
  {Rule(1, 1, {"human"}, {}, "DENY"), Rule(2, 2, {"browser"}, {}, "REQUIRE_APPROVAL"),
   Rule(3, 2, {}, {2}, "REQUIRE_APPROVAL"), Rule(4, 3, {}, {0, 1}, "ALLOW")}

ApiTrack == <<"api", "track">>
Cancel == <<"synthetic.booking.api", "booking.cancel">>

Bound(k, r, s) == [key |-> k, revision |-> r, secrets |-> s]

FewBindings ==
  {Bound(ApiTrack, 1, "x"), Bound(ApiTrack, 2, "x"), Bound(ApiTrack, 2, "y"), Bound(Cancel, 1, "x"),
   Bound(Cancel, 2, "y")}

(* Routes are asked for one capability.  While the planner reads the health *)
(* of its routes an outcome is still stored, or one more attempt ends; when *)
(* it has read them all it looks at nothing but what it has read.           *)
RoutesNext ==
  /\ plan.phase \notin {"built", "failed"}
  /\ \/ RoutingNext /\ plan.phase = "new"
     \/ /\ plan.phase = "health" /\ Offering \ DOMAIN plan.rows # {}
        /\ \/ \E o \in pending : AppendOutcome(o) /\ UNCHANGED planningVars
           \/ RoutingNext /\ pending = {} /\ Len(outcomes) < 2
     \/ /\ BuildNext
        /\ plan.phase = "new" =>
             /\ plan'.phase = "clock" /\ plan'.command.risk = 0 /\ Cardinality(pending) <= 1
             /\ Len(plan'.command.capabilities) = 1

(* Where submissions are not the subject, all calls submit the same request. *)
MCInit ==
  /\ focus \in {"routes", "policy", "submission"}
  /\ PlanningInit
  /\ Init
  /\ focus # "submission" => request = [c \in Calls |-> [key |-> 1, digest |-> 1]]

MCNext ==
  /\ UNCHANGED focus
  /\ \/ focus = "routes" /\ RoutesNext /\ UNCHANGED vars
     \/ focus = "policy" /\ (BuildNext \/ PolicyNext \/ BindingNext) /\ UNCHANGED vars
     \/ focus = "submission" /\ Next /\ UNCHANGED <<planningVars, routingVars>>

(* Calls are interchangeable, and so are writers.                           *)
Symmetry == Permutations(Calls) \cup Permutations(Writers)

MCSpec == MCInit /\ [][MCNext]_mcVars
=============================================================================
