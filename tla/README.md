# CargoMesh in TLA+

TLA+ specifications of the parts of CargoMesh whose correctness depends on the
order of events: planning under changing routes and credentials, the idempotent
submission and the durable transaction workflow behind it, the private-runner
registry and task store, bookings and their verification, the attended human
channel, the AI-repair pipeline, the control plane, and the stores around them.
TLC checks them on small instances; TLAPS proves every safety property the
passing runs check, and the refinement of `TransactionOutcome`, for every value of
the constants. Only liveness stays with TLC.

Paths below are relative to `src/src/cargomesh/`; `docs/` stands for
`src/docs/architecture/`. `PROJECT.json` maps every definition to its lines.

## 1. The system

CargoMesh turns a logistics request into an execution plan and carries the plan
out against carriers: *Request → Compile → Approve → Execute → Verify →
Complete / Review / Halt*.

| part | state it keeps | operations | who it talks to |
|---|---|---|---|
| `api/`, `application/compile.py` | none | HTTP routes, compile | control plane, transaction service |
| `application/transactions.py` | none | submit, approve, cancel, status | idempotency store, Temporal |
| `runtime/idempotency.py` | one row per (tenant, key): digest, transaction id, RESERVED / STARTED / START_FAILED | reserve, mark_started, mark_start_failed, get | its SQLite file |
| `runtime/temporal.py`, `state_machine.py`, `models.py` | the status, the completed steps, decisions, cancellation flag, route attempts and results of one run | run, approve, cancel, snapshot | adapter and verification activities |
| `runtime/adapters.py`, `worker.py` | none | the activity around an adapter | adapters, credentials, routing outcomes |
| `runtime/planner.py`, `policy.py`, `policy/` | none | choice of a plan, of approval and risk | routing, credentials, OPA |
| `adapters/`, `booking/` | the synthetic carrier's bookings by external reference | execute, compensate, collect evidence | carriers (HTTP, browser) |
| `verification/` | stored evidence | collect, decide, store | evidence sources |
| `routing/` | outcomes per route, circuit state | record, snapshot, choose | planner |
| `runner/registry.py` | challenges, runners and their health | issue, enrol, heartbeat, revoke, authorise | task store |
| `runner/task_store.py` | tasks with state, lease, fencing token, heartbeat, receipt | enqueue, acquire, renew, heartbeat, complete | runners, registry |
| `runner/artifacts.py`, `release.py`, `security.py` | artifact receipts | relay, verify | task store |
| `channels/human.py` | attended tasks with owner, lease, fence, outcome | create, claim, complete, get | operators |
| `channels/edi.py`, `ingestion.py`, `planner.py` | none | parse, ingest, compile | scanner |
| `repair/budget.py` | reservations and charges per repair job | reserve, finalize, get | sandbox |
| `repair/sandbox.py` | none | generate_and_validate | ledger, model, gates |
| `repair/lifecycle.py` | append-only transition chain per request | append; generated, validated, proposed, approved, canary, promote | canary executor, deployment |
| `controlplane/` | audit chains, memberships, key cache | append, verify, authenticate, authorise | every service |
| `credentials/` | revisioned bindings; secrets in memory | put, replace, lease, close | planner, adapters |
| `platform/` | backups, usage rows, listings | backup, restore, meter, publish | operators |
| `factory/` | files | capture, build, run the TCK | repair |
| `ir/`, `mapping/`, `standards/` | none | conversion, code lists | compile |

What is hard here, by component (the full list, line by line, with the
properties that answer it, is `hazards` in `PROJECT.json`):

* **workflow** - signals and timers interleave with activities; an attempt may
  have its effect and still fail, or have it after it was given up; compensation
  may fail half way. Correct means: nothing consequential without its approval,
  no blind repetition or undoing of an effect nobody can confirm, undoing in
  reverse order, and a terminal status that tells the truth.
* **submission** - several callers with one key, lost acknowledgements, dying
  processes. Correct means: one workflow per key, with the request the key was
  first bound to.
* **task store** - runners that fall silent and return late. Correct means: one
  holder per fencing token, the last holder's receipt, no second effect.
* **booking and verification** - requests and answers that are lost or late, two
  transactions under one external reference, collectors that fail and are
  retried. Correct means: an error that is reported as definite left nothing
  behind, an accepted booking is this request's, and a verdict rests on evidence
  that is fresh, independent, and of this transaction.
* **planning** - outcomes are stored late and out of order while routes are
  read one by one; bindings are replaced between the moment they are frozen and
  the moment they are used. Correct means: the circuit follows the order of
  occurrence, no history stops planning, and what runs is what was decided on.
* **control plane** - memberships and keys change across a request's awaits, and
  a request may stop half way. Correct means: every effect was allowed and is in
  an audit chain that verifies.
* **attended tasks, usage, artifacts, backup, ingestion** - look-ups and writes
  that are separate steps, repeated calls, dying processes.
* **repair** - concurrent attempts against one budget, and a chain of stages
  whose external calls happen between two appends.

## 2. Modules and code

| module | code | what it is |
|---|---|---|
| `ExecutionStatus` | `runtime/state_machine.py`, `runtime/models.py` | statuses, the transition table; a forbidden transition yields `INVALID` |
| `TransactionWorkflow` | `runtime/temporal.py` | one run of the workflow and the world its activities act on |
| `TransactionOutcome` | - | the abstract promise: writes in plan order, undone in reverse, an honest outcome |
| `Submission` | `application/transactions.py`, `runtime/idempotency.py`, gateway of `runtime/temporal.py` | concurrent submissions |
| `Routing` | `routing/store.py`, `engine.py`, `models.py` | outcomes, health, circuit breaker; scores and ranking as operators |
| `Planning` | `runtime/planner.py`, `runtime/policy.py`, `policy/`, `credentials/store.py`, `runtime/adapters.py` | extends `Routing`; from a command to a frozen plan and the bindings its attempts resolve |
| `Verification` | `verification/engine.py`, `store.py`, `activities.py`, `models.py` | the verify activity, its evidence table and its verdict |
| `Booking` | `booking/`, `runtime/adapters.py`, `credentials/lease.py` | extends `Verification`; adapter, carrier, ledger, network and secret leases |
| `RunnerRegistry` | `runner/registry.py` | enrolment, health, revocation |
| `RunnerTasks` | `runner/task_store.py`, `runner/tasks.py` | extends `RunnerRegistry`; the store and its runners |
| `ArtifactRelay` | `runner/artifacts.py` | policy, sink and receipt of a runner's artifacts |
| `AttendedTasks` | `channels/human.py` | the attended task table, creators and operators |
| `Ingestion` | `channels/ingestion.py` | the walk over a message and its quarantine |
| `ControlPlane` | `api/main.py`, `controlplane/` | protected requests, key cache, memberships, audit chains |
| `UsageMeter` | `platform/usage.py` | usage rows |
| `Backup` | `platform/backup.py` | backups and restores racing for paths |
| `RepairBudget` | `repair/budget.py` | the ledger's transactions as operators |
| `RepairSandbox` | `repair/sandbox.py` | extends `RepairBudget`; attempts in flight |
| `RepairLifecycle` | `repair/lifecycle.py` | the chain, its callers, canary and deployment |
| `Submission_proofs`, `RunnerTasks_proofs`, `TransactionWorkflow_proofs`, `ControlPlane_proofs` | - | theorems about the module they are named after |
| `Booking_proofs` | - | theorems about `Verification` and `Booking` |
| `Planning_proofs` | - | theorems about `Planning` |
| `Repair_proofs` | - | theorems about `RepairBudget`, `RepairSandbox` and `RepairLifecycle` |
| `Services_proofs` | - | theorems about `AttendedTasks`, `UsageMeter`, `ArtifactRelay`, `Backup` and `Ingestion` |
| `MC...` | - | instances for TLC |

**Granularity.** A Temporal workflow is single threaded, so an action of
`TransactionWorkflow` is all the code from one `await` to the next; the same holds
for a request in `ControlPlane`, which awaits the key endpoint and the transaction
service. A store method is one `BEGIN IMMEDIATE` transaction and therefore one
action (an error rolls back, and changes nothing); where a caller makes several
such calls, or calls something external in between, each is an action and other
callers come in between. Three places look first and write later in the code, and
do so in the model: `human.create`, the artifact receipts, and a backup's
destination (where `O_EXCL` decides). An attended claim or completion reads the
clock before it gets the database, so in the model it acts on the present or any
earlier time. In `Planning` a candidate's health, a
binding and a policy's decision are read in steps of their own, as the planner
reads them.

**State.**

* `TransactionWorkflow`: `pc` names the await the coroutine is suspended in;
  `status`, `failure`, `current`, `awaiting`, `report` and the route attempts are
  the fields of the snapshot; `queue` and `requested` are the locals of
  `_finish_with_compensation`; the effect of every step outside is kept
  alongside, where the code cannot see it.
* `Submission`: `rows` is the table, `workflows` is Temporal's view, `pc`,
  `request`, `held` and `answer` belong to a call.
* `RunnerTasks`: `tasks` is the table; `leases` are lease documents in runners'
  hands, old ones included; `announced`, `cleared` and `effects` record how far a
  runner went past the effect boundary.
* `Routing`, `Planning`: `outcomes` is the table in its order of arrival,
  `pending` holds outcomes that have their time and not yet their row; `plan` is
  the plan in the making, then frozen; `store` is the table of bindings and
  `writer` what each writer holds as current.
* `Verification`, `Booking`: `receipts` is the evidence table, `verifying` the
  attempt in progress, `reports` the results; `bookings` is the carrier's table
  and its ledger, `wire` and `answers` the network in either direction, `call`
  and `comp` the adapter's submit and compensation, `leases` the open secrets.
  `call.phase` is where the adapter is and `call.code` what the workflow was told:
  an activity that timed out has been given up and may still be running.
* `ControlPlane`: `members` and `audit` are tables, `keys` the cache against what
  the issuer has `published`, `req` the requests in flight, `effects` what they did.
* `RepairLifecycle`: `chain` is the table, `deployed` the package in service,
  `decisions` the canary decisions callers hold.

Variables whose comment says *history* are not in the code. They remember what
callers were told or what happened outside, and no guard reads them.

**Data.** Digests, ids, error codes and payloads are model values, and a digest
is the thing it is a digest of. Booking inputs keep the fields whose mapping
decides something: contract, quotation, its extension, the spelling. Usage
counters are any set of fields. Success rates, scores and latencies keep their
integer arithmetic (basis points or parts per million, rounding down). Time is a
bounded counter.

**Late effects.** An attempt that Temporal gave up may still take effect if
`LateEffects` is TRUE (`LateWorkflowNext`). `WorkflowSafety` leaves this out, for
the reason given in section 5; `Liveness` has it.

**Faults.** `XFault` next to `X` (and `CheckLeaseUnfenced`) is `X` with one
plausible mistake. Each shows that a property would notice it; none is used by a
specification.

## 3. Runs

Bounds are in the `.cfg` files. `CHECK_DEADLOCK FALSE` stands wherever the
number of calls or the clock is bounded and the system may simply have nothing
left to do; `WorkflowSafety` checks deadlock, a closed run being allowed to stay
closed.

Some runs hold several components that **share no state**. Their specification is
a sum: a variable (`service` in `MCServices`, `focus` in `MCBooking` and
`MCAdmission`, `about` in `MCLiveness` and `MCRepair`) is chosen at the start, and
the behaviour is about that component while the others stand still. Nothing is
lost, since no step of one is seen by another; the property of each component is
checked over all the behaviours of that component.

| run | instance | shows |
|---|---|---|
| `WorkflowSafety` | every plan of 1-2 steps over 6 step kinds (read with fallback, reversible with and without a reference, consequential with and without compensation or timeout, unknown effect), verified and reconciled plans, three plans of three steps; 2 decisions, 2 error codes, no late effects | `NoInvalidTransition`, `ApprovedBeforeCall`, `UnknownEffectLeftAlone`, `FallbackIsSafe`, and refinement of `TransactionOutcome` (`ImplementsOutcome`): writes in plan order, undone in reverse, an honest terminal status |
| `TasksSafety` | 2 runners with 2 enrolment challenges, 1 task, 2 results, lease of 2 in a clock of 4 | `ReceiptFromHolder`, `PostEffectNotRetried`, `EffectAtMostOnce` |
| `Liveness` | a plan with a timed approval, one with an untimed one, late effects; 2 tasks with deadlines and 1 runner; with fairness | `CancelCloses`, `TimedPlansClose`, `QueuedTaskSettles` |
| `RepairSafety` | 3 attempts, 2 ids, 3 requests of 2 jobs, 2 budgets, a ledger that may be unavailable; 2 callers at once with 3 candidates of which one failed validation | `BudgetRespected`, `FailedIsCharged`, `ReleaseIsJustified` |
| `BookingSafety` | 2 transactions under one external reference, 5 inputs of which two mean the same request and two are refused, 2 secrets, activities that time out, adapters that break and workers that are lost at any point, 2 attempts of the verification, a clock of 2; and any plan of up to two collectors over 17 observations that differ in origin, time or content | `DefiniteFailureHasNoEffect`, `AcceptedIsThisRequest`, `CompensatedIsCancelled`, `VerifiedMeansBooked`, `SecretsReleased`, `VerifiedOnEvidence`, `OneContentPerEvidence` |
| `AdmissionSafety` | 3 submissions, 2 keys, 2 digests; or 5 routes for 2 capabilities, 3 outcomes in any order, 3 routing policies (one whose window is smaller than its sample minimum), 4 commands; or 4 policy rules or a remote policy, 2 writers of 5 bindings | `OneWorkflowPerKey`, `AcceptedIsRunning`; `CircuitFollowsOccurrence`, `HistoryNeverBlocksPlanning`, `RankingRespectsDominance`, `PolicyPlanFreezes`, `AttemptsAreCovered`, `RevisionHasOneContent` |
| `ServicesSafety` | 2 requests of 3 workloads over 2 tenants, 2 memberships, a rotating key; 1 attended task with 3 creators and 2 operators that may act on an earlier reading of the clock; 3 usage reports; 3 relays; 3 backup calls on 2 paths; messages of up to 3 leaves in any order, 2 attachments allowed, and messages beyond each limit | `EffectsAreAuthorized`, `ReportedIsDurable`, `ChainsVerify`, `PublishedKeyIsFound`; `LastHolderDecides`, `AcknowledgedIsStored`; `ChargedOnce`; `ReceiptsAgree`; `ManifestsHold`; `AcceptedIsScanned` |

Why these bounds are enough to be interesting:

* two steps give every pairing of a completed write with a failure after it,
  three give compensation an order and a middle;
* three calls on a key are needed for one to fail between two others' steps, and
  with two keys the third may be on the other one;
* two leases of one task in a clock of four give expiry, recovery, a second
  holder and the first one's return; two runners give a challenge a loser;
* two transactions under one reference give a replay, a conflict, and a booking
  that belongs to the other; a clock of two passes the age of 1 by which evidence
  is stale; two attempts give a verification that is repeated after it stored;
* three outcomes and a window and threshold of two give a failure that is pushed
  out of the window, one stored after the success that followed it, and a circuit
  that cools down; when the planner starts one of them at most is not yet stored, and it
  arrives before, between or after the two reads of health; two writers give a
  predecessor read twice;
* two requests in two tenants interleave on the audit table; two key sets rotate
  in either direction; three backup calls give two that race and one that restores;
* two requests of one job and a third of another give conflict and independence;
  two sound candidates are needed to mix proposals up, and two callers for one to
  deploy between the other's check and its append;
* two attachments in one message, with other leaves between, before and after them,
  are needed for a verdict to be taken for another's and for their order to matter.

The following properties of the modules are **proved rather than run**, for every
instance: the type invariants of `Submission` and `RunnerTasks`,
`OneHolderPerToken`, `FencingMonotone`, `ResultIsFinal`, `PresentedLeaseNotNewer`,
`OneRunnerPerChallenge`, `RevocationIsFinal`, `SignalsHaveTarget`,
`OnlyRacesFail`, `BindingIsFinal`, `WorkflowTypeOK` and `ReservedBeforeUse`.

Five runs are expected to be **violated**: each states what a document of the
repository says and shows how the code departs from it.

| run | property | what happens |
|---|---|---|
| `SubmissionRace` | `AcknowledgedIsStarted` | two callers start one reservation; the one that fails first makes the row START_FAILED and the acknowledged one's `mark_started` is refused (`docs/board-2-implementation-contract.md:85`). A retry repairs it. |
| `TasksReordering` | `PostEffectNotRetried` | `heartbeat` stores whichever report arrives last; a pre-effect report that arrives after the post-effect one makes the expired task retryable (`docs/board-8-implementation-contract.md:61`). |
| `LifecycleSubject` | `DeployedWasApproved` | `canary` and `promote` never compare their proposal with the one the chain approved (`docs/board-12-acceptance.md:24`). |
| `RepairReplay` | `OneCallPerReservation` | look-up and reservation of an attempt are two transactions (`repair/sandbox.py:195`) and an equal reservation is returned rather than refused (`repair/budget.py:133`): two calls with one id both use the model under one reservation, where `docs/board-12-acceptance.md:15` says that replay is rejected. |
| `BookingUnknown` | `UnknownEffectReconciled` | a submit whose effect is unknown has no execution source (`runtime/temporal.py:249`), without a source the evidence is L0 (`verification/engine.py:184`), and a matching ledger observation ends HALTED, where `docs/board-9-implementation-contract.md:61` says it may be VERIFIED. |

### Fairness

Only `Liveness` assumes any.

* A transaction: weak fairness of `Progress`, the disjunction of timers, activity
  results and the workflow's own steps. Temporal's timers are durable, activities
  have a start-to-close timeout and a bounded number of attempts, and a worker
  polls the queue. Nothing is assumed of operators: a signal need never come, so
  a plan with an untimed approval may wait for ever unless cancelled.
* A task: weak fairness of the clock and of polling, that is, of the part of
  `acquire` that finds the oldest queued task past its deadline and expires it.
  Nothing is assumed of the runner that holds a lease, and nothing of `recover`
  (`task_store.py:326`): it is an operation of its own which nothing in the
  repository calls periodically, so a task whose lease ran out may stay leased, and
  `QueuedTaskSettles` promises nothing of it.

## 4. Proofs

Every theorem holds for any size of the sets and any value of the bounds. What is
assumed of the constants is named in the module that declares them, and TLC
evaluates it on the runs of that module: bounds are naturals, leases last, `None` (or `Absent`,
`NoFile`) is not a row (`AbsentAssumption`, `RegistryNone`, `TasksNone`,
`VerificationNone`, `BookingNone`, `ControlNone`, `AttendedAbsent`, `BudgetNone`,
`CallNone`, `RoutingNone`, ...), a request asks for a resource that has a tenant
(`ControlAssumption`), a message's parts are numbered (`IngestionAssumption`), and
rules, routing policies, candidates, outcomes and commands are those the models'
validators let through (`RulesAssumption`, `PoliciesAssumption`,
`CandidatesAssumption`, `AttemptsAssumption`, `CommandsAssumption`).

Some theorems have a hypothesis of their own, explained below:

* `UnknownEffectsStay` and `SafeUnderLateEffects`: no adapter declares one of the
  workflow's own codes an unknown effect (`CodesApart`);
* `EffectInvariance`, `PostEffectSafe` and `AtMostOnce`: a runner's reports arrive
  in order (`Reordering = FALSE`);
* `VerdictsRestOnEvidence`: observations carry a time (`Timed`). It and
  `EvidenceIsImmutable` are about any plans, execution sources, observations and
  error codes; `BookingVerdictsRestOnEvidence` is about the booking's own.

The specifications are safety specifications: initial predicate and next-state
relation, no fairness. `Planning_proofs` takes the union of all the module's
actions, so that outcomes arrive, routes are read, decisions collected and
bindings replaced in one behaviour; the run looks at the two halves separately.

**`Submission_proofs`.** The inductive invariant `IInv` strengthens the
properties by what a call remembers: `HeldIsBound` (a reservation in hand agrees
with its row), `RowOwnsItsId` (a row's transaction id is the id of a call that
used this key, so two keys cannot share a workflow), `AcknowledgedRuns` (after an
acknowledgement the workflow exists with the held digest), `AnswerIsLast`,
`StartedIsClean` and `FailedRowHasLoser` (a START_FAILED row has a call that
failed it). Without `HeldIsBound` the step that starts a workflow could start it
with another digest; without `FailedRowHasLoser` a refused `mark_started` would
need no culprit. From `Invariance`: `TypeCorrect`, `AtMostOneWorkflow`,
`AcceptedRuns`, `SignalsArrive`, `RacesOnly`, and the action property
`BindingFinal`.

**`RunnerTasks_proofs`.** `FencingInv` (types, complete leases, one holder per
token, receipts from the holder) is inductive. `ExpiryInv` adds that no lease
outlives the clock by more than the lease time, which is what makes a renewal
never shorten the stored lease (`PresentedNotNewer`). `EffectInv` is the heart
of at-most-once: a runner cleared to go past the effect boundary leaves a row
that still has its token and, while leased, a post-effect heartbeat, so recovery
cannot queue it. It needs reports to arrive in order (`Reordering = FALSE`),
and `TasksReordering` shows that the assumption is needed. From these:
`TypeCorrect`, `OneHolder`, `LeasesComplete`, `ReceiptOfHolder`,
`PresentedNotNewer`, `PostEffectSafe`, `AtMostOnce`, and the action properties
`TokensGrow` and `ResultsFinal`. For the registry, `RegistryInv` (types and
one-time challenges) is inductive by itself and gives `OneTimeTokens`;
`RevocationsFinal` needs only the types.

**`TransactionWorkflow_proofs`.** Plans of any length. `BaseInv` is the type
invariant with `ControlInv`, which ties the await the coroutine is suspended in to
the status and to the loop counters; it gives `WorkflowTypes` and
`TransitionsValid`, because it leaves only rows of the transition table to try.
Four invariants stand on it. `CallsInv` (no step ahead of the loop has been
called) gives `ApprovalGuardsCalls`. `UnknownInv` (no failure code before the
run closes or reconciles, nothing compensated before compensation) gives
`UnknownEffectsStay`, for adapters that do not declare one of the workflow's own
codes an unknown effect. `RouteInv` (what the latest route attempt was, seen
from inside the loop) gives `FallbacksAreSafe`. `EffectInv` says where external
effects can be: all completed writes are in place until compensation begins, and
from then on what can still be undone is in its queue. With it `RefinesOutcome`
shows that each step of the workflow is a step of `TransactionOutcome` or leaves
its state alone; that the queue has a greatest step, by well-foundedness, is what
makes undoing go in reverse. The same invariant gives the outcome as a statement
about states, `ClosedRunsAreHonest`: what a closed run reported is true of the
outside world and stays true. `CompletedStepsAreFinal` is an action property: a
completed step keeps its output and is not called again. Effects that come late
are left out of these, as in the run (section 5); but `SafeUnderLateEffects`
shows that transitions, approvals, fallbacks and unknown effects do not depend
on that, because a late effect changes nothing the workflow reads.

**`Booking_proofs`.** `EvidenceInv` says that the observations an attempt has kept
are stored, finite in number and of its own transaction, and that a report is the
engine's evaluation of exactly these; `VerdictsRestOnEvidence` then follows from
what the engine computes, for any collectors whose observations carry a time: of a
verified transaction every claim is confirmed by fresh and independent evidence,
and no such evidence contradicts one.
`EvidenceIsImmutable` is inductive as it stands. For the carrier, a transaction has one POST,
and `PostState` lists what the carrier can have done by where it is: not sent, on
the wire, answered with 202, with 400, otherwise, or lost. This is what makes
`DefiniteFailuresAreHarmless` hold although answers get lost: once the POST is out,
only a 400 ends in a definite code, and a 400 means that this POST stored nothing.
What the workflow was told is kept apart from where the adapter is. A timeout
reports `activity_failed` while the adapter goes on, so that code is not definite,
nor is `adapter_internal`, which an exception of the adapter ends in; of every other
code the invariant knows that the activity is over. `RowInv`
(a stored request is never replaced) gives `AcceptedRequestsMatch`; `CancelInv`
gives `CompensationIsFinal`, a create never reviving a row; `LeaseInv` gives
`LeasesAreClosed`; `SourceInv` (only a submit that succeeded has an execution
source) gives `VerifiedBookingsExist`. `BookingVerdictsRestOnEvidence` carries
the first two theorems over to the booking's own collectors.

**`ControlPlane_proofs`.** `ChainInv` states a chain without recursion: sequence
numbers are exactly 1..n, no two rows share one, and a row's `previous` is the
digest of the row before; appending at n+1 keeps this, and `verify_chain` accepts
it (`AuditChainsVerify`). The action property `ChainsOnlyExtend` follows: a new row is
the next of its tenant and carries the digest of the last, so that what an auditor
has verified stays a prefix. `AuthInv` reads the audit by a request's phase: an event
id is the request and the phase, so before the decision there is no row of it,
and after it there is one that cannot be replaced; this gives
`MutationsAreAuthorized` and `SuccessIsOnRecord`. `KeyInv` keeps, per request,
the keys published ever since it began: they are in whatever the endpoint answered
it, so that the reload refuses none of them (`ValidKeysAreFound`).

**`Services_proofs`.** `ChargedOnce` and the receipts' key are inductive almost
as they stand. `OwnerInv` gives a backup or restore sole ownership of its path
from its exclusive creation to its end, apart from every path a manifest names:
hence `BackupsStayIntact`. `LeaseInv` numbers the leases of an attended task, all
but the last of which have run out (a claim that acts on an older time finds fewer
leases run out, and is only the more cautious): `LastHolderAlwaysDecides` and, with the
acknowledgements themselves, `AcknowledgementsAreKept`. `WalkInv` says that the
parts before the walk's position have been dealt with
(`AcceptedMessagesAreScanned`).

**`Repair_proofs`.** `SandboxInv` has a row behind every call that went past its
reservation (`Backed`), and says of every finalized row that it was settled at all it
had reserved or by a call that succeeded (`Settled`). Without the second, a call
that fails could find its row lowered by nobody. It gives `ModelCallsAreReserved` and
`FailuresArePaidFor`, also where settling the failure failed and the row stayed
RESERVED. The budget is a sum over the
rows of a job. The module first proves that the library's fold over a finite set
satisfies its own equation, and that a sum does not depend on the order in which
elements are picked, both by a set of least size for which it would fail; then
that a sum grows by what is added and shrinks by what is lowered (`SumAdd`,
`SumLowered`); `BudgetsAreRespected` follows from `reserve`'s comparison. The action
property `LedgerGoesForward` adds that rows stay, that a settlement is final and that
it never charges more than was reserved. `LifeInv`
reads off the end of a chain which states it passed (`Prior`) and gives
`ReleasesAreJustified` for any number of callers. What the end of the chain says
about the package in service is another matter (section 5).

**`Planning_proofs`.** `RevisionInv` says that the stored revision is the latest
of its key, which makes the compare-and-set of `replace` enough
(`RevisionsHaveOneContent`). For a plan in the making, the decisions collected of
each kind are about exactly the attempts `Ahead` of the cursor (the ones it has
already passed), in the plan's order; when the cursor is past the last step they
are therefore the plan's attempts, flattened, which is what `validate_plan`
compares (`PlansCanBeFrozen`). To reason about the library's `FlattenSeq` it is
unfolded into prefixes of the plan (`Flat`, `Prefix`, `PrefixStep`). A frozen plan
has for every attempt that got a binding a decision that lets it pass, and under
the embedded rules this is the effect of the first matching rule, which exists
because priorities and ids are naturals (`AttemptsRunOnDecisions`). TLC cannot
evaluate `PlanInv`, because the unfolding is an unbounded CHOOSE.

The routing engine's half stands on `HistoryInv`, which TLC also checks: no two
stored outcomes share an event, and each route of a plan carries the outcomes
stored when its health was read, the window replayed from them, and the
decision `select_route` takes on the snapshot of that window. The rest is about
what the code computes, for every history:

* A sort is a list of the whole set, in order (`RankingIsList`, `RankingOrders`). The number of
  elements before an element differs from element to element and is below the size of
  the set, so every place is taken once; no induction over the list is needed. Hence
  a window is the newest outcomes by occurrence (`ReplayIsNewest`).
* Of a non-empty window the run of failures and the 95th percentile exist
  (`StreakExists`, `PercentileExists`), and the counts add up to its length
  (`CountsAddUp`). So a snapshot passes `validate_counts`; with bounds on each
  score (`SuccessBound`, `InverseBound`, `WeightedMean`) so do the evaluations and
  the decision: `HistoriesAreAccepted`.
* A circuit is open when the window starts with a threshold of failures, and these
  are then the latest outcomes of all (`OpenHasFailures`); conversely the latest
  outcomes, if they failed, are what the window starts with, when it is wide
  enough (`FailuresComeFirst`): `CircuitsFollowOccurrence`.
* Every rounded quotient of the engine grows with its numerator and every score
  with what it scores, so a candidate at least as good in each respect has at
  least the score, and the priority decides a tie: `BetterRoutesComeFirst`.

The proof of the last found a first wording of `RankingRespectsDominance` false:
it compared latencies as recorded, but an observed percentile of 0 is read as
none and replaced by the profile's latency (section 5). It takes twenty outcomes
of one candidate for this to change an order, more than the run records.

**Only model-checked.**

* `CancelCloses`, `TimedPlansClose`, `QueuedTaskSettles`: liveness under fairness
  is beyond the prover.

## 5. Observations

Met while translating. Those of the first group contradict a document of the
repository and can be reproduced with the modules; they are not among the runs.

* An attempt given up at its timeout may take effect after its compensation; the
  run is then COMPENSATED with an effect outstanding
  (`docs/board-2-acceptance.md:44`). With `LateEffects = TRUE`
  and `LateWorkflowNext`, `ImplementsOutcome` fails for that reason. No workflow code could know. A
  booking is compensated only after its submit ended ok, and then it is not exposed
  to this: the carrier answers a create after a cancellation with the cancelled
  booking, and `CompensatedIsCancelled` holds.
* A compensation whose external reference is missing ends the loop
  (`runtime/temporal.py:404`); earlier writes' compensations are not attempted,
  though `docs/board-2-implementation-contract.md:48` says they are. The status is
  HALTED, so nothing is claimed falsely.
* A retried verification reads the ledger at another time, so its evidence has
  another content under the same id and conflicts with what the first attempt
  stored (`booking/evidence.py:182-191`, `verification/store.py:107`;
  `docs/board-4-implementation-contract.md:136-137` expects a replay).
* A read, approve or cancel whose look-up of the transaction raises, and a create
  with a bad idempotency key or a compilation error, leave no outcome in the
  audit chain (`api/main.py`; `docs/board-6-implementation-contract.md:147`).

Others:

* Only `booking_effect_unknown` is declared an unknown effect
  (`booking/planner.py:80`). An activity that timed out or lost its worker
  (`activity_failed`) and an adapter that broke (`adapter_internal`) may have
  booked all the same, but the run goes to compensation, which has no reference to
  cancel by (`runtime/temporal.py:406`), and ends HALTED without reconciliation.
  `DefiniteFailureHasNoEffect` therefore speaks of the other codes.
* `promote` checks the chain, calls the deployment, then appends
  (`lifecycle.py:504-519`), and nothing serialises callers. One promotion may roll
  back and the other's deployment call come later: the chain says rolled back and
  the candidate is in service. It was approved and passed its canary, which is all
  that `ReleaseIsJustified` says, and no document promises that chain and
  deployment agree.
* A sandbox call that fails settles its reservation at once, and an error of the
  ledger while it does so is dropped (`sandbox.py:229-232`): the row stays RESERVED,
  still charged with all it reserved.
* A withdrawn signing key stays accepted until something makes the cache refresh
  (`controlplane/authentication.py:76`).
* `MembershipStore.replace` by id reads the current row before its transaction
  (`controlplane/membership.py:170`).
* `backup` reads `user_version` before it copies (`platform/backup.py:125`): a
  manifest made during a migration can never be restored.
* `acquire` takes the oldest candidate; a runner that may not have it gets
  nothing even when a later task would suit it (`task_store.py:163-166`,
  `194-195`).
* renew, heartbeat and complete do not ask whether the runner has been revoked; a
  revoked runner finishes the lease it has.
* `acquire` authorises against the registry's database and leases in its own: a
  revocation in between is not seen.
* `complete` checks expiry against the runner's own `completed_at` when it is
  given no clock (`task_store.py:291`).
* VERIFYING has no exit in the task store.
* `awaiting_approval_step_id` stays set when compensation returns early.
* a decision that conflicts for one step stops the whole execution.
* a step with an unknown effect may end VERIFIED though later steps never ran:
  the verdict is about the effect, not about the plan.
* a caller that dies during the canary leaves the chain in CANARY for good.
* two equal `human.create` calls that race: the second gets "unavailable".
* an attempt that crashes leaves its reservation RESERVED and charged, which is
  the conservative side.
* `RoutingPolicy` bounds its window, its sample minimum and its failure threshold
  one by one (`routing/models.py:204-206`). With a window smaller than either of
  the other two the circuit of a route never opens, whatever its outcomes;
  `CircuitFollowsOccurrence` says exactly this, and one policy of `AdmissionSafety`
  is of that kind.
* an observed 95th percentile of 0 ms counts as no observation: the engine takes the
  profile's latency instead (`routing/engine.py:136`, `health.p95_latency_ms or
  candidate.expected_latency_ms`), so a route can score worse for being faster.
  `RankingRespectsDominance` is worded accordingly.
* `UnknownEffectLeftAlone` reads the reported failure code, and an adapter's
  manifest may declare any code an unknown effect, `cancelled` too: such a run
  could not be told from a cancelled one. The theorem says so with its hypothesis
  `CodesApart`.
* a verification report does not name its tenant, so the meter takes the tenant
  from its caller.

## 6. Not modelled, and the plan

* `ir/`, `mapping/`, `standards/`: conversion of data, one answer per input; their
  only effect on the models is that a command is well formed or refused.
* `channels/edi.py`: parsing and rendering of segments, character by character.
* `channels/planner.py`: validation and compilation of given steps into a plan,
  pure and sequential.
* `runner/release.py`, `runner/security.py`, `repair/models.py`: validation of
  documents.
* `platform/deployment.py`, `marketplace.py`, `supplychain.py`, `telemetry.py`:
  validation and redaction, pure functions of one input.
* `adapters/`: HTTP and browser I/O behind the boundary that `TransactionWorkflow`
  and `Booking` model; nothing is kept between two calls.
* `factory/`: writes files and runs other programs.
* The registries, settings and the construction of workers and services are wiring.

HTTP, browser and model calls are external everywhere: the models say only what
they may answer. Temporal's durability is taken as given, and SQLite's
transactions as serialisable. Character-level checks (headers, digests' syntax,
token claims) are abstracted to passed or failed.

Next, in this order:

1. Composition of `Submission` with `TransactionWorkflow`: signals and status
   end to end.
2. What a late effect can leave behind: a history of the attempts given up would let
   `TransactionOutcome` say which steps a closed run may be wrong about.
