------------------------------ MODULE ControlPlane -----------------------------
(***************************************************************************)
(* A protected request of the HTTP API from its token to its answer:       *)
(* api/main.py, controlplane/access.py, authentication.py,                 *)
(* authorization.py, membership.py and audit.py.                           *)
(*                                                                         *)
(* Requests are coroutines of one process and interleave where they await: *)
(* the key endpoint, the transaction service.  Between awaits a handler    *)
(* runs to its end.  Memberships and the keys the issuer publishes change  *)
(* meanwhile.  A subject stands for issuer, subject and principal type; a  *)
(* record's digest is its sequence number and its event.                   *)
(***************************************************************************)
EXTENDS Naturals, FiniteSets

CONSTANTS
  Requests,        \* requests, each with one token
  Workloads,       \* what they may ask for: action, subject, kid, resource of each
  TenantOf,        \* the tenant of a resource
  Existing,        \* resources the transaction service knows
  RoleActions,     \* ROLE_ACTIONS
  MembershipIds,
  OwnerOf,         \* the identity a membership id was issued for
  KeySets,         \* what the issuer may publish
  MaxRevision,     \* bound on the replacements of a membership
  None

VARIABLES
  published,       \* the issuer's signing keys
  keys, loaded,    \* HttpsJwksProvider's cache
  members,         \* table memberships, by id
  audit,           \* table audit_records
  req,             \* the requests
  effects          \* history: mutations made, with their request

controlVars == <<published, keys, loaded, members, audit, req, effects>>

Tenants == {TenantOf[x] : x \in DOMAIN TenantOf}
Roles == DOMAIN RoleActions

(* The calls of the workloads, and the audit records they can leave.        *)
Asked == {calls[r] : calls \in Workloads, r \in Requests}
AuditPhases == {"authorization", "outcome"}
AuditEvents ==
  [id: Requests \X AuditPhases, subject: {call.subject : call \in Asked},
   action: {call.action : call \in Asked}, resource: {call.resource : call \in Asked},
   phase: AuditPhases, result: {"ALLOWED", "DENIED", "ERROR"}]
AuditRows ==
  [tenant: Tenants, event: AuditEvents, sequence: Nat,
   previous: [sequence: Nat, event: AuditEvents] \cup {None}]

(* Every resource has a tenant, every membership one subject and tenant.    *)
ASSUME ControlAssumption ==
  /\ \A call \in Asked : call.resource \in DOMAIN TenantOf
  /\ \A m \in MembershipIds :
       OwnerOf[m] = [subject |-> OwnerOf[m].subject, tenant |-> OwnerOf[m].tenant]

ASSUME ControlNone == None \notin AuditRows \cup {"ok", "unknown_key"}

Tenant(r) == TenantOf[req[r].call.resource]

Fresh(call) ==
  [call |-> call, phase |-> "new", refresh |-> FALSE, reply |-> None, stable |-> {},
   held |-> {}, answer |-> None]

ControlInit ==
  /\ published \in KeySets
  /\ keys = {} /\ loaded = FALSE
  /\ members = [m \in MembershipIds |-> None]
  /\ audit = {}
  /\ \E calls \in Workloads : req = [r \in Requests |-> Fresh(calls[r])]
  /\ effects = {}

-----------------------------------------------------------------------------
(* The audit chain.                                                         *)

RowsOf(tenant) == {row \in audit : row.tenant = tenant}

(* Fault: the latest record of any tenant.                                  *)
LatestFault(tenant) ==
  IF audit = {} THEN None
  ELSE CHOOSE row \in audit : \A other \in audit : other.sequence <= row.sequence

Latest(tenant) ==
  IF RowsOf(tenant) = {} THEN None
  ELSE CHOOSE row \in RowsOf(tenant) : \A other \in RowsOf(tenant) : other.sequence <= row.sequence

Digest(row) == [sequence |-> row.sequence, event |-> row.event]

(* append: the tenant's chain with the event at its end; an event that is   *)
(* there already is not appended again.                                     *)
Appended(tenant, event) ==
  LET latest == Latest(tenant)
      row == [tenant |-> tenant, event |-> event,
              sequence |-> IF latest = None THEN 1 ELSE latest.sequence + 1,
              previous |-> IF latest = None THEN None ELSE Digest(latest)]
  IN IF \E old \in RowsOf(tenant) : old.event.id = event.id THEN audit ELSE audit \cup {row}

(* verify_chain.                                                            *)
VerifyChain(tenant) ==
  LET n == Cardinality(RowsOf(tenant))
      At(i) == CHOOSE row \in RowsOf(tenant) : row.sequence = i
  IN /\ {row.sequence : row \in RowsOf(tenant)} = 1..n
     /\ \A i \in 1..n : At(i).previous = IF i = 1 THEN None ELSE Digest(At(i - 1))

(* _write_audit's event.                                                    *)
Event(r, phase, result) ==
  [id |-> <<r, phase>>, subject |-> req[r].call.subject, action |-> req[r].call.action,
   resource |-> req[r].call.resource, phase |-> phase, result |-> result]

-----------------------------------------------------------------------------
(* Memberships.                                                             *)

Row(m, role, status, revision) ==
  [id |-> m, subject |-> OwnerOf[m].subject, tenant |-> OwnerOf[m].tenant,
   role |-> role, status |-> status, revision |-> revision]

RoleTaken(m, role) ==
  \E other \in MembershipIds \ {m} :
    members[other] # None /\ OwnerOf[other] = OwnerOf[m] /\ members[other].role = role

(* provision: the first row of a membership; its replay changes nothing and *)
(* another row is a conflict.                                               *)
Provision(m, role) ==
  /\ members[m] = None /\ ~RoleTaken(m, role)
  /\ members' = [members EXCEPT ![m] = Row(m, role, "ACTIVE", 1)]
  /\ UNCHANGED <<published, keys, loaded, audit, req, effects>>

(* replace: role and status become the caller's, which it may have read     *)
(* before somebody else's replacement; the store counts the revisions.      *)
Replace(m, role, status) ==
  /\ members[m] # None /\ members[m].revision < MaxRevision
  /\ ~RoleTaken(m, role)
  /\ members' = [members EXCEPT ![m] = Row(m, role, status, @.revision + 1)]
  /\ UNCHANGED <<published, keys, loaded, audit, req, effects>>

(* get_memberships: the rows of a caller in a tenant, of any status.        *)
Directory(subject, tenant) ==
  {m \in MembershipIds : members[m] # None /\ members[m].subject = subject
                           /\ members[m].tenant = tenant}

(* Fault: a suspended membership still counts.                              *)
MatchedFault(subject, tenant) == Directory(subject, tenant)

(* The memberships an authorization looks at.                               *)
Matched(subject, tenant) ==
  {m \in Directory(subject, tenant) : members[m].status = "ACTIVE"}

(* _evaluate_memberships.                                                   *)
Decide(r) ==
  LET matched == Matched(req[r].call.subject, Tenant(r))
  IN IF matched = {} THEN "tenant_membership_missing"
     ELSE IF \E m \in matched : req[r].call.action \in RoleActions[members[m].role] THEN "allowed"
     ELSE "action_not_permitted"

-----------------------------------------------------------------------------
(* Authentication.                                                          *)

(* History: the roles in which the caller is an active member.              *)
ActiveRoles(r) ==
  {members[m].role : m \in {n \in MembershipIds :
     members[n] # None /\ OwnerOf[n] = [subject |-> req[r].call.subject, tenant |-> Tenant(r)]
       /\ members[n].status = "ACTIVE"}}

Set(r, record) == req' = [req EXCEPT ![r] = record]
Answered(r, answer) == [req[r] EXCEPT !.phase = "done", !.answer = answer]

(* The issuer publishes other keys.                                         *)
Rotate(ks) ==
  /\ ks \in KeySets /\ ks # published
  /\ published' = ks
  /\ req' = [r \in Requests |-> [req[r] EXCEPT !.stable = @ \cap ks]]
  /\ UNCHANGED <<keys, loaded, members, audit, effects>>

(* Fault: an unknown key is looked up in the cache only.                    *)
RefreshableFault(r) == FALSE

(* _key_for asks once more for a key it did not find.                       *)
Refreshable(r) == ~req[r].refresh

(* What becomes of a request that has looked its key up in a cache.         *)
LookedUp(r, record, cache) ==
  Set(r, IF req[r].call.kid \in cache THEN [record EXCEPT !.phase = "authenticated", !.reply = None]
         ELSE IF Refreshable(r)
         THEN [record EXCEPT !.phase = "fetching", !.refresh = TRUE, !.reply = None]
         ELSE [record EXCEPT !.phase = "done", !.answer = "unknown_key", !.reply = None])

(* authenticate: the header's key, from the cache when there is one.        *)
Authenticate(r) ==
  LET begun == [req[r] EXCEPT !.stable = published] IN
  /\ req[r].phase = "new"
  /\ IF loaded THEN LookedUp(r, begun, keys) ELSE Set(r, [begun EXCEPT !.phase = "fetching"])
  /\ UNCHANGED <<published, keys, loaded, members, audit, effects>>

(* The endpoint answers with what is published; the answer travels.         *)
EndpointAnswers(r) ==
  /\ req[r].phase = "fetching" /\ req[r].reply = None
  /\ Set(r, [req[r] EXCEPT !.reply = published])
  /\ UNCHANGED <<published, keys, loaded, members, audit, effects>>

(* get_key after its fetch: the cache is replaced and looked at.            *)
KeysArrive(r) ==
  /\ req[r].phase = "fetching" /\ req[r].reply # None
  /\ keys' = req[r].reply /\ loaded' = TRUE
  /\ LookedUp(r, req[r], req[r].reply)
  /\ UNCHANGED <<published, members, audit, effects>>

(* Whatever goes wrong, the caller learns only that its credentials are     *)
(* refused: no usable bearer header or token header,                        *)
HeaderRejected(r) ==
  /\ req[r].phase = "new"
  /\ Set(r, Answered(r, "invalid_credentials"))
  /\ UNCHANGED <<published, keys, loaded, members, audit, effects>>

(* no usable key set from the endpoint, the cache staying as it is,         *)
KeysUnavailable(r) ==
  /\ req[r].phase = "fetching"
  /\ Set(r, [Answered(r, "invalid_credentials") EXCEPT !.reply = None])
  /\ UNCHANGED <<published, keys, loaded, members, audit, effects>>

(* or a signature or claims that do not hold.                               *)
ClaimsRejected(r) ==
  /\ req[r].phase = "authenticated"
  /\ Set(r, Answered(r, "invalid_credentials"))
  /\ UNCHANGED <<published, keys, loaded, members, audit, effects>>

-----------------------------------------------------------------------------
(* The handlers.                                                            *)

Mutates(r) == req[r].call.action # "read"

(* create_transaction compiles the payload; the other handlers get the      *)
(* transaction, to know its tenant.  Either may fail.                       *)
FindTenant(r) ==
  /\ req[r].phase = "authenticated"
  /\ Set(r, IF req[r].call.action = "create" \/ req[r].call.resource \in Existing
            THEN [req[r] EXCEPT !.phase = "scoped"] ELSE Answered(r, "transaction_not_found"))
  /\ UNCHANGED <<published, keys, loaded, members, audit, effects>>

FindTenantFails(r) ==
  /\ req[r].phase = "authenticated"
  /\ Set(r, Answered(r, IF req[r].call.action = "create" THEN "invalid_request"
                        ELSE "runtime_unavailable"))
  /\ UNCHANGED <<published, keys, loaded, members, audit, effects>>

(* What a refused caller is told.                                           *)
Refusal(decision) ==
  CASE decision = "membership_provider_error" -> "access_control_unavailable"
    [] decision = "tenant_membership_missing" -> "transaction_not_found"
    [] OTHER -> "authorization_denied"

(* require: the decision is recorded, and then it counts; a directory that  *)
(* is not available denies.  A read goes on to its outcome at once.         *)
Require(r) ==
  \E decision \in {Decide(r), "membership_provider_error"} :
    LET allowed == decision = "allowed"
        decided == [req[r] EXCEPT !.held = ActiveRoles(r)]
    IN /\ req[r].phase = "scoped"
       /\ audit' = Appended(Tenant(r), Event(r, "authorization", IF allowed THEN "ALLOWED" ELSE "DENIED"))
       /\ Set(r, IF allowed
                 THEN [decided EXCEPT !.phase = IF Mutates(r) THEN "granted" ELSE "succeeded"]
                 ELSE Answered(r, Refusal(decision)))
       /\ UNCHANGED <<published, keys, loaded, members, effects>>

(* The audit store is not available.                                        *)
RequireFails(r) ==
  /\ req[r].phase = "scoped"
  /\ Set(r, Answered(r, "audit_unavailable"))
  /\ UNCHANGED <<published, keys, loaded, members, audit, effects>>

Perform(r, action) ==
  /\ req[r].phase = "granted" /\ req[r].call.action = action
  /\ effects' = effects \cup {r}
  /\ Set(r, [req[r] EXCEPT !.phase = "succeeded"])
  /\ UNCHANGED <<published, keys, loaded, members, audit>>

CreateTransaction(r) == Perform(r, "create")

ApproveTransaction(r) == Perform(r, "approve")

CancelTransaction(r) == Perform(r, "cancel")

(* The service raises, before or after it had its effect.                   *)
PerformFails(r) ==
  /\ req[r].phase = "granted"
  /\ effects' \in {effects, effects \cup {r}}
  /\ Set(r, [req[r] EXCEPT !.phase = "failed"])
  /\ UNCHANGED <<published, keys, loaded, members, audit>>

(* Fault: the answer does not wait for the outcome's record.                *)
OutcomeRecordedFault(r, result) ==
  audit' \in {audit, Appended(Tenant(r), Event(r, "outcome", result))}

OutcomeRecorded(r, result) ==
  audit' = Appended(Tenant(r), Event(r, "outcome", result))

(* record_outcome, then the response.                                       *)
RecordOutcome(r) ==
  /\ req[r].phase \in {"succeeded", "failed"}
  /\ LET ok == req[r].phase = "succeeded" IN
     /\ OutcomeRecorded(r, IF ok THEN "ALLOWED" ELSE "ERROR")
     /\ Set(r, Answered(r, IF ok THEN "ok" ELSE "runtime_error"))
  /\ UNCHANGED <<published, keys, loaded, members, effects>>

RecordOutcomeFails(r) ==
  /\ req[r].phase \in {"succeeded", "failed"}
  /\ Set(r, Answered(r, "audit_unavailable"))
  /\ UNCHANGED <<published, keys, loaded, members, audit, effects>>

(* The process stops and starts again: the requests under way are lost, and *)
(* the cached keys.                                                         *)
Restart ==
  /\ \E r \in Requests : req[r].phase \notin {"new", "done"}
  /\ req' = [r \in Requests |->
       IF req[r].phase \in {"new", "done"} THEN req[r] ELSE Answered(r, None)]
  /\ keys' = {} /\ loaded' = FALSE
  /\ UNCHANGED <<published, members, audit, effects>>

HandlerNext(r) ==
  \/ Authenticate(r) \/ EndpointAnswers(r) \/ KeysArrive(r)
  \/ HeaderRejected(r) \/ KeysUnavailable(r) \/ ClaimsRejected(r)
  \/ FindTenant(r) \/ FindTenantFails(r) \/ Require(r) \/ RequireFails(r)
  \/ CreateTransaction(r) \/ ApproveTransaction(r) \/ CancelTransaction(r) \/ PerformFails(r)
  \/ RecordOutcome(r) \/ RecordOutcomeFails(r)

DirectoryNext ==
  \/ \E m \in MembershipIds, role \in Roles : Provision(m, role)
  \/ \E m \in MembershipIds, role \in Roles, status \in {"ACTIVE", "SUSPENDED"} :
       Replace(m, role, status)

ControlNext ==
  \/ \E r \in Requests : HandlerNext(r)
  \/ DirectoryNext
  \/ \E ks \in KeySets : Rotate(ks)
  \/ Restart

-----------------------------------------------------------------------------
(* A transaction is changed only for a caller who, when the request was     *)
(* decided, held an active membership of the transaction's own tenant with  *)
(* a role that allows the action, and only after that decision is in the    *)
(* tenant's audit chain (access.py, require; authorization.py).             *)
EffectsAreAuthorized ==
  \A r \in effects :
    /\ \E role \in req[r].held : req[r].call.action \in RoleActions[role]
    /\ \E row \in RowsOf(Tenant(r)) : row.event = Event(r, "authorization", "ALLOWED")

(* What is reported as done is on record: a request that was answered with  *)
(* success has its outcome in the chain, after its authorization, and a     *)
(* mutation that was made and is not on record was not reported (api/main). *)
ReportedIsDurable ==
  \A r \in Requests : req[r].answer = "ok" =>
    /\ Mutates(r) => r \in effects
    /\ \E a, o \in RowsOf(Tenant(r)) :
         /\ a.event = Event(r, "authorization", "ALLOWED") /\ o.event = Event(r, "outcome", "ALLOWED")
         /\ a.sequence < o.sequence

(* Every tenant's records form one unbroken chain of its own, however the   *)
(* requests of the tenants interleave (audit.py, append and verify_chain).  *)
ChainsVerify == \A tenant \in Tenants : VerifyChain(tenant)

(* A token is refused for its key only if the issuer did not publish that   *)
(* key all the while: neither a cache filled before the key was published   *)
(* nor another request's older answer gets a valid token refused            *)
(* (authentication.py, get_key and _key_for).                               *)
PublishedKeyIsFound ==
  \A r \in Requests : req[r].answer = "unknown_key" => req[r].call.kid \notin req[r].stable

=============================================================================
