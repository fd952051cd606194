-------------------------- MODULE ControlPlane_proofs --------------------------
(***************************************************************************)
(* What the control plane promises, for any number of requests, tenants,   *)
(* memberships and key sets and any interleaving of the handlers.          *)
(*                                                                         *)
(* Three invariants: the rows of a tenant are one chain (ChainInv); what   *)
(* the audit says of a request follows its phase, since an event has a     *)
(* fixed id and a request takes its phases once (AuthInv); and the keys    *)
(* that stayed published since a request began are in whatever the         *)
(* endpoint answered it (KeyInv).                                          *)
(***************************************************************************)
EXTENDS ControlPlane, FiniteSetTheorems, TLAPS

ControlBehaviour == ControlInit /\ [][ControlNext]_controlVars

ReqFields == {"call", "phase", "refresh", "reply", "stable", "held", "answer"}

(* The requests keep their shape and their calls.                           *)
RequestInv ==
  /\ DOMAIN req = Requests
  /\ \A r \in Requests : DOMAIN req[r] = ReqFields /\ req[r].call \in Asked

(* A chain whose last record is the n-th.                                   *)
Chain(rows, n) ==
  /\ IsFiniteSet(rows)
  /\ \A row \in rows : row.sequence \in 1..n
  /\ \A i \in 1..n : \E row \in rows : row.sequence = i
  /\ \A a, b \in rows : a.sequence = b.sequence => a = b
  /\ \A a \in rows : a.sequence = 1 => a.previous = None
  /\ \A a, b \in rows : a.sequence = b.sequence + 1 => a.previous = Digest(b)

ChainInv ==
  /\ audit \subseteq AuditRows
  /\ \A tenant \in Tenants : Chain(RowsOf(tenant), Cardinality(RowsOf(tenant)))

(* Where a request is before and after its authorization.                   *)
Undecided == {"new", "fetching", "authenticated", "scoped"}
Decided == {"granted", "succeeded", "failed"}

(* Keys published all along are in the answer a request got.                *)
KeyState(r) ==
  /\ req[r].phase \in Undecided \cup Decided \cup {"done"}
  /\ req[r].stable \subseteq published
  /\ req[r].reply # None => req[r].stable \subseteq req[r].reply
  /\ req[r].phase = "new" => ~req[r].refresh /\ req[r].reply = None
  /\ req[r].answer # None => req[r].phase = "done"
  /\ req[r].answer = "unknown_key" => req[r].call.kid \notin req[r].stable

KeyInv == \A r \in Requests : KeyState(r)

Unrecorded(r, phase) == \A row \in audit : row.event.id # <<r, phase>>

Authorized(r) ==
  /\ \E role \in req[r].held : req[r].call.action \in RoleActions[role]
  /\ \E row \in RowsOf(Tenant(r)) : row.event = Event(r, "authorization", "ALLOWED")

Durable(r) ==
  /\ Mutates(r) => r \in effects
  /\ \E a, o \in RowsOf(Tenant(r)) :
       /\ a.event = Event(r, "authorization", "ALLOWED") /\ o.event = Event(r, "outcome", "ALLOWED")
       /\ a.sequence < o.sequence

AuthState(r) ==
  /\ req[r].phase \in Undecided => Unrecorded(r, "authorization") /\ r \notin effects
  /\ req[r].phase \in Undecided \cup Decided => Unrecorded(r, "outcome") /\ req[r].answer # "ok"
  /\ req[r].phase \in Decided \/ r \in effects => Authorized(r)
  /\ req[r].phase = "succeeded" /\ Mutates(r) => r \in effects
  /\ req[r].answer = "ok" => Durable(r)

(* A membership's row is its owner's.                                       *)
MemberInv ==
  /\ DOMAIN members = MembershipIds
  /\ \A m \in MembershipIds : members[m] # None =>
       members[m].subject = OwnerOf[m].subject /\ members[m].tenant = OwnerOf[m].tenant

AuthInv == effects \subseteq Requests /\ \A r \in Requests : AuthState(r)

-----------------------------------------------------------------------------
(* The chain.                                                               *)

(* A chain's latest row is its last.                                        *)
LEMMA LatestIsLast ==
  ASSUME NEW tenant, NEW n \in Nat, Chain(RowsOf(tenant), n)
  PROVE  /\ n = 0 => Latest(tenant) = None /\ RowsOf(tenant) = {}
         /\ n > 0 => Latest(tenant) \in RowsOf(tenant) /\ Latest(tenant).sequence = n
<1>1. CASE n = 0
  BY <1>1 DEF Chain, Latest
<1>2. CASE n > 0
  <2>1. PICK last \in RowsOf(tenant) : last.sequence = n
    BY <1>2 DEF Chain
  <2>2. \A other \in RowsOf(tenant) : other.sequence <= last.sequence
    BY <2>1 DEF Chain
  <2>3. /\ Latest(tenant) \in RowsOf(tenant)
        /\ \A other \in RowsOf(tenant) : other.sequence <= Latest(tenant).sequence
    BY <2>1, <2>2 DEF Latest
  <2>4. Latest(tenant).sequence = n
    BY <2>1, <2>3 DEF Chain
  <2> QED BY <1>2, <2>3, <2>4
<1> QED BY <1>1, <1>2

(* A row with the next number and the digest of the last extends the chain. *)
LEMMA ChainExtends ==
  ASSUME NEW rows, NEW n \in Nat, Chain(rows, n), NEW row, row.sequence = n + 1,
         n = 0 => row.previous = None,
         \A last \in rows : last.sequence = n => row.previous = Digest(last)
  PROVE  Chain(rows \cup {row}, n + 1)
<1>1. IsFiniteSet(rows \cup {row})
  BY FS_AddElement DEF Chain
<1>2. \A i \in 1..(n + 1) : i \in 1..n \/ i = n + 1
  OBVIOUS
<1>3. \A i \in 1..(n + 1) : \E x \in rows \cup {row} : x.sequence = i
  BY <1>2 DEF Chain
<1>4. \A x \in rows : x.sequence \in 1..n
  BY DEF Chain
<1>5. \A a, b \in rows \cup {row} : a.sequence = b.sequence + 1 => a.previous = Digest(b)
  <2> SUFFICES ASSUME NEW a \in rows \cup {row}, NEW b \in rows \cup {row},
                      a.sequence = b.sequence + 1
               PROVE  a.previous = Digest(b)
    OBVIOUS
  <2>1. b \in rows
    BY <1>4
  <2>2. CASE a \in rows
    BY <2>1, <2>2 DEF Chain
  <2>3. CASE a = row
    <3>1. b.sequence = n
      BY <1>4, <2>1, <2>3
    <3> QED BY <2>1, <2>3, <3>1
  <2> QED BY <2>2, <2>3
<1>6. \A a, b \in rows \cup {row} : a.sequence = b.sequence => a = b
  BY <1>4 DEF Chain
<1>7. \A a \in rows \cup {row} : a.sequence = 1 => a.previous = None
  BY <1>4 DEF Chain
<1> QED BY <1>1, <1>3, <1>4, <1>5, <1>6, <1>7 DEF Chain

(* What append does with an event that is not in the chain yet.             *)
LEMMA AppendExtends ==
  ASSUME ChainInv, NEW tenant \in Tenants, NEW event \in AuditEvents,
         \A row \in audit : row.event.id # event.id, audit' = Appended(tenant, event)
  PROVE  /\ ChainInv'
         /\ \E row : /\ audit' = audit \cup {row} /\ row.tenant = tenant /\ row.event = event
                     /\ \A old \in RowsOf(tenant) : old.sequence < row.sequence
<1> DEFINE rows == RowsOf(tenant)
           n == Cardinality(rows)
           latest == Latest(tenant)
           row == [tenant |-> tenant, event |-> event,
                   sequence |-> IF latest = None THEN 1 ELSE latest.sequence + 1,
                   previous |-> IF latest = None THEN None ELSE Digest(latest)]
<1>1. Chain(rows, n) /\ n \in Nat
  BY FS_CardinalityType DEF ChainInv, Chain
<1>2. audit' = audit \cup {row}
  BY DEF Appended, RowsOf
<1>3. \A x \in rows : x \in AuditRows /\ x # None
  BY ControlNone DEF ChainInv, RowsOf
<1>4. /\ n = 0 => latest = None
      /\ n > 0 => latest # None /\ latest \in rows /\ latest.sequence = n
  <2> HIDE DEF n, latest, rows
  <2> QED BY <1>1, <1>3, LatestIsLast DEF latest, rows
<1>5. /\ row.tenant = tenant /\ row.event = event /\ row.sequence = n + 1
      /\ n = 0 => row.previous = None
      /\ n > 0 => row.previous = Digest(latest)
  <2> HIDE DEF n, latest, rows
  <2> QED BY <1>1, <1>4
<1>6. row \in AuditRows
  <2>1. latest # None => Digest(latest) \in [sequence: Nat, event: AuditEvents]
    <3> HIDE DEF n, latest
    <3> QED BY <1>1, <1>3, <1>4 DEF AuditRows, Digest
  <2>2. row.previous \in [sequence: Nat, event: AuditEvents] \cup {None}
    BY <2>1
  <2>3. row.sequence \in Nat
    <3> HIDE DEF n, latest
    <3> QED BY <1>1, <1>5
  <2> HIDE DEF n, latest
  <2> QED BY <2>2, <2>3 DEF AuditRows
<1> HIDE DEF row, n, rows, latest
<1>7. \A last \in rows : last.sequence = n => row.previous = Digest(last)
  BY <1>1, <1>4, <1>5 DEF Chain
<1>8. Chain(rows \cup {row}, n + 1) /\ row \notin rows /\ \A old \in rows : old.sequence < row.sequence
  BY <1>1, <1>5, <1>7, ChainExtends DEF Chain
<1>9. Cardinality(rows \cup {row}) = n + 1
  BY <1>1, <1>8, FS_AddElement DEF Chain, n
<1>10. ASSUME NEW other \in Tenants PROVE Chain(RowsOf(other)', Cardinality(RowsOf(other)'))
  <2>1. CASE other = tenant
    <3>1. RowsOf(other)' = rows \cup {row}
      BY <1>2, <1>5, <2>1 DEF RowsOf, rows
    <3> QED BY <1>8, <1>9, <3>1
  <2>2. CASE other # tenant
    <3>1. RowsOf(other)' = RowsOf(other)
      BY <1>2, <1>5, <2>2 DEF RowsOf
    <3> QED BY <3>1 DEF ChainInv
  <2> QED BY <2>1, <2>2
<1>11. ChainInv'
  BY <1>2, <1>6, <1>10 DEF ChainInv, Chain, Digest
<1> QED
  BY <1>2, <1>5, <1>8, <1>11 DEF rows

(* A step that appends nothing leaves the chains as they were.              *)
LEMMA ChainUnchanged ==
  ASSUME ChainInv, UNCHANGED audit
  PROVE  ChainInv'
<1>1. \A tenant : RowsOf(tenant)' = RowsOf(tenant)
  BY DEF RowsOf
<1> QED BY <1>1 DEF ChainInv, Chain, Digest

(* A chain passes verify_chain.                                             *)
LEMMA ChainPasses == ChainInv => ChainsVerify
<1> SUFFICES ASSUME ChainInv, NEW tenant \in Tenants PROVE VerifyChain(tenant)
  BY DEF ChainsVerify
<1> DEFINE rows == RowsOf(tenant)
           n == Cardinality(rows)
           At(i) == CHOOSE row \in rows : row.sequence = i
<1>1. Chain(rows, n) /\ n \in Nat
  BY FS_CardinalityType DEF ChainInv, Chain
<1> HIDE DEF n, rows
<1>2. \A i \in 1..n : At(i) \in rows /\ At(i).sequence = i
  BY <1>1 DEF Chain
<1>3. {row.sequence : row \in rows} = 1..n
  BY <1>1 DEF Chain
<1> HIDE DEF At
<1>4. ASSUME NEW i \in 1..n PROVE At(i).previous = IF i = 1 THEN None ELSE Digest(At(i - 1))
  <2>1. CASE i = 1
    BY <1>1, <1>2, <2>1 DEF Chain
  <2>2. CASE i # 1
    <3>1. i - 1 \in 1..n /\ (i - 1) + 1 = i
      BY <1>1, <2>2
    <3>2. At(i).sequence = At(i - 1).sequence + 1 /\ At(i) \in rows /\ At(i - 1) \in rows
      BY <1>2, <3>1
    <3> QED BY <1>1, <2>2, <3>2 DEF Chain
  <2> QED BY <2>1, <2>2
<1> QED BY <1>3, <1>4 DEF VerifyChain, n, rows, At

-----------------------------------------------------------------------------
(* The requests.                                                            *)

(* A handler's step writes its own request, and not what was asked.         *)
OwnStep(r) ==
  /\ DOMAIN req' = Requests
  /\ \A u \in Requests \ {r} : req'[u] = req[u]
  /\ DOMAIN req'[r] = ReqFields
  /\ req'[r].call = req[r].call

(* Writing a request's record is a step of that request alone.              *)
LEMMA SetIsOwn ==
  ASSUME RequestInv, NEW r \in Requests, NEW record, Set(r, record), DOMAIN record = ReqFields,
         record.call = req[r].call
  PROVE  OwnStep(r) /\ req'[r] = record
  BY DEF Set, OwnStep, RequestInv

(* The two updates of a request record most handlers make.                  *)
Phased(record, phase) == [record EXCEPT !.phase = phase]

(* Answering a request keeps what it is about and what it read.             *)
LEMMA AnsweredRecord ==
  ASSUME RequestInv, NEW r \in Requests, NEW answer
  PROVE  /\ DOMAIN Answered(r, answer) = ReqFields /\ Answered(r, answer).call = req[r].call
         /\ Answered(r, answer).phase = "done" /\ Answered(r, answer).answer = answer
         /\ Answered(r, answer).reply = req[r].reply
         /\ Answered(r, answer).stable = req[r].stable
         /\ Answered(r, answer).held = req[r].held
<1>1. DOMAIN req[r] = ReqFields
  BY DEF RequestInv
<1> QED BY <1>1 DEF ReqFields, Answered

(* Advancing a request keeps what it is about and what it read.             *)
LEMMA PhasedRecord ==
  ASSUME NEW record, DOMAIN record = ReqFields, NEW phase
  PROVE  /\ DOMAIN Phased(record, phase) = ReqFields
         /\ Phased(record, phase).call = record.call /\ Phased(record, phase).phase = phase
         /\ Phased(record, phase).reply = record.reply
         /\ Phased(record, phase).stable = record.stable
         /\ Phased(record, phase).held = record.held
         /\ Phased(record, phase).answer = record.answer
  BY DEF ReqFields, Phased

(* A request that moves without any effect or record: it stays before its   *)
(* decision, it ends without success, or only its keys change.              *)
Quiet(r) ==
  /\ req'[r].call = req[r].call /\ req'[r].held = req[r].held
  /\ \/ req'[r].phase = req[r].phase /\ req'[r].answer = req[r].answer
     \/ /\ req[r].phase \in Undecided /\ req'[r].phase \in Undecided
        /\ req'[r].answer = req[r].answer
     \/ /\ req[r].phase \in Undecided \cup Decided /\ req'[r].phase = "done"
        /\ req'[r].answer # "ok"

(* The steps of authentication and the early ends.                          *)
QuietStep(r) ==
  \/ Authenticate(r) \/ EndpointAnswers(r) \/ KeysArrive(r)
  \/ HeaderRejected(r) \/ KeysUnavailable(r) \/ ClaimsRejected(r)
  \/ FindTenant(r) \/ FindTenantFails(r) \/ RequireFails(r) \/ RecordOutcomeFails(r)

(* A key lookup either authenticates, asks again or refuses.                *)
LEMMA LookupMoves ==
  ASSUME RequestInv, NEW r \in Requests, NEW record, DOMAIN record = ReqFields, NEW cache,
         record.call = req[r].call, LookedUp(r, record, cache)
  PROVE  /\ OwnStep(r) /\ req'[r].call = req[r].call
         /\ req'[r].held = record.held /\ req'[r].stable = record.stable /\ req'[r].reply = None
         /\ \/ req'[r].phase \in {"authenticated", "fetching"} /\ req'[r].answer = record.answer
            \/ /\ req'[r].phase = "done" /\ req'[r].answer = "unknown_key"
               /\ req[r].call.kid \notin cache /\ req[r].refresh
<1> DEFINE a == [record EXCEPT !.phase = "authenticated", !.reply = None]
           b == [record EXCEPT !.phase = "fetching", !.refresh = TRUE, !.reply = None]
           c == [record EXCEPT !.phase = "done", !.answer = "unknown_key", !.reply = None]
<1>1. /\ DOMAIN a = ReqFields /\ DOMAIN b = ReqFields /\ DOMAIN c = ReqFields
      /\ a.call = req[r].call /\ b.call = req[r].call /\ c.call = req[r].call
      /\ a.held = record.held /\ b.held = record.held /\ c.held = record.held
      /\ a.stable = record.stable /\ b.stable = record.stable /\ c.stable = record.stable
      /\ a.reply = None /\ b.reply = None /\ c.reply = None
      /\ a.phase = "authenticated" /\ b.phase = "fetching" /\ c.phase = "done"
      /\ a.answer = record.answer /\ b.answer = record.answer /\ c.answer = "unknown_key"
  BY DEF ReqFields
<1>2. \/ Set(r, a) \/ Set(r, b)
      \/ Set(r, c) /\ req[r].call.kid \notin cache /\ req[r].refresh
  BY DEF LookedUp, Refreshable
<1> HIDE DEF a, b, c
<1>3. CASE Set(r, a)
  BY <1>1, <1>3, SetIsOwn
<1>4. CASE Set(r, b)
  BY <1>1, <1>4, SetIsOwn
<1>5. CASE Set(r, c) /\ req[r].call.kid \notin cache /\ req[r].refresh
  BY <1>1, <1>5, SetIsOwn
<1> QED BY <1>2, <1>3, <1>4, <1>5

(* The steps of authentication touch neither the audit table nor the transactions. *)
LEMMA QuietMoves ==
  ASSUME RequestInv, KeyInv, NEW r \in Requests, QuietStep(r)
  PROVE  /\ OwnStep(r) /\ Quiet(r) /\ KeyState(r)'
         /\ UNCHANGED <<published, members, audit, effects>>
<1> USE DEF Undecided, Decided
<1>0. KeyState(r) /\ DOMAIN req[r] = ReqFields
  BY DEF KeyInv, RequestInv
<1>1. CASE Authenticate(r)
  <2> DEFINE begun == [req[r] EXCEPT !.stable = published]
             wait == [begun EXCEPT !.phase = "fetching"]
  <2>1. /\ DOMAIN begun = ReqFields /\ begun.call = req[r].call /\ begun.held = req[r].held
        /\ begun.stable = published /\ begun.answer = req[r].answer
        /\ DOMAIN wait = ReqFields /\ wait.call = req[r].call /\ wait.held = req[r].held
        /\ wait.stable = published /\ wait.answer = req[r].answer /\ wait.phase = "fetching"
        /\ wait.reply = req[r].reply
    BY <1>0 DEF ReqFields
  <2>2. /\ req[r].phase = "new" /\ UNCHANGED <<published, members, audit, effects>>
        /\ LookedUp(r, begun, keys) \/ Set(r, wait)
    BY <1>1 DEF Authenticate
  <2>3. req[r].reply = None /\ ~req[r].refresh /\ req[r].answer = None
    BY <1>0, <2>2 DEF KeyState
  <2> HIDE DEF begun, wait
  <2>4. CASE LookedUp(r, begun, keys)
    BY <1>0, <2>1, <2>2, <2>3, <2>4, LookupMoves, ControlNone DEF Quiet, KeyState
  <2>5. CASE Set(r, wait)
    BY <1>0, <2>1, <2>2, <2>3, <2>5, SetIsOwn, ControlNone DEF Quiet, KeyState
  <2> QED BY <2>2, <2>4, <2>5
<1>2. CASE EndpointAnswers(r)
  <2> DEFINE x == [req[r] EXCEPT !.reply = published]
  <2>1. /\ DOMAIN x = ReqFields /\ x.call = req[r].call /\ x.held = req[r].held
        /\ x.stable = req[r].stable /\ x.answer = req[r].answer /\ x.phase = req[r].phase
        /\ x.reply = published
    BY <1>0 DEF ReqFields
  <2>2. /\ req[r].phase = "fetching" /\ UNCHANGED <<published, members, audit, effects>>
        /\ Set(r, x)
    BY <1>2 DEF EndpointAnswers
  <2> HIDE DEF x
  <2> QED BY <1>0, <2>1, <2>2, SetIsOwn DEF Quiet, KeyState
<1>3. CASE KeysArrive(r)
  <2>1. /\ req[r].phase = "fetching" /\ UNCHANGED <<published, members, audit, effects>>
        /\ LookedUp(r, req[r], req[r].reply) /\ req[r].reply # None
    BY <1>3 DEF KeysArrive
  <2> QED BY <1>0, <2>1, LookupMoves, ControlNone DEF Quiet, KeyState
<1>4. CASE KeysUnavailable(r)
  <2> DEFINE x == [Answered(r, "invalid_credentials") EXCEPT !.reply = None]
  <2>1. /\ DOMAIN x = ReqFields /\ x.call = req[r].call /\ x.held = req[r].held
        /\ x.stable = req[r].stable /\ x.answer = "invalid_credentials" /\ x.phase = "done"
        /\ x.reply = None
    BY <1>0 DEF ReqFields, Answered
  <2>2. /\ req[r].phase = "fetching" /\ UNCHANGED <<published, members, audit, effects>>
        /\ Set(r, x)
    BY <1>4 DEF KeysUnavailable
  <2> HIDE DEF x
  <2> QED BY <1>0, <2>1, <2>2, SetIsOwn DEF Quiet, KeyState
<1>5. ASSUME NEW answer, answer \notin {"ok", "unknown_key"}, Set(r, Answered(r, answer)),
             req[r].phase \in Undecided \cup Decided,
             UNCHANGED <<published, members, audit, effects>>
      PROVE  /\ OwnStep(r) /\ Quiet(r) /\ KeyState(r)'
             /\ UNCHANGED <<published, members, audit, effects>>
  BY <1>0, <1>5, SetIsOwn, AnsweredRecord DEF Quiet, KeyState
<1>6. CASE HeaderRejected(r) \/ ClaimsRejected(r) \/ FindTenantFails(r) \/ RequireFails(r)
             \/ RecordOutcomeFails(r)
  BY <1>5, <1>6
  DEF HeaderRejected, ClaimsRejected, FindTenantFails, RequireFails, RecordOutcomeFails
<1>7. CASE FindTenant(r)
  <2>1. CASE Set(r, Answered(r, "transaction_not_found"))
    BY <1>5, <1>7, <2>1 DEF FindTenant
  <2>2. CASE Set(r, Phased(req[r], "scoped"))
    <3>1. /\ req[r].phase = "authenticated" /\ UNCHANGED <<published, members, audit, effects>>
      BY <1>7 DEF FindTenant
    <3>2. OwnStep(r) /\ req'[r] = Phased(req[r], "scoped")
      BY <1>0, <2>2, SetIsOwn, PhasedRecord
    <3> QED BY <1>0, <3>1, <3>2, PhasedRecord DEF Quiet, KeyState
  <2> QED BY <1>7, <2>1, <2>2 DEF FindTenant, Phased
<1> QED
  BY <1>1, <1>2, <1>3, <1>4, <1>6, <1>7 DEF QuietStep

(* What is said of a request depends on its call only.                      *)
LEMMA CallKeeps ==
  ASSUME NEW r, req'[r].call = req[r].call
  PROVE  /\ Tenant(r)' = Tenant(r) /\ Mutates(r)' = Mutates(r)
         /\ \A phase, result : Event(r, phase, result)' = Event(r, phase, result)
  BY DEF Tenant, Mutates, Event

(* Rows stay, and the new ones are about other requests.                    *)
RowsKept(u) ==
  /\ audit \subseteq audit'
  /\ \A row \in audit' \ audit : \A phase : row.event.id # <<u, phase>>

(* What the audit says of a request survives a step that does not touch it. *)
LEMMA QuietKeeps ==
  ASSUME NEW u, AuthState(u), Quiet(u), RowsKept(u), u \in effects' <=> u \in effects
  PROVE  AuthState(u)'
<1> USE DEF Undecided, Decided
<1>1. req'[u].call = req[u].call /\ req'[u].held = req[u].held
  BY DEF Quiet
<1>2. /\ Tenant(u)' = Tenant(u) /\ Mutates(u)' = Mutates(u)
      /\ Event(u, "authorization", "ALLOWED")' = Event(u, "authorization", "ALLOWED")
      /\ Event(u, "outcome", "ALLOWED")' = Event(u, "outcome", "ALLOWED")
  BY <1>1, CallKeeps
<1>3. RowsOf(Tenant(u)) \subseteq RowsOf(Tenant(u))'
  BY <1>2 DEF RowsOf, RowsKept
<1>4. Authorized(u) => Authorized(u)'
  BY <1>1, <1>2, <1>3 DEF Authorized
<1>5. Durable(u) => Durable(u)'
  BY <1>2, <1>3 DEF Durable
<1>6. \A phase : Unrecorded(u, phase) => Unrecorded(u, phase)'
  BY DEF Unrecorded, RowsKept
<1>7. \/ req'[u].phase = req[u].phase /\ req'[u].answer = req[u].answer
      \/ /\ req[u].phase \in Undecided /\ req'[u].phase \in Undecided
         /\ req'[u].answer = req[u].answer
      \/ /\ req[u].phase \in Undecided \cup Decided /\ req'[u].phase = "done"
         /\ req'[u].answer # "ok"
  BY DEF Quiet
<1> QED BY <1>2, <1>4, <1>5, <1>6, <1>7 DEF AuthState

(* The other requests, when one handler takes a step.                       *)
LEMMA OthersKeep ==
  ASSUME AuthInv, NEW r \in Requests, OwnStep(r), AuthState(r)', audit \subseteq audit',
         \A row \in audit' \ audit : \E phase : row.event.id = <<r, phase>>,
         effects' \in {effects, effects \cup {r}}
  PROVE  AuthInv'
<1>1. ASSUME NEW u \in Requests PROVE AuthState(u)'
  <2>1. CASE u = r
    BY <2>1
  <2>2. CASE u # r
    <3>1. RowsKept(u)
      BY <2>2 DEF RowsKept
    <3>2. Quiet(u)
      BY <2>2 DEF Quiet, OwnStep
    <3> QED BY <2>2, <3>1, <3>2, QuietKeeps DEF AuthInv
  <2> QED BY <2>1, <2>2
<1> QED BY <1>1 DEF AuthInv

(* An event a handler writes is new and well formed.                        *)
LEMMA EventIsAudit ==
  ASSUME RequestInv, NEW r \in Requests, NEW phase \in AuditPhases,
         NEW result \in {"ALLOWED", "DENIED", "ERROR"}
  PROVE  /\ Event(r, phase, result) \in AuditEvents
         /\ Event(r, phase, result).id = <<r, phase>>
         /\ Tenant(r) \in Tenants
  BY ControlAssumption DEF RequestInv, Event, AuditEvents, Tenant, Tenants

(* The row an append leaves.                                                *)
LEMMA RecordAppears ==
  ASSUME RequestInv, ChainInv, NEW r \in Requests, NEW phase \in AuditPhases,
         NEW result \in {"ALLOWED", "DENIED", "ERROR"}, Unrecorded(r, phase),
         audit' = Appended(Tenant(r), Event(r, phase, result))
  PROVE  /\ ChainInv'
         /\ \E row : /\ audit' = audit \cup {row} /\ row.tenant = Tenant(r)
                     /\ row.event = Event(r, phase, result) /\ row.event.id = <<r, phase>>
                     /\ \A old \in RowsOf(Tenant(r)) : old.sequence < row.sequence
<1>1. /\ Event(r, phase, result) \in AuditEvents /\ Tenant(r) \in Tenants
      /\ \A row \in audit : row.event.id # Event(r, phase, result).id
  BY EventIsAudit DEF Unrecorded
<1>2. Event(r, phase, result).id = <<r, phase>>
  BY DEF Event
<1> QED BY <1>1, <1>2, AppendExtends

(* A decision that allows is backed by an active membership.                *)
LEMMA AllowedIsHeld ==
  ASSUME MemberInv, NEW r, Decide(r) = "allowed"
  PROVE  \E role \in ActiveRoles(r) : req[r].call.action \in RoleActions[role]
<1>1. PICK m \in Matched(req[r].call.subject, Tenant(r)) :
             req[r].call.action \in RoleActions[members[m].role]
  BY DEF Decide
<1>2. /\ m \in MembershipIds /\ members[m] # None /\ members[m].status = "ACTIVE"
      /\ members[m].subject = req[r].call.subject /\ members[m].tenant = Tenant(r)
  BY <1>1 DEF Matched, Directory
<1>3. OwnerOf[m] = [subject |-> req[r].call.subject, tenant |-> Tenant(r)]
  BY <1>2, ControlAssumption DEF MemberInv
<1> QED BY <1>1, <1>2, <1>3 DEF ActiveRoles

ControlInv == RequestInv /\ ChainInv /\ KeyInv /\ AuthInv /\ MemberInv

(* require: a decision is appended before the request goes on.              *)
LEMMA RequireStep ==
  ASSUME ControlInv, NEW r \in Requests, Require(r)
  PROVE  OwnStep(r) /\ KeyState(r)' /\ ChainInv' /\ AuthInv' /\ UNCHANGED <<published, members>>
<1> USE DEF Undecided, Decided
<1>0. /\ RequestInv /\ ChainInv /\ KeyState(r) /\ AuthState(r) /\ MemberInv
      /\ DOMAIN req[r] = ReqFields /\ AuthInv
  BY DEF ControlInv, KeyInv, AuthInv, RequestInv
<1>1. PICK decision \in {Decide(r), "membership_provider_error"} :
        LET allowed == decision = "allowed"
            decided == [req[r] EXCEPT !.held = ActiveRoles(r)]
        IN /\ req[r].phase = "scoped"
           /\ audit' = Appended(Tenant(r), Event(r, "authorization", IF allowed THEN "ALLOWED" ELSE "DENIED"))
           /\ Set(r, IF allowed
                     THEN [decided EXCEPT !.phase = IF Mutates(r) THEN "granted" ELSE "succeeded"]
                     ELSE Answered(r, Refusal(decision)))
           /\ UNCHANGED <<published, keys, loaded, members, effects>>
  BY DEF Require
<1>2. /\ req[r].phase = "scoped" /\ UNCHANGED <<published, members, effects>>
      /\ Unrecorded(r, "authorization") /\ Unrecorded(r, "outcome") /\ r \notin effects
      /\ req[r].answer # "ok"
  BY <1>0, <1>1 DEF AuthState
<1>3. CASE decision # "allowed"
  <2>1. audit' = Appended(Tenant(r), Event(r, "authorization", "DENIED"))
        /\ Set(r, Answered(r, Refusal(decision)))
    BY <1>1, <1>3
  <2>2. Refusal(decision) \notin {"ok", "unknown_key"}
    BY DEF Refusal
  <2>3. PICK row : /\ ChainInv' /\ audit' = audit \cup {row}
                   /\ row.event.id = <<r, "authorization">>
    BY <1>0, <1>2, <2>1, RecordAppears DEF AuditPhases
  <2>4. /\ OwnStep(r) /\ req'[r].phase = "done" /\ req'[r].answer = Refusal(decision)
        /\ req'[r].stable = req[r].stable /\ req'[r].reply = req[r].reply
    BY <1>0, <2>1, SetIsOwn, AnsweredRecord
  <2>5. KeyState(r)' /\ AuthState(r)'
    BY <1>0, <1>2, <2>2, <2>4 DEF KeyState, AuthState
  <2> QED BY <1>0, <1>2, <2>3, <2>4, <2>5, OthersKeep
<1>4. CASE decision = "allowed"
  <2> DEFINE decided == [req[r] EXCEPT !.held = ActiveRoles(r)]
             next == IF Mutates(r) THEN "granted" ELSE "succeeded"
  <2>1. /\ audit' = Appended(Tenant(r), Event(r, "authorization", "ALLOWED"))
        /\ Set(r, Phased(decided, next)) /\ Decide(r) = "allowed"
    BY <1>1, <1>4 DEF Phased
  <2>2. PICK row : /\ ChainInv' /\ audit' = audit \cup {row} /\ row.tenant = Tenant(r)
                   /\ row.event = Event(r, "authorization", "ALLOWED")
                   /\ row.event.id = <<r, "authorization">>
    BY <1>0, <1>2, <2>1, RecordAppears DEF AuditPhases
  <2>3. /\ DOMAIN decided = ReqFields /\ decided.call = req[r].call
        /\ decided.held = ActiveRoles(r) /\ decided.stable = req[r].stable
        /\ decided.reply = req[r].reply /\ decided.answer = req[r].answer
    BY <1>0 DEF ReqFields
  <2> HIDE DEF decided, next
  <2>4. /\ OwnStep(r) /\ req'[r].phase = next /\ req'[r].held = ActiveRoles(r)
        /\ req'[r].stable = req[r].stable /\ req'[r].reply = req[r].reply
        /\ req'[r].answer = req[r].answer /\ req'[r].call = req[r].call
    BY <1>0, <2>1, <2>3, SetIsOwn, PhasedRecord
  <2>5. /\ Tenant(r)' = Tenant(r) /\ Mutates(r)' = Mutates(r)
        /\ Event(r, "authorization", "ALLOWED")' = Event(r, "authorization", "ALLOWED")
    BY <2>4, CallKeeps
  <2>6. Authorized(r)'
    BY <1>0, <2>1, <2>2, <2>4, <2>5, AllowedIsHeld DEF Authorized, RowsOf
  <2>7. Unrecorded(r, "outcome")'
    BY <1>2, <2>2 DEF Unrecorded
  <2>8. AuthState(r)'
    BY <1>2, <2>4, <2>5, <2>6, <2>7 DEF AuthState, next
  <2>9. KeyState(r)'
    BY <1>0, <1>2, <2>4 DEF KeyState, next
  <2> QED BY <1>0, <1>2, <2>2, <2>4, <2>8, <2>9, OthersKeep
<1> QED BY <1>3, <1>4

(* The mutation of a request, or its failure, comes only after its decision. *)
LEMMA PerformStep ==
  ASSUME ControlInv, NEW r \in Requests,
         CreateTransaction(r) \/ ApproveTransaction(r) \/ CancelTransaction(r) \/ PerformFails(r)
  PROVE  OwnStep(r) /\ KeyState(r)' /\ ChainInv' /\ AuthInv' /\ UNCHANGED <<published, members>>
<1> USE DEF Undecided, Decided
<1>0. /\ RequestInv /\ ChainInv /\ KeyState(r) /\ AuthState(r) /\ AuthInv
      /\ DOMAIN req[r] = ReqFields
  BY DEF ControlInv, KeyInv, AuthInv, RequestInv
<1>1. PICK phase \in {"succeeded", "failed"} :
        /\ req[r].phase = "granted" /\ Set(r, Phased(req[r], phase))
        /\ UNCHANGED <<published, members, audit>>
        /\ effects' \in {effects, effects \cup {r}}
        /\ phase = "succeeded" => effects' = effects \cup {r}
  BY DEF CreateTransaction, ApproveTransaction, CancelTransaction, Perform, PerformFails, Phased
<1>2. /\ OwnStep(r) /\ req'[r].phase = phase /\ req'[r].held = req[r].held
      /\ req'[r].stable = req[r].stable /\ req'[r].reply = req[r].reply
      /\ req'[r].answer = req[r].answer /\ req'[r].call = req[r].call
  BY <1>0, <1>1, SetIsOwn, PhasedRecord
<1>3. /\ Tenant(r)' = Tenant(r) /\ Mutates(r)' = Mutates(r)
      /\ Event(r, "authorization", "ALLOWED")' = Event(r, "authorization", "ALLOWED")
  BY <1>2, CallKeeps
<1>4. Authorized(r)' /\ Unrecorded(r, "outcome")' /\ req[r].answer # "ok"
  BY <1>0, <1>1, <1>2, <1>3 DEF AuthState, Authorized, Unrecorded, RowsOf
<1>5. AuthState(r)'
  BY <1>1, <1>2, <1>3, <1>4 DEF AuthState
<1>6. KeyState(r)'
  BY <1>0, <1>1, <1>2 DEF KeyState
<1>7. ChainInv'
  BY <1>0, <1>1, ChainUnchanged
<1> QED BY <1>0, <1>1, <1>2, <1>5, <1>6, <1>7, OthersKeep

(* The outcome is appended before a success is reported.                    *)
LEMMA OutcomeStep ==
  ASSUME ControlInv, NEW r \in Requests, RecordOutcome(r)
  PROVE  OwnStep(r) /\ KeyState(r)' /\ ChainInv' /\ AuthInv' /\ UNCHANGED <<published, members>>
<1> USE DEF Undecided, Decided
<1>0. /\ RequestInv /\ ChainInv /\ KeyState(r) /\ AuthState(r) /\ AuthInv
      /\ DOMAIN req[r] = ReqFields
  BY DEF ControlInv, KeyInv, AuthInv, RequestInv
<1> DEFINE ok == req[r].phase = "succeeded"
           result == IF ok THEN "ALLOWED" ELSE "ERROR"
           answer == IF ok THEN "ok" ELSE "runtime_error"
<1>1. /\ req[r].phase \in {"succeeded", "failed"}
      /\ audit' = Appended(Tenant(r), Event(r, "outcome", result))
      /\ Set(r, Answered(r, answer)) /\ UNCHANGED <<published, members, effects>>
  BY DEF RecordOutcome, OutcomeRecorded
<1>2. Unrecorded(r, "outcome") /\ Authorized(r) /\ (ok /\ Mutates(r) => r \in effects)
  BY <1>0, <1>1 DEF AuthState
<1>3. PICK row : /\ ChainInv' /\ audit' = audit \cup {row} /\ row.tenant = Tenant(r)
                 /\ row.event = Event(r, "outcome", result)
                 /\ row.event.id = <<r, "outcome">>
                 /\ \A old \in RowsOf(Tenant(r)) : old.sequence < row.sequence
  BY <1>0, <1>1, <1>2, RecordAppears DEF AuditPhases
<1>4. /\ OwnStep(r) /\ req'[r].phase = "done" /\ req'[r].answer = answer
      /\ req'[r].stable = req[r].stable /\ req'[r].reply = req[r].reply
      /\ req'[r].held = req[r].held /\ req'[r].call = req[r].call
  BY <1>0, <1>1, SetIsOwn, AnsweredRecord
<1>5. /\ Tenant(r)' = Tenant(r) /\ Mutates(r)' = Mutates(r)
      /\ Event(r, "authorization", "ALLOWED")' = Event(r, "authorization", "ALLOWED")
      /\ Event(r, "outcome", "ALLOWED")' = Event(r, "outcome", "ALLOWED")
  BY <1>4, CallKeeps
<1>6. RowsOf(Tenant(r))' = RowsOf(Tenant(r)) \cup {row}
  BY <1>3, <1>5 DEF RowsOf
<1>7. Authorized(r)'
  BY <1>2, <1>4, <1>5, <1>6 DEF Authorized
<1>8. ok => Durable(r)'
  BY <1>1, <1>2, <1>3, <1>5, <1>6 DEF Authorized, Durable
<1>9. answer = "ok" <=> ok
  OBVIOUS
<1>10. answer \notin {"unknown_key"}
  OBVIOUS
<1> HIDE DEF ok, answer, result
<1>11. AuthState(r)'
  BY <1>1, <1>4, <1>7, <1>8, <1>9 DEF AuthState
<1>12. KeyState(r)'
  BY <1>0, <1>1, <1>4, <1>10 DEF KeyState
<1> QED BY <1>0, <1>1, <1>3, <1>4, <1>11, <1>12, OthersKeep

-----------------------------------------------------------------------------
(* The invariant and the theorems.                                          *)

(* Every step of a request keeps the invariant.                             *)
LEMMA HandlerStep ==
  ASSUME ControlInv, NEW r \in Requests, HandlerNext(r)
  PROVE  ControlInv'
<1>1. OwnStep(r) /\ KeyState(r)' /\ ChainInv' /\ AuthInv' /\ UNCHANGED <<published, members>>
  <2>1. CASE QuietStep(r)
    <3>1. /\ OwnStep(r) /\ Quiet(r) /\ KeyState(r)'
          /\ UNCHANGED <<published, members, audit, effects>>
      BY <2>1, QuietMoves DEF ControlInv
    <3>2. AuthState(r)'
      BY <3>1, QuietKeeps DEF ControlInv, AuthInv, RowsKept
    <3> QED BY <3>1, <3>2, ChainUnchanged, OthersKeep DEF ControlInv
  <2>2. CASE Require(r)
    BY <2>2, RequireStep
  <2>3. CASE CreateTransaction(r) \/ ApproveTransaction(r) \/ CancelTransaction(r) \/ PerformFails(r)
    BY <2>3, PerformStep
  <2>4. CASE RecordOutcome(r)
    BY <2>4, OutcomeStep
  <2> QED BY <2>1, <2>2, <2>3, <2>4 DEF HandlerNext, QuietStep
<1>2. RequestInv'
  BY <1>1 DEF OwnStep, ControlInv, RequestInv, Asked
<1>3. KeyInv'
  <2>1. ASSUME NEW u \in Requests PROVE KeyState(u)'
    <3>1. CASE u = r
      BY <1>1, <3>1
    <3>2. CASE u # r
      BY <1>1, <3>2 DEF OwnStep, ControlInv, KeyInv, KeyState
    <3> QED BY <3>1, <3>2
  <2> QED BY <2>1 DEF KeyInv
<1>4. MemberInv'
  BY <1>1 DEF ControlInv, MemberInv
<1> QED BY <1>1, <1>2, <1>3, <1>4 DEF ControlInv

(* Everything but members stays.                                            *)
LEMMA DirectoryStep ==
  ASSUME ControlInv, UNCHANGED <<published, req, audit, effects>>, MemberInv'
  PROVE  ControlInv'
<1>1. RequestInv'
  BY DEF ControlInv, RequestInv, Asked
<1>2. ASSUME NEW u \in Requests PROVE KeyState(u)' /\ AuthState(u)'
  <2>1. Quiet(u) /\ RowsKept(u)
    BY DEF Quiet, RowsKept
  <2>2. AuthState(u)'
    BY <2>1, QuietKeeps DEF ControlInv, AuthInv
  <2> QED BY <2>2 DEF ControlInv, KeyInv, KeyState
<1> QED BY <1>1, <1>2, ChainUnchanged DEF ControlInv, KeyInv, AuthInv

(* Suspending a member or replacing its roles keeps the invariant.          *)
LEMMA MembershipStep ==
  ASSUME ControlInv, DirectoryNext
  PROVE  ControlInv'
<1>1. MemberInv
  BY DEF ControlInv
<1>2. PICK m \in MembershipIds : \E role, status, revision :
        /\ members' = [members EXCEPT ![m] = Row(m, role, status, revision)]
        /\ UNCHANGED <<published, req, audit, effects>>
  BY DEF DirectoryNext, Provision, Replace
<1>3. MemberInv'
  BY <1>1, <1>2 DEF MemberInv, Row
<1> QED BY <1>2, <1>3, DirectoryStep

(* A rotation and a restart change every request, quietly.                  *)
LEMMA QuietForAll ==
  ASSUME ControlInv, UNCHANGED <<members, audit, effects>>, DOMAIN req' = Requests,
         \A u \in Requests : DOMAIN req'[u] = ReqFields /\ Quiet(u) /\ KeyState(u)'
  PROVE  ControlInv'
<1>1. RequestInv'
  BY DEF ControlInv, RequestInv, Asked, Quiet
<1>2. \A u \in Requests : AuthState(u)'
  BY QuietKeeps DEF ControlInv, AuthInv, RowsKept
<1>3. MemberInv'
  BY DEF ControlInv, MemberInv
<1> QED BY <1>1, <1>2, <1>3, ChainUnchanged DEF ControlInv, KeyInv, AuthInv

(* Rotating the issuer's keys keeps the invariant: what stayed published shrinks. *)
LEMMA RotateStep ==
  ASSUME ControlInv, NEW ks, Rotate(ks)
  PROVE  ControlInv'
<1>1. ASSUME NEW u \in Requests PROVE DOMAIN req'[u] = ReqFields /\ Quiet(u) /\ KeyState(u)'
  <2>1. DOMAIN req[u] = ReqFields /\ KeyState(u)
    BY DEF ControlInv, RequestInv, KeyInv
  <2>2. req'[u] = [req[u] EXCEPT !.stable = @ \cap ks] /\ published' = ks
    BY DEF Rotate
  <2>3. /\ DOMAIN req'[u] = ReqFields /\ req'[u].call = req[u].call
        /\ req'[u].phase = req[u].phase /\ req'[u].refresh = req[u].refresh
        /\ req'[u].reply = req[u].reply /\ req'[u].stable = req[u].stable \cap ks
        /\ req'[u].held = req[u].held /\ req'[u].answer = req[u].answer
    BY <2>1, <2>2 DEF ReqFields
  <2>4. Quiet(u)
    BY <2>3 DEF Quiet
  <2>5. KeyState(u)'
    BY <2>1, <2>2, <2>3 DEF KeyState
  <2> QED BY <2>3, <2>4, <2>5
<1> QED BY <1>1, QuietForAll DEF Rotate

(* A restart empties the cache and keeps the invariant.                     *)
LEMMA RestartStep ==
  ASSUME ControlInv, Restart
  PROVE  ControlInv'
<1>1. ASSUME NEW u \in Requests PROVE DOMAIN req'[u] = ReqFields /\ Quiet(u) /\ KeyState(u)'
  <2>1. DOMAIN req[u] = ReqFields /\ KeyState(u) /\ AuthState(u) /\ RequestInv
    BY DEF ControlInv, RequestInv, KeyInv, AuthInv
  <2>2. req'[u] = (IF req[u].phase \in {"new", "done"} THEN req[u] ELSE Answered(u, None))
        /\ UNCHANGED published
    BY DEF Restart
  <2>3. CASE req[u].phase \in {"new", "done"}
    BY <2>1, <2>2, <2>3 DEF Quiet, KeyState
  <2>4. CASE req[u].phase \notin {"new", "done"}
    <3>1. req[u].phase \in Undecided \cup Decided
      BY <2>1, <2>4 DEF KeyState
    <3> QED BY <2>1, <2>2, <2>4, <3>1, AnsweredRecord, ControlNone DEF Quiet, KeyState
  <2> QED BY <2>3, <2>4
<1> QED BY <1>1, QuietForAll DEF Restart

(* The invariant holds before the first request.                            *)
LEMMA ControlInvInit == ControlInit => ControlInv
<1> SUFFICES ASSUME ControlInit PROVE ControlInv
  OBVIOUS
<1>1. PICK calls \in Workloads : req = [r \in Requests |-> Fresh(calls[r])]
  BY DEF ControlInit
<1>2. ASSUME NEW r \in Requests
      PROVE  /\ DOMAIN req[r] = ReqFields /\ req[r].call = calls[r] /\ req[r].phase = "new"
             /\ req[r].refresh = FALSE /\ req[r].reply = None /\ req[r].stable = {}
             /\ req[r].answer = None
  BY <1>1 DEF Fresh, ReqFields
<1>3. RequestInv
  <2>1. DOMAIN req = Requests
    BY <1>1
  <2>2. \A r \in Requests : calls[r] \in Asked
    BY DEF Asked
  <2> QED BY <1>2, <2>1, <2>2 DEF RequestInv
<1>4. audit = {} /\ effects = {}
  BY DEF ControlInit
<1>5. ChainInv
  <2>1. \A tenant : RowsOf(tenant) = {}
    BY <1>4 DEF RowsOf
  <2> QED BY <1>4, <2>1, FS_EmptySet DEF ChainInv, Chain
<1>6. KeyInv
  BY <1>2, ControlNone DEF KeyInv, KeyState, Undecided
<1>7. AuthInv
  BY <1>2, <1>4, ControlNone DEF AuthInv, AuthState, Unrecorded, Undecided, Decided
<1>8. MemberInv
  BY DEF ControlInit, MemberInv
<1> QED BY <1>3, <1>5, <1>6, <1>7, <1>8 DEF ControlInv

(* Every step keeps the invariant.                                          *)
LEMMA ControlInvStep == ControlInv /\ [ControlNext]_controlVars => ControlInv'
<1>1. ASSUME ControlInv, UNCHANGED controlVars PROVE ControlInv'
  BY <1>1, DirectoryStep DEF controlVars, ControlInv, MemberInv
<1> QED
  BY <1>1, HandlerStep, MembershipStep, RotateStep, RestartStep DEF ControlNext

(* The invariant holds in every reachable state.                            *)
LEMMA ControlInvHolds == ControlBehaviour => []ControlInv
<1> QED BY ControlInvInit, ControlInvStep, PTL DEF ControlBehaviour

(* No transaction is created, approved or cancelled but for an active       *)
(* member of its tenant in a role that allows it, with the decision on      *)
(* record first: require in access.py, before every mutation of api/main.   *)
THEOREM MutationsAreAuthorized == ControlBehaviour => []EffectsAreAuthorized
<1>1. ControlInv => EffectsAreAuthorized
  BY DEF ControlInv, AuthInv, AuthState, Authorized, EffectsAreAuthorized
<1> QED BY <1>1, ControlInvHolds, PTL

(* A request answered with success has its authorization and, later in the  *)
(* chain, its outcome on record, and its mutation was made.                 *)
THEOREM SuccessIsOnRecord == ControlBehaviour => []ReportedIsDurable
<1>1. ControlInv => ReportedIsDurable
  BY DEF ControlInv, AuthInv, AuthState, Durable, ReportedIsDurable
<1> QED BY <1>1, ControlInvHolds, PTL

(* Every tenant's audit records are one chain that verify_chain accepts.    *)
THEOREM AuditChainsVerify == ControlBehaviour => []ChainsVerify
<1>1. ControlInv => ChainsVerify
  BY ChainPasses DEF ControlInv
<1> QED BY <1>1, ControlInvHolds, PTL

(* A token signed with a key the issuer published all along is never        *)
(* refused for its key, whichever cache the other requests left.            *)
THEOREM ValidKeysAreFound == ControlBehaviour => []PublishedKeyIsFound
<1>1. ControlInv => PublishedKeyIsFound
  BY DEF ControlInv, KeyInv, KeyState, PublishedKeyIsFound
<1> QED BY <1>1, ControlInvHolds, PTL

(* Chains grow at their end: a tenant's records stay, and one that is new   *)
(* comes after all of them and carries the digest of the last.              *)
ChainsExtend ==
  \A tenant \in Tenants :
    LET rows == RowsOf(tenant)
        n == Cardinality(rows)
    IN /\ rows \subseteq RowsOf(tenant)'
       /\ \A new \in RowsOf(tenant)' \ rows :
            /\ new.sequence = n + 1
            /\ \A last \in rows : last.sequence = n => new.previous = Digest(last)

(* One record more, behind those of its tenant, and a chain again.          *)
LEMMA AddedAtEnd ==
  ASSUME ChainInv, ChainInv', NEW row, audit' = audit \cup {row},
         \A old \in RowsOf(row.tenant) : old.sequence < row.sequence
  PROVE  ChainsExtend
<1> SUFFICES ASSUME NEW tenant \in Tenants
             PROVE  /\ RowsOf(tenant) \subseteq RowsOf(tenant)'
                    /\ \A new \in RowsOf(tenant)' \ RowsOf(tenant) :
                         /\ new.sequence = Cardinality(RowsOf(tenant)) + 1
                         /\ \A last \in RowsOf(tenant) :
                              last.sequence = Cardinality(RowsOf(tenant)) => new.previous = Digest(last)
  BY DEF ChainsExtend
<1> DEFINE rows == RowsOf(tenant)
           n == Cardinality(rows)
<1>1. rows \subseteq RowsOf(tenant)'
  BY DEF RowsOf
<1>2. ASSUME NEW new \in RowsOf(tenant)' \ rows
      PROVE  /\ new.sequence = n + 1
             /\ \A last \in rows : last.sequence = n => new.previous = Digest(last)
  <2>1. new = row /\ row.tenant = tenant /\ RowsOf(tenant)' = rows \cup {row} /\ row \notin rows
    BY <1>2 DEF RowsOf
  <2>2. Chain(rows, n) /\ n \in Nat
    BY FS_CardinalityType DEF ChainInv, Chain
  <2>3. Cardinality(rows \cup {row}) = n + 1
    <3> HIDE DEF rows
    <3> QED BY <2>1, <2>2, FS_AddElement DEF Chain
  <2>4. Chain(rows \cup {row}, n + 1)
    <3>1. Chain(RowsOf(tenant)', Cardinality(RowsOf(tenant)'))
      BY DEF ChainInv, Chain, Digest
    <3> HIDE DEF rows, n
    <3> QED BY <2>1, <2>3, <3>1
  <2> HIDE DEF rows, n
  <2>5. row.sequence \in 1..(n + 1) /\ row.sequence # n + 1 => \E old \in rows : old.sequence = n + 1
    BY <2>2, <2>4 DEF Chain
  <2>6. row.sequence = n + 1
    BY <2>2, <2>4, <2>5 DEF Chain
  <2> QED BY <2>1, <2>2, <2>4, <2>6 DEF Chain
<1> QED BY <1>1, <1>2

(* What an auditor has verified stays verified: no step removes, changes or *)
(* inserts a record, it only adds one at the end of a tenant's chain        *)
(* (append in audit.py), whatever the requests that interleave.             *)
THEOREM ChainsOnlyExtend == ControlBehaviour => [][ChainsExtend]_controlVars
<1>1. ASSUME ControlInv, ControlInv', ControlNext PROVE ChainsExtend
  <2>0. RequestInv /\ ChainInv /\ ChainInv'
    BY <1>1 DEF ControlInv
  <2>1. CASE UNCHANGED audit
    BY <2>1 DEF ChainsExtend, RowsOf
  <2>2. ASSUME NEW r \in Requests, NEW phase \in AuditPhases,
               NEW result \in {"ALLOWED", "DENIED", "ERROR"}, Unrecorded(r, phase),
               audit' = Appended(Tenant(r), Event(r, phase, result))
        PROVE  ChainsExtend
    BY <2>0, <2>2, RecordAppears, AddedAtEnd
  <2>3. ASSUME NEW r \in Requests, Require(r) PROVE ChainsExtend
    <3>1. Unrecorded(r, "authorization")
      BY <1>1, <2>3 DEF Require, ControlInv, AuthInv, AuthState, Undecided
    <3> QED BY <2>2, <2>3, <3>1 DEF Require, AuditPhases
  <2>4. ASSUME NEW r \in Requests, RecordOutcome(r) PROVE ChainsExtend
    <3>1. Unrecorded(r, "outcome")
      BY <1>1, <2>4 DEF RecordOutcome, ControlInv, AuthInv, AuthState, Decided
    <3> QED BY <2>2, <2>4, <3>1 DEF RecordOutcome, OutcomeRecorded, AuditPhases
  <2>5. ASSUME NEW r \in Requests, HandlerNext(r) PROVE ChainsExtend
    BY <2>1, <2>3, <2>4, <2>5
    DEF HandlerNext, Authenticate, EndpointAnswers, KeysArrive, HeaderRejected, KeysUnavailable,
        ClaimsRejected, FindTenant, FindTenantFails, RequireFails, CreateTransaction,
        ApproveTransaction, CancelTransaction, Perform, PerformFails, RecordOutcomeFails
  <2> QED
    BY <1>1, <2>1, <2>5 DEF ControlNext, DirectoryNext, Provision, Replace, Rotate, Restart
<1>2. ControlInv /\ ControlInv' /\ [ControlNext]_controlVars => [ChainsExtend]_controlVars
  BY <1>1
<1> QED BY <1>2, ControlInvHolds, PTL DEF ControlBehaviour

=============================================================================
