---------------------------- MODULE RunnerRegistry ----------------------------
(***************************************************************************)
(* Enrollment and health of private runners: SQLiteRunnerRegistry of       *)
(* src/cargomesh/runner/registry.py.  Every operation is one BEGIN         *)
(* IMMEDIATE transaction, so it is one action; an operation that raises    *)
(* rolls back and changes nothing.  A definition XFault stands before X: X *)
(* with the mistake its comment names, kept to see that it is noticed.     *)
(***************************************************************************)
EXTENDS Naturals

CONSTANTS
  Runners,        \* runner ids
  Scopes,         \* (tenant, environment, pool) triples
  Capabilities,
  Challenges,     \* enrollment challenge ids
  TTL,            \* ttl_seconds of a challenge
  MaxTime,        \* bound on the clock
  None            \* SQL NULL, or no row

ASSUME RegistryAssumption ==
  /\ TTL \in Nat \ {0}
  /\ MaxTime \in Nat

VARIABLES
  now,            \* the clock the callers' time stamps come from
  challenges,     \* table enrollment_challenges
  runners         \* table runners; "via" remembers the challenge used

registryVars == <<challenges, runners>>

ChallengeRows == [scope: Scopes, expires: Nat, consumed: BOOLEAN]
Health == {"ONLINE", "OFFLINE", "REVOKED"}
RunnerRows == [scope: Scopes, capabilities: SUBSET Capabilities, health: Health,
               via: Challenges]

ASSUME RegistryNone == None \notin ChallengeRows \cup RunnerRows

RegistryTypeOK ==
  /\ now \in Nat
  /\ challenges \in [Challenges -> ChallengeRows \cup {None}]
  /\ runners \in [Runners -> RunnerRows \cup {None}]

RegistryInit ==
  /\ now = 0
  /\ challenges = [c \in Challenges |-> None]
  /\ runners = [r \in Runners |-> None]

-----------------------------------------------------------------------------
(* The id is random, so it is not one already in the table.                 *)
IssueChallenge(c, scope) ==
  /\ challenges[c] = None
  /\ challenges' = [challenges EXCEPT ![c] =
                      [scope |-> scope, expires |-> now + TTL, consumed |-> FALSE]]
  /\ UNCHANGED runners

ChallengeOpen(row) == ~row.consumed /\ row.expires > now

(* enroll: the token shown is the one issued with the challenge.            *)
Enroll(c, scope, r, capabilities) ==
  /\ challenges[c] # None
  /\ challenges[c].scope = scope
  /\ ChallengeOpen(challenges[c])
  /\ runners[r] = None
  /\ runners' = [runners EXCEPT ![r] =
                   [scope |-> scope, capabilities |-> capabilities,
                    health |-> "ONLINE", via |-> c]]
  /\ challenges' = [challenges EXCEPT ![c].consumed = TRUE]

MayReport(row, health) == row.health = "REVOKED" => health = "REVOKED"

(* _set_health behind heartbeat, mark_offline and revoke.                   *)
SetHealth(r, health) ==
  /\ runners[r] # None
  /\ MayReport(runners[r], health)
  /\ runners' = [runners EXCEPT ![r].health = health]
  /\ UNCHANGED challenges

Authorize(r, scope, capability) ==
  /\ runners[r] # None
  /\ runners[r].scope = scope
  /\ runners[r].health = "ONLINE"
  /\ capability \in runners[r].capabilities

RegistryNext ==
  \/ \E c \in Challenges, s \in Scopes : IssueChallenge(c, s)
  \/ \E c \in Challenges, s \in Scopes, r \in Runners,
        caps \in SUBSET Capabilities : Enroll(c, s, r, caps)
  \/ \E r \in Runners, h \in Health : SetHealth(r, h)

Tick == now < MaxTime /\ now' = now + 1

-----------------------------------------------------------------------------
(* A one-time token admits one runner, into the scope it was issued for,    *)
(* whichever of several simultaneous enrollments comes first.               *)
OneRunnerPerChallenge ==
  \A r \in Runners : runners[r] # None =>
    LET c == runners[r].via IN
    /\ challenges[c] # None
    /\ challenges[c].consumed
    /\ challenges[c].scope = runners[r].scope
    /\ \A q \in Runners \ {r} : runners[q] # None => runners[q].via # c

(* A revoked runner is never seen in any other condition again: neither a   *)
(* late health report nor a new enrollment under its id brings it back.     *)
RevocationIsFinal ==
  [][\A r \in Runners : runners[r] # None /\ runners[r].health = "REVOKED"
        => runners'[r] = runners[r]]_<<now, registryVars>>

=============================================================================
