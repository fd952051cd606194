-------------------------------- MODULE Booking --------------------------------
(***************************************************************************)
(* One booking from end to end: the HTTP adapter and the activity boundary *)
(* that calls it (booking/adapter.py, booking/draft.py,                    *)
(* runtime/adapters.py), the synthetic carrier and its ledger              *)
(* (booking/synthetic_carrier.py), the ledger collector                    *)
(* (booking/evidence.py) and, through Verification, the verdict.  The      *)
(* workflow between these calls is TransactionWorkflow's: here a step is   *)
(* taken whenever the workflow could ask for it.                           *)
(*                                                                         *)
(* Requests and answers travel apart from their callers: a request may be  *)
(* lost, or handled long after its caller gave up.  So does the submit     *)
(* activity: "phase" is where it is, "code" what the workflow was told,    *)
(* which may be Temporal's "activity_failed" while the activity goes on.   *)
(* The carrier's own reference is fresh per external reference, and that   *)
(* one stands for both.                                                    *)
(***************************************************************************)
EXTENDS Verification

CONSTANTS
  RefOf,           \* the external reference of a transaction
  Inputs,          \* booking inputs of a command
  Secrets,         \* the secrets of the credential binding
  RequiredLevel    \* minimum_independence_level of the command

VARIABLES
  bookings,        \* table synthetic_bookings, by external reference
  call,            \* the submit step of each transaction
  comp,            \* its compensation
  leases,          \* secret leases open for each transaction's activity
  wire,            \* requests on their way to the carrier
  answers,         \* responses on their way to the adapter
  effects          \* history: transactions whose POST the carrier accepted

bookingVars == <<bookings, call, comp, leases, wire, answers, effects>>

Refs == {RefOf[t] : t \in Txns}

(* validate_business_rules.                                                 *)
ValidRequest(request) ==
  (request.contract = None) # (request.quotation = None /\ request.extended = None)

(* map_ir_to_booking: the request of a command's input, whichever of the    *)
(* accepted spellings it uses, or none.                                     *)
MapIrToBooking(in) ==
  LET request == [contract |-> in.contract, quotation |-> in.quotation, extended |-> in.extended]
  IN IF in.wellFormed /\ ValidRequest(request) THEN request ELSE None

(* to_dcsa: the extended quotation takes the place of the plain one.        *)
ToDcsa(request) == IF request.extended = None THEN request ELSE [request EXCEPT !.quotation = None]

(* The bodies and the rows that can come of the inputs.                     *)
DcsaBodies == {ToDcsa(MapIrToBooking(in)) : in \in {i \in Inputs : MapIrToBooking(i) # None}}
BookingRows == [request: DcsaBodies, status: {"RECEIVED", "CANCELLED"}]

(* The errors by which the adapter and the boundary say that nothing was    *)
(* booked.                                                                  *)
DefiniteCodes ==
  {"booking_schema_rejected", "booking_credential_unavailable", "credential_unavailable"}

ASSUME BookingNone ==
  None \notin BookingRows \cup DefiniteCodes
                \cup {"ok", "booking_effect_unknown", "activity_failed", "adapter_internal"}

(* The body a transaction's POST carries.                                   *)
Body(t) == ToDcsa(MapIrToBooking(call[t].input))

BookingInit ==
  /\ VerificationInit
  /\ bookings = [r \in Refs |-> None]
  /\ call = [t \in Txns |-> [phase |-> "new", code |-> None, input |-> None]]
  /\ comp = [t \in Txns |-> "none"]
  /\ leases = [t \in Txns |-> {}]
  /\ wire = {}
  /\ answers = [t \in Txns |-> None]
  /\ effects = {}

-----------------------------------------------------------------------------
(* The carrier.                                                             *)

(* Fault: a replay is recognised by its external reference alone.           *)
SameRequestFault(booking, body) == TRUE

SameRequest(booking, body) == booking.request = body

(* Fault: a create for a cancelled booking books it again.                  *)
CreatedFault(t) ==
  IF bookings[RefOf[t]] # None /\ bookings[RefOf[t]].status = "RECEIVED" THEN bookings
  ELSE [bookings EXCEPT ![RefOf[t]] = [request |-> Body(t), status |-> "RECEIVED"]]

(* create: what the table holds after an accepted request.                  *)
Created(t) ==
  IF bookings[RefOf[t]] # None THEN bookings
  ELSE [bookings EXCEPT ![RefOf[t]] = [request |-> Body(t), status |-> "RECEIVED"]]

(* cancel: what the table holds after an accepted cancellation.             *)
Cancelled(t) == [bookings EXCEPT ![RefOf[t]].status = "CANCELLED"]

(* get and ledger_by_external_reference.                                    *)
Found(t) == bookings[RefOf[t]]

Post(t) == [method |-> "POST", txn |-> t]
Patch(t) == [method |-> "PATCH", txn |-> t]

Answer(t, method, status) == answers' = [answers EXCEPT ![t] = [method |-> method, status |-> status]]

(* create_booking, accepted: 202, or 503 when the response is then lost.    *)
CarrierAccepts(t, status) ==
  /\ Post(t) \in wire
  /\ bookings[RefOf[t]] # None => SameRequest(bookings[RefOf[t]], Body(t))
  /\ status \in {202, 503}
  /\ bookings' = Created(t)
  /\ effects' = effects \cup {t}
  /\ wire' = wire \ {Post(t)}
  /\ Answer(t, "POST", status)
  /\ UNCHANGED <<call, comp, leases, verificationVars>>

(* create_booking, refused before any effect: 400 for the key or the fault  *)
(* header, 422 for the body, 409 for another request under the reference,   *)
(* 503 when the database is not available.                                  *)
CarrierRefuses(t, status) ==
  /\ Post(t) \in wire
  /\ \/ status \in {400, 422, 503}
     \/ /\ status = 409
        /\ bookings[RefOf[t]] # None /\ ~SameRequest(bookings[RefOf[t]], Body(t))
  /\ wire' = wire \ {Post(t)}
  /\ Answer(t, "POST", status)
  /\ UNCHANGED <<bookings, call, comp, leases, effects, verificationVars>>

(* cancel_booking: cancelled, also when it was already; 404 if unknown; 503 *)
(* on the injected failure.                                                 *)
CarrierCancels(t, status) ==
  /\ Patch(t) \in wire
  /\ wire' = wire \ {Patch(t)}
  /\ \/ status = 202 /\ Found(t) # None /\ bookings' = Cancelled(t)
     \/ status = 404 /\ Found(t) = None /\ UNCHANGED bookings
     \/ status = 503 /\ UNCHANGED bookings
  /\ Answer(t, "PATCH", status)
  /\ UNCHANGED <<call, comp, leases, effects, verificationVars>>

(* A request or a response is lost on the way.                              *)
MessageLost(t) ==
  /\ \/ /\ \E m \in wire : m.txn = t /\ wire' = wire \ {m}
        /\ UNCHANGED answers
     \/ /\ answers[t] # None
        /\ answers' = [answers EXCEPT ![t] = None]
        /\ UNCHANGED wire
  /\ UNCHANGED <<bookings, call, comp, leases, effects, verificationVars>>

-----------------------------------------------------------------------------
(* The adapter and the activity around it.                                  *)

(* Fault: the leases are closed only when the adapter returns a result.     *)
EndFault(t, code) ==
  /\ call' = [call EXCEPT ![t].phase = "ended", ![t].code = IF @ = None THEN code ELSE @]
  /\ leases' = [leases EXCEPT ![t] = IF code = "ok" THEN {} ELSE @]

(* CredentialLeaseSet.close.                                                *)
Released(t) == [leases EXCEPT ![t] = {}]

(* The activity ends with a result or an error, which the workflow is told  *)
(* unless it stopped waiting before; its leases are closed.                 *)
End(t, code) ==
  /\ call' = [call EXCEPT ![t].phase = "ended", ![t].code = IF @ = None THEN code ELSE @]
  /\ leases' = Released(t)

Move(t, phase) == call' = [call EXCEPT ![t].phase = phase]

(* BookingDraftAdapter.execute, the first step of the plan.                 *)
Prepare(t, input) ==
  /\ call[t].phase = "new"
  /\ call' = [call EXCEPT ![t] =
       IF MapIrToBooking(input) # None THEN [phase |-> "prepared", code |-> None, input |-> input]
       ELSE [phase |-> "ended", code |-> "booking_schema_rejected", input |-> input]]
  /\ UNCHANGED <<bookings, comp, leases, wire, answers, effects, verificationVars>>

(* _resolve_credentials: the providers lease one secret after the other,    *)
LeaseSecret(t, secret) ==
  /\ call[t].phase = "prepared" /\ secret \notin leases[t]
  /\ leases' = [leases EXCEPT ![t] = @ \cup {secret}]
  /\ UNCHANGED <<bookings, call, comp, wire, answers, effects, verificationVars>>

(* or the binding changed since the plan was made, or a provider fails, and *)
(* the leases obtained before it are closed.                                *)
ResolveFails(t) ==
  /\ call[t].phase = "prepared"
  /\ End(t, "credential_unavailable")
  /\ UNCHANGED <<bookings, comp, wire, answers, effects, verificationVars>>

(* Before the POST: no external reference in the input, or a credential     *)
(* that is empty, not text, or of a lease that has expired.                 *)
SubmitRefused(t, code) ==
  /\ code \in {"booking_schema_rejected", "booking_credential_unavailable"}
  /\ call[t].phase = "prepared" /\ leases[t] = Secrets
  /\ End(t, code)
  /\ UNCHANGED <<bookings, comp, wire, answers, effects, verificationVars>>

SendPost(t) ==
  /\ call[t].phase = "prepared" /\ leases[t] = Secrets
  /\ Move(t, "posting")
  /\ wire' = wire \cup {Post(t)}
  /\ UNCHANGED <<bookings, comp, leases, answers, effects, verificationVars>>

(* Fault: an unsuccessful response is taken for a refusal.                  *)
PostCodeFault(status) == "booking_schema_rejected"

(* _request: what an unsuccessful response to the POST is taken for.        *)
PostCode(status) == IF status = 400 THEN "booking_schema_rejected" ELSE "booking_effect_unknown"

PostAnswered(t) ==
  /\ call[t].phase = "posting"
  /\ answers[t] # None /\ answers[t].method = "POST"
  /\ answers' = [answers EXCEPT ![t] = None]
  /\ IF answers[t].status = 202
       THEN Move(t, "getting") /\ UNCHANGED leases
       ELSE End(t, PostCode(answers[t].status))
  /\ UNCHANGED <<bookings, comp, wire, effects, verificationVars>>

(* A transport failure or a timeout, the request still on its way perhaps.  *)
PostTimesOut(t) ==
  /\ call[t].phase = "posting"
  /\ End(t, "booking_effect_unknown")
  /\ UNCHANGED <<bookings, comp, wire, answers, effects, verificationVars>>

(* The GET after the POST: any failure of it leaves the effect unknown,     *)
(* any status it reports is a success.                                      *)
StatusRead(t, answered) ==
  /\ call[t].phase = "getting"
  /\ End(t, IF answered /\ Found(t) # None THEN "ok" ELSE "booking_effect_unknown")
  /\ UNCHANGED <<bookings, comp, wire, answers, effects, verificationVars>>

(* _invoke: an exception the adapter does not expect, at any point of it.   *)
AdapterRaises(t) ==
  /\ call[t].phase \in {"prepared", "posting", "getting"}
  /\ call[t].phase = "prepared" => leases[t] = Secrets
  /\ End(t, "adapter_internal")
  /\ UNCHANGED <<bookings, comp, wire, answers, effects, verificationVars>>

(* start_to_close_timeout: the activity has not ended in time.  It is not   *)
(* stopped, and nothing it does from now on reaches the workflow.           *)
ActivityTimesOut(t) ==
  /\ call[t].phase \in {"prepared", "posting", "getting"} /\ call[t].code = None
  /\ call' = [call EXCEPT ![t].code = "activity_failed"]
  /\ UNCHANGED <<bookings, comp, leases, wire, answers, effects, verificationVars>>

(* The worker is lost with all the activity holds; the one attempt its      *)
(* retry policy allows is over.                                             *)
WorkerLost(t) ==
  /\ call[t].phase # "ended"
  /\ End(t, "activity_failed")
  /\ UNCHANGED <<bookings, comp, wire, answers, effects, verificationVars>>

(* _cancel: the workflow compensates a submit that succeeded, through the   *)
(* same boundary; its leases are not followed again.                        *)
SendCancel(t) ==
  /\ call[t].code = "ok" /\ comp[t] = "none" /\ verifying[t] = None
  /\ comp' = [comp EXCEPT ![t] = "sent"]
  /\ wire' = wire \cup {Patch(t)}
  /\ UNCHANGED <<bookings, call, leases, answers, effects, verificationVars>>

CancelAnswered(t) ==
  /\ comp[t] = "sent"
  /\ answers[t] # None /\ answers[t].method = "PATCH"
  /\ comp' = [comp EXCEPT ![t] = IF answers[t].status = 202 THEN "ok" ELSE "failed"]
  /\ answers' = [answers EXCEPT ![t] = None]
  /\ UNCHANGED <<bookings, call, leases, wire, effects, verificationVars>>

CancelTimesOut(t) ==
  /\ comp[t] = "sent"
  /\ comp' = [comp EXCEPT ![t] = "failed"]
  /\ UNCHANGED <<bookings, call, leases, wire, answers, effects, verificationVars>>

-----------------------------------------------------------------------------
(* Verification of the booking.                                             *)

(* SyntheticBookingPlanner: the ledger, the reference and the status.       *)
BookingPlan(t) ==
  [level |-> RequiredLevel, collectors |-> <<"synthetic.booking.ledger">>,
   rules |-> {[claim |-> "booking.external_reference", expected |-> RefOf[t], casefold |-> FALSE],
              [claim |-> "booking.status", expected |-> "RECEIVED", casefold |-> FALSE]}]

(* Fault: the carrier counts as a source though no call of it succeeded.    *)
SourcesFault(t) ==
  {[system |-> "synthetic.carrier", adapter |-> "synthetic.booking.api", collection |-> "booking"]}

(* execution_sources: of the outputs of the steps that succeeded.           *)
Sources(t) ==
  IF call[t].code # "ok" THEN {}
  ELSE {[system |-> "synthetic.carrier", adapter |-> "synthetic.booking.api",
         collection |-> "booking"]}

(* The workflow verifies after a submit that succeeded, and to reconcile    *)
(* one whose effect is unknown.                                             *)
VerifyBooking(t) ==
  /\ call[t].code \in {"ok", "booking_effect_unknown"}
  /\ comp[t] = "none"
  /\ StartVerification(t, BookingPlan(t), Sources(t))
  /\ UNCHANGED bookingVars

(* _observation: the ledger gives no time of its own, so it is now.         *)
LedgerObservation(t, status) ==
  [txn |-> t, id |-> RefOf[t], system |-> "synthetic.ledger", channel |-> "SYSTEM_RECORD",
   collector |-> "synthetic.booking.ledger", collection |-> "booking-ledger",
   observed |-> clock, expires |-> None,
   claims |-> [c \in Claims |-> IF c = "booking.status" THEN status ELSE RefOf[t]]]

(* BookingEvidenceCollector.collect and booking_by_external_reference: the  *)
(* row, a 404, an answer the schema refuses, or a failed transport.         *)
LedgerAnswers(t) ==
  /\ Found(t) # None
  /\ CollectAnswers(t, LedgerObservation(t, Found(t).status))
  /\ UNCHANGED bookingVars

LedgerFails(t, code) ==
  /\ code \in {"evidence_unavailable", "invalid_response_schema"}
  /\ CollectFails(t, code, FALSE)
  /\ UNCHANGED bookingVars

LedgerUnreachable(t) ==
  /\ CollectFails(t, "evidence_unavailable", TRUE)
  /\ UNCHANGED bookingVars

BookingVerification(t) ==
  \/ VerifyBooking(t)
  \/ LedgerAnswers(t)
  \/ \E code \in {"evidence_unavailable", "invalid_response_schema"} : LedgerFails(t, code)
  \/ LedgerUnreachable(t)
  \/ StoreFails(t) /\ UNCHANGED bookingVars
  \/ AttemptLost(t) /\ UNCHANGED bookingVars
  \/ Evaluate(t) /\ UNCHANGED bookingVars

(* What may happen to one transaction.                                      *)
BookingOf(t) ==
  \/ \E input \in Inputs : Prepare(t, input)
  \/ \E secret \in Secrets : LeaseSecret(t, secret)
  \/ ResolveFails(t)
  \/ \E code \in {"booking_schema_rejected", "booking_credential_unavailable"} :
       SubmitRefused(t, code)
  \/ SendPost(t)
  \/ PostAnswered(t)
  \/ PostTimesOut(t)
  \/ \E answered \in BOOLEAN : StatusRead(t, answered)
  \/ AdapterRaises(t)
  \/ ActivityTimesOut(t)
  \/ WorkerLost(t)
  \/ SendCancel(t)
  \/ CancelAnswered(t)
  \/ CancelTimesOut(t)
  \/ \E status \in {202, 503} : CarrierAccepts(t, status)
  \/ \E status \in {400, 409, 422, 503} : CarrierRefuses(t, status)
  \/ \E status \in {202, 404, 503} : CarrierCancels(t, status)
  \/ MessageLost(t)
  \/ BookingVerification(t)

BookingNext ==
  \/ \E t \in Txns : BookingOf(t)
  \/ Tick /\ UNCHANGED bookingVars

-----------------------------------------------------------------------------
(* A submit of which the workflow was told that nothing was booked has no   *)
(* effect at the carrier, and none will follow from a request that is still *)
(* on its way: whatever the carrier did, whatever got lost and whenever     *)
(* adapter, worker and workflow stopped waiting.                            *)
DefiniteFailureHasNoEffect ==
  \A t \in Txns :
    call[t].code \in DefiniteCodes => t \notin effects /\ Post(t) \notin wire

(* The booking a transaction was told it has is the one it asked for, also  *)
(* when another transaction used the same external reference first.         *)
AcceptedIsThisRequest ==
  \A t \in effects : bookings[RefOf[t]].request = Body(t)

(* A compensated booking stays cancelled, whichever creates are repeated or *)
(* arrive late.                                                             *)
CompensatedIsCancelled ==
  \A t \in Txns : comp[t] = "ok" => bookings[RefOf[t]].status = "CANCELLED"

(* A transaction reported VERIFIED booked something itself: another         *)
(* transaction's booking under its reference is not enough.                 *)
VerifiedMeansBooked ==
  \A t \in Txns :
    call[t].phase = "ended" /\ reports[t] # None /\ reports[t].verdict = "VERIFIED"
      => t \in effects

(* No secret outlives the activity it was leased for.                       *)
SecretsReleased == \A t \in Txns : call[t].phase = "ended" => leases[t] = {}

(* docs/architecture/board-9-implementation-contract.md:61: "Unknown effect *)
(* immediately enters independent reconciliation. A matching ledger         *)
(* observation may produce `VERIFIED`; mismatch produces `NEEDS_REVIEW`;    *)
(* missing/unavailable evidence produces `HALTED`."                         *)
UnknownEffectReconciled ==
  \A t \in Txns :
    /\ call[t].code = "booking_effect_unknown"
    /\ reports[t] # None
    /\ \E o \in reports[t].evidence : reports[t].at <= o.observed + MaxAge
    => reports[t].verdict \in {"VERIFIED", "NEEDS_REVIEW"}

=============================================================================
