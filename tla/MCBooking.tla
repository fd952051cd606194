------------------------------- MODULE MCBooking -------------------------------
(***************************************************************************)
(* Two questions over the same verification activity: bookings from end to *)
(* end, and any plan over any evidence.  A behaviour is about one of them. *)
(***************************************************************************)
EXTENDS Booking, TLC

CONSTANTS t1, t2, r1

VARIABLE focus

mcVars == <<focus, bookingVars, verificationVars>>

(* Both transactions carry one external reference.                          *)
OneRef == (t1 :> r1 @@ t2 :> r1)

Input(contract, quotation, extended, spelling, wellFormed) ==
  [contract |-> contract, quotation |-> quotation, extended |-> extended,
   spelling |-> spelling, wellFormed |-> wellFormed]

(* The first two become one DCSA request, the third is another, the rest    *)
(* are refused.                                                             *)
FiveInputs ==
  {Input(None, "q", "x", "ports", TRUE), Input(None, None, "x", "locations", TRUE),
   Input("k", None, None, "locations", TRUE), Input("k", "q", None, "locations", TRUE),
   Input("k", None, None, "ports", FALSE)}

AnyFold ==
  ("RECEIVED" :> "received" @@ "received" :> "received" @@ "CANCELLED" :> "cancelled"
     @@ "CONFLICT" :> "conflict" @@ r1 :> r1)

Actor == [system |-> "portal", adapter |-> "browser", collection |-> "run"]

AnyPlans ==
  [level: 1..3, collectors: {<<"a">>, <<"a", "b">>},
   rules: {{[claim |-> "booking.status", expected |-> e, casefold |-> f]} :
             e \in {"RECEIVED", None}, f \in BOOLEAN}]

Status(v) == [c \in {"booking.status"} |-> v]

(* Evidence that would do, and what may be different about it: whose it is, *)
(* who took it, where, when, and what it says.                              *)
Good ==
  [txn |-> t1, id |-> "e1", system |-> "ledger", channel |-> "EMAIL", collector |-> "a",
   collection |-> "own", observed |-> 0, expires |-> None, claims |-> Status("RECEIVED")]

AnyObservations ==
  LET sources == {Good, [Good EXCEPT !.system = "portal"], [Good EXCEPT !.id = "e2", !.system = "mail"],
                  [Good EXCEPT !.id = "e2", !.system = "mail", !.channel = "API"],
                  [Good EXCEPT !.collector = "browser"], [Good EXCEPT !.collection = "run"]}
      others == {[Good EXCEPT !.txn = t2], [Good EXCEPT !.observed = 2],
                 [Good EXCEPT !.expires = 1], [Good EXCEPT !.claims = Status("received")],
                 [Good EXCEPT !.claims = [c \in {"booking.external_reference"} |-> r1]]}
  IN sources \cup others \cup {[o EXCEPT !.claims = Status("CANCELLED")] : o \in sources}

GenericNext ==
  /\ UNCHANGED bookingVars
  /\ \/ VerificationOf(t1, AnyPlans, {{}, {Actor}}, AnyObservations, {"collector"})
     \/ Tick

MCInit == BookingInit /\ focus \in {"booking", "generic"}

MCNext ==
  /\ UNCHANGED focus
  /\ \/ focus = "booking" /\ BookingNext
     \/ focus = "generic" /\ GenericNext

MCSpec == MCInit /\ [][MCNext]_mcVars

(* Bookings only.                                                           *)
BookingSpec == MCInit /\ focus = "booking" /\ [][MCNext]_mcVars
=============================================================================
