------------------------------- MODULE UsageMeter ------------------------------
(***************************************************************************)
(* The usage meter of src/cargomesh/platform/usage.py: one row for a       *)
(* verified transaction, charged on the digest of its report.              *)
(*                                                                         *)
(* record is one BEGIN IMMEDIATE transaction, hence one action; callers    *)
(* repeat it when its answer is lost.  A scope is a tenant and one of its  *)
(* environments; the terms are the capability digest and the units.        *)
(***************************************************************************)
EXTENDS Naturals

CONSTANTS
  Reports,          \* verification reports
  TransactionOf,    \* the transaction a report is about
  Billable,         \* the reports that are VERIFIED and rest on no synthetic evidence
  MeterScopes,
  Terms

VARIABLES
  meters,           \* table usage_meters
  metered           \* history: what was asked, with the record that was returned

usageVars == <<meters, metered>>

UsageInit == meters = {} /\ metered = {}

(* Fault: a row of the same report is returned whatever it says.            *)
SameMeterFault(row, record) == TRUE

SameMeter(row, record) == row = record

(* record: a row of the report or of the transaction answers for it if it   *)
(* is the same record, and is a conflict otherwise.                         *)
MeterUsage(report, scope, transaction, terms) ==
  LET record == [report |-> report, scope |-> scope, transaction |-> transaction, terms |-> terms]
      found == {row \in meters : \/ row.report = report
                                 \/ row.scope = scope /\ row.transaction = transaction}
  IN /\ report \in Billable
     /\ TransactionOf[report] = transaction
     /\ \A row \in found : SameMeter(row, record)
     /\ meters' = IF found = {} THEN meters \cup {record} ELSE meters
     /\ metered' \in {metered, metered \cup {[asked |-> record, stored |->
                        IF found = {} THEN record ELSE CHOOSE row \in found : TRUE]}}

UsageNext ==
  \E report \in Reports, scope \in MeterScopes, transaction \in {TransactionOf[r] : r \in Reports},
     terms \in Terms : MeterUsage(report, scope, transaction, terms)

-----------------------------------------------------------------------------
(* A verified transaction is charged once and as asked: whatever is         *)
(* repeated, and whoever else presents its report, the records that were    *)
(* acknowledged are the rows of the table, no report backs two of them, no  *)
(* transaction of a scope has two, and each rests on a billable report of   *)
(* that transaction (usage.py, record).                                     *)
ChargedOnce ==
  /\ \A m \in metered : m.stored = m.asked /\ m.stored \in meters
  /\ \A a, b \in meters : a.report = b.report \/ (a.scope = b.scope /\ a.transaction = b.transaction)
       => a = b
  /\ \A row \in meters : row.report \in Billable /\ TransactionOf[row.report] = row.transaction
=============================================================================
