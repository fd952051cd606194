------------------------------- MODULE MCServices ------------------------------
(***************************************************************************)
(* The services around the runtime, side by side.  They share no state, so *)
(* each behaviour is one service's: "service" is chosen at the start and   *)
(* the others stand still.                                                 *)
(***************************************************************************)
EXTENDS ControlPlane, AttendedTasks, UsageMeter, ArtifactRelay, Backup, Ingestion, TLC

CONSTANTS r1, r2, m1, m2

VARIABLE service

-----------------------------------------------------------------------------
(* The control plane.                                                       *)
Ask(action, kid, resource) ==
  [action |-> action, subject |-> "ann", kid |-> kid, resource |-> resource]

Calls(first, second) == r1 :> first @@ r2 :> second

(* Two tenants' transactions at once, a creation beside a reading, and a    *)
(* transaction that does not exist.                                         *)
ThreeWorkloads ==
  {Calls(Ask("cancel", "k1", "x"), Ask("approve", "k2", "y")),
   Calls(Ask("create", "k2", "x"), Ask("read", "k2", "x")),
   Calls(Ask("cancel", "k1", "z"), Ask("read", "k1", "y"))}

(* "z" would be a transaction of tenant t.                                  *)
TwoTenants == "x" :> "t" @@ "y" :> "u" @@ "z" :> "t"

TwoRoles ==
  "operator" :> {"create", "read", "cancel"} @@ "approver" :> {"read", "approve"}

Owners == m1 :> [subject |-> "ann", tenant |-> "t"] @@ m2 :> [subject |-> "ann", tenant |-> "u"]

-----------------------------------------------------------------------------
(* Three reports, two of them about one transaction, one not billable.      *)
ThreeReports == "v1" :> "x" @@ "v2" :> "x" @@ "v3" :> "y"

-----------------------------------------------------------------------------
(* Candidates for one task: four the policy admits, two of them with the    *)
(* same receipt, and three it refuses.                                      *)
Artifact(type, media, rank, sensitive, sanitized) ==
  [task |-> "t1", type |-> type, media |-> media, rank |-> rank, sensitive |-> sensitive,
   sanitized |-> sanitized]

SomeArtifacts ==
  {Artifact("TEXT", "plain", 1, FALSE, TRUE), Artifact("TEXT", "json", 1, FALSE, TRUE),
   Artifact("TEXT", "plain", 2, FALSE, TRUE), Artifact("TEXT", "plain", 1, FALSE, FALSE),
   Artifact("EVIDENCE", "plain", 1, FALSE, TRUE), Artifact("EVIDENCE", "plain", 1, FALSE, FALSE),
   Artifact("TRACE", "plain", 1, FALSE, TRUE)}

TwoRules ==
  "TEXT" :> [maximum |-> 1, media |-> {"plain", "json"}, rank |-> 1]
    @@ "EVIDENCE" :> [maximum |-> 2, media |-> {"plain"}, rank |-> 1]

Sizes == "small" :> 1 @@ "large" :> 2

-----------------------------------------------------------------------------
(* The second write to the database migrates it.                            *)
Migrations == 0 :> 0 @@ 1 :> 0 @@ 2 :> 1

-----------------------------------------------------------------------------
(* Messages of up to three leaves in every order, some too deep, some with  *)
(* more attachments than are allowed, one with more parts.                  *)
Part(depth, multipart, encoded, attached, named, size, media, pdf) ==
  [depth |-> depth, multipart |-> multipart, encoded |-> encoded, attached |-> attached,
   named |-> named, size |-> size, media |-> media, pdf |-> pdf]

Container(depth) == Part(depth, TRUE, TRUE, FALSE, FALSE, 0, "multipart.mixed", "plain")

Leaves(depth) ==
  {Part(depth, FALSE, TRUE, FALSE, FALSE, 1, "text.plain", "plain"),
   Part(depth, FALSE, FALSE, FALSE, FALSE, 1, "text.plain", "plain"),
   Part(depth, FALSE, TRUE, TRUE, FALSE, 1, "application.pdf", "plain"),
   Part(depth, FALSE, TRUE, TRUE, TRUE, 1, "application.pdf", "pdf_active_content"),
   Part(depth, FALSE, TRUE, FALSE, TRUE, 1, "text.plain", "plain"),
   Part(depth, FALSE, TRUE, FALSE, TRUE, 2, "text.plain", "plain"),
   Part(depth, FALSE, TRUE, TRUE, FALSE, 1, "invalid", "plain")}

Bodies ==
  {<<leaf>> : leaf \in Leaves(0)}
    \cup {<<Container(0), a, b>> : a \in Leaves(1), b \in Leaves(1)}
    \cup {<<Container(0), Container(1), a>> : a \in Leaves(2)}
    \cup {<<Container(0), a, b, c>> : a \in Leaves(1), b \in Leaves(1), c \in Leaves(1)}
    \cup {<<Container(0), Container(1), Container(1), Container(1), Container(1)>>}

Mail(size, header, media, parts) == [size |-> size, header |-> header, media |-> media, parts |-> parts]

SomeMessages ==
  {Mail(1, "none", "multipart.mixed", parts) : parts \in Bodies}
    \cup {Mail(size, header, media, <<Container(0)>>) : size \in {1, 2},
            header \in {"none", "header_count_limit"}, media \in {"multipart.mixed", "invalid"}}

-----------------------------------------------------------------------------
ServicesInit ==
  /\ service \in {"control", "attended", "usage", "artifacts", "backup", "ingestion"}
  /\ ControlInit /\ AttendedInit /\ UsageInit /\ RelayInit /\ BackupInit /\ IngestionInit
  \* The message is a choice of the ingestion's behaviours only, the keys and
  \* calls one of the control plane's.
  /\ service # "ingestion" => mail = CHOOSE m \in Messages : TRUE
  /\ service # "control" =>
       published = (CHOOSE ks \in KeySets : TRUE)
         /\ req = [r \in Requests |-> Fresh((CHOOSE c \in Workloads : TRUE)[r])]

ServicesNext ==
  \/ /\ service = "control" /\ ControlNext
     /\ UNCHANGED <<service, attendedVars, usageVars, relayVars, backupVars, ingestionVars>>
  \/ /\ service = "attended" /\ AttendedNext
     /\ UNCHANGED <<service, controlVars, usageVars, relayVars, backupVars, ingestionVars>>
  \/ /\ service = "usage" /\ UsageNext
     /\ UNCHANGED <<service, controlVars, attendedVars, relayVars, backupVars, ingestionVars>>
  \/ /\ service = "artifacts" /\ RelayNext
     /\ UNCHANGED <<service, controlVars, attendedVars, usageVars, backupVars, ingestionVars>>
  \/ /\ service = "backup" /\ BackupNext
     /\ UNCHANGED <<service, controlVars, attendedVars, usageVars, relayVars, ingestionVars>>
  \/ /\ service = "ingestion" /\ IngestionNext
     /\ UNCHANGED <<service, controlVars, attendedVars, usageVars, relayVars, backupVars>>

ServicesSpec ==
  ServicesInit
    /\ [][ServicesNext]_<<service, controlVars, attendedVars, usageVars, relayVars, backupVars, ingestionVars>>
=============================================================================
