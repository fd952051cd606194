---------------------------- MODULE Services_proofs ----------------------------
(***************************************************************************)
(* What the services beside the runtime promise, for any number of         *)
(* callers and any interleaving of their statements: the attended task     *)
(* store, the usage meter, the artifact relay, the backup service and the  *)
(* ingestion of messages.  They share no state; each part below has the    *)
(* behaviours of one of them, its inductive invariant and its theorems.    *)
(***************************************************************************)
EXTENDS AttendedTasks, UsageMeter, ArtifactRelay, Backup, Ingestion, SequenceTheorems, TLAPS

-----------------------------------------------------------------------------
(* The usage meter.                                                         *)

UsageBehaviour == UsageInit /\ [][UsageNext]_usageVars

(* What the meter promises is inductive as it stands: the row that answers  *)
(* a repetition is the row the repetition asks for.                         *)
THEOREM TransactionsChargedOnce == UsageBehaviour => []ChargedOnce
<1>1. UsageInit => ChargedOnce
  BY DEF UsageInit, ChargedOnce
<1>2. ASSUME ChargedOnce, NEW report, NEW scope, NEW transaction, NEW terms,
             MeterUsage(report, scope, transaction, terms)
      PROVE  ChargedOnce'
  <2> DEFINE record == [report |-> report, scope |-> scope, transaction |-> transaction, terms |-> terms]
             found == {row \in meters : \/ row.report = report
                                        \/ row.scope = scope /\ row.transaction = transaction}
  <2>1. /\ report \in Billable /\ TransactionOf[report] = transaction
        /\ \A row \in found : row = record
        /\ meters' = IF found = {} THEN meters \cup {record} ELSE meters
        /\ metered' \in {metered, metered \cup {[asked |-> record, stored |->
                           IF found = {} THEN record ELSE CHOOSE row \in found : TRUE]}}
    BY <1>2 DEF MeterUsage, SameMeter
  <2>2. /\ record.report = report /\ record.scope = scope /\ record.transaction = transaction
    OBVIOUS
  <2>3. \A row : row \in found <=> /\ row \in meters
                                  /\ \/ row.report = report
                                     \/ row.scope = scope /\ row.transaction = transaction
    OBVIOUS
  <2> HIDE DEF record, found
  <2>4. CASE found = {}
    <3>1. meters' = meters \cup {record}
      BY <2>1, <2>4
    <3>2. metered' \in {metered, metered \cup {[asked |-> record, stored |-> record]}}
      BY <2>1, <2>4
    <3>3. \A m \in metered' : m.stored = m.asked /\ m.stored \in meters'
      BY <1>2, <3>1, <3>2 DEF ChargedOnce
    <3>4. \A a, b \in meters' :
            a.report = b.report \/ (a.scope = b.scope /\ a.transaction = b.transaction) => a = b
      BY <1>2, <2>2, <2>3, <2>4, <3>1 DEF ChargedOnce
    <3> QED BY <1>2, <2>1, <2>2, <3>1, <3>3, <3>4 DEF ChargedOnce
  <2>5. CASE found # {}
    <3>1. PICK row \in found : TRUE
      BY <2>5
    <3>2. row = record /\ record \in meters /\ (CHOOSE x \in found : TRUE) = record
      BY <2>1, <2>3, <2>5, <3>1
    <3>3. meters' = meters
      BY <2>1, <2>5
    <3>4. metered' \in {metered, metered \cup {[asked |-> record, stored |-> record]}}
      BY <2>1, <2>5, <3>2
    <3> QED BY <1>2, <3>2, <3>3, <3>4 DEF ChargedOnce
  <2> QED BY <2>4, <2>5
<1>3. ChargedOnce /\ [UsageNext]_usageVars => ChargedOnce'
  <2>1. ChargedOnce /\ UNCHANGED usageVars => ChargedOnce'
    BY DEF ChargedOnce, usageVars
  <2> QED BY <1>2, <2>1 DEF UsageNext
<1> QED BY <1>1, <1>3, PTL DEF UsageBehaviour

-----------------------------------------------------------------------------
(* The artifact relay.                                                      *)

RelayBehaviour == RelayInit /\ [][RelayNext]_relayVars

(* A key has one row; a call that has a receipt has its content in the      *)
(* sink, and one that returned it has it in the table.                      *)
RelayInv ==
  /\ DOMAIN relay = Relays
  /\ \A a, b \in receipts : Identity(a) = Identity(b) => a = b
  /\ \A r \in Relays :
       /\ relay[r].phase \in {"stored", "missing", "returned"} => relay[r].receipt.content \in sink
       /\ relay[r].phase = "returned" => relay[r].receipt \in receipts

(* Every statement of a relay keeps the invariant, the insertion by the table's key. *)
LEMMA RelayInvStep ==
  ASSUME RelayInv, NEW r \in Relays,
         \/ \E candidate \in Candidates, content \in Contents :
              \/ Denied(r, candidate, content) \/ Put(r, candidate, content)
              \/ PutFails(r, candidate, content)
         \/ LookUpReceipt(r) \/ InsertReceipt(r) \/ RelayDies(r)
  PROVE  RelayInv'
<1>1. ASSUME NEW phase, NEW receipt, Stage(r, phase, receipt)
      PROVE  /\ DOMAIN relay' = Relays /\ \A u \in Relays \ {r} : relay'[u] = relay[u]
             /\ relay'[r].phase = phase /\ relay'[r].receipt = receipt
  BY <1>1 DEF RelayInv, Stage
<1>2. ASSUME NEW phase, NEW receipt, Stage(r, phase, receipt), sink \subseteq sink',
             receipts \subseteq receipts',
             \A a, b \in receipts' : Identity(a) = Identity(b) => a = b,
             phase \in {"stored", "missing", "returned"} => receipt.content \in sink',
             phase = "returned" => receipt \in receipts'
      PROVE  RelayInv'
  <2>1. \A a : Identity(a)' = Identity(a)
    BY DEF Identity
  <2> QED BY <1>1, <1>2, <2>1 DEF RelayInv
<1>3. ASSUME NEW candidate, NEW content, Denied(r, candidate, content) \/ PutFails(r, candidate, content)
      PROVE  RelayInv'
  BY <1>2, <1>3 DEF Denied, PutFails, RelayInv
<1>4. ASSUME NEW candidate, NEW content, Put(r, candidate, content) PROVE RelayInv'
  <2>1. Receipt(r, candidate, content).content = content
    BY DEF Receipt
  <2> QED BY <1>2, <1>4, <2>1 DEF Put, RelayInv
<1>5. CASE LookUpReceipt(r)
  <2> DEFINE own == relay[r].receipt
  <2>1. relay[r].phase = "stored" /\ UNCHANGED <<sink, receipts>> /\ own.content \in sink
    BY <1>5 DEF LookUpReceipt, RelayInv
  <2>2. CASE Stage(r, "missing", own)
    BY <1>2, <2>1, <2>2 DEF RelayInv
  <2>3. ASSUME NEW row \in receipts, Identity(row) = Identity(own),
               Stage(r, "returned", row) \/ Stage(r, "conflict", NoReceipt)
        PROVE  RelayInv'
    <3>1. row.content = own.content
      BY <2>3 DEF Identity
    <3> QED BY <1>2, <2>1, <2>3, <3>1 DEF RelayInv
  <2> QED BY <1>5, <2>2, <2>3 DEF LookUpReceipt
<1>6. CASE InsertReceipt(r)
  <2> DEFINE own == relay[r].receipt
  <2>1. /\ relay[r].phase = "missing" /\ UNCHANGED sink /\ own.content \in sink
        /\ receipts' = Inserted(own)
        /\ IF own \in receipts' THEN Stage(r, "returned", own) ELSE Stage(r, "unavailable", NoReceipt)
    BY <1>6 DEF InsertReceipt, RelayInv
  <2>2. receipts \subseteq receipts' /\ \A a, b \in receipts' : Identity(a) = Identity(b) => a = b
    BY <2>1 DEF Inserted, KeyTaken, RelayInv
  <2> QED BY <1>2, <2>1, <2>2
<1>7. CASE RelayDies(r)
  BY <1>2, <1>7 DEF RelayDies, RelayInv
<1> QED BY <1>3, <1>4, <1>5, <1>6, <1>7

(* Every call that relayed an artifact got the one receipt the store keeps, *)
(* and the content is in the sink, although look-up and insertion are two   *)
(* statements and calls die between them.                                   *)
THEOREM OneReceiptPerArtifact == RelayBehaviour => []ReceiptsAgree
<1>1. RelayInit => RelayInv
  BY DEF RelayInit, RelayInv
<1>2. RelayInv /\ [RelayNext]_relayVars => RelayInv'
  <2>1. RelayInv /\ UNCHANGED relayVars => RelayInv'
    BY DEF RelayInv, relayVars, Identity
  <2> QED BY <2>1, RelayInvStep DEF RelayNext
<1>3. RelayInv => ReceiptsAgree
  BY DEF RelayInv, ReceiptsAgree, Identity
<1> QED BY <1>1, <1>2, <1>3, PTL DEF RelayBehaviour

-----------------------------------------------------------------------------
(* The backup service.                                                      *)

BackupBehaviour == BackupInit /\ [][BackupNext]_backupVars

(* A call owns its destination from the exclusive creation to its end.      *)
Owning(c) == job[c].phase \in {"created", "filled", "inspected"}

JobOK(c) ==
  /\ DOMAIN job[c] = {"kind", "phase", "path", "manifest"}
  /\ job[c].phase # "idle" =>
       /\ job[c].kind \in {"backup", "restore"} /\ job[c].path \in Paths
       /\ job[c].kind = "backup" => job[c].manifest = Manifest(job[c].path, NoFile, job[c].manifest.user)
       /\ job[c].kind = "restore" => job[c].manifest \in manifests

OwnerInv ==
  /\ live \in Nat /\ DOMAIN files = Paths /\ DOMAIN job = BackupCalls
  /\ \A c \in BackupCalls : JobOK(c)
  /\ \A c \in BackupCalls : Owning(c) => files[job[c].path] # NoFile
  /\ \A c, d \in BackupCalls : Owning(c) /\ Owning(d) /\ job[c].path = job[d].path => c = d
  /\ \A m \in manifests :
       /\ m.path \in Paths /\ files[m.path] # NoFile
       /\ \A c \in BackupCalls : Owning(c) => job[c].path # m.path

(* Advancing a call touches its phase and nothing else.                     *)
LEMMA AdvanceMoves ==
  ASSUME OwnerInv, NEW c \in BackupCalls, NEW phase, Advance(c, phase)
  PROVE  /\ DOMAIN job' = BackupCalls /\ \A d \in BackupCalls \ {c} : job'[d] = job[d]
         /\ DOMAIN job'[c] = {"kind", "phase", "path", "manifest"}
         /\ job'[c].phase = phase /\ job'[c].kind = job[c].kind /\ job'[c].path = job[c].path
         /\ job'[c].manifest = job[c].manifest
<1>1. DOMAIN job = BackupCalls /\ DOMAIN job[c] = {"kind", "phase", "path", "manifest"}
  BY DEF OwnerInv, JobOK
<1> QED BY <1>1 DEF Advance

(* A step that writes no file but its own and hands out no manifest.        *)
LEMMA OwnerKeeps ==
  ASSUME OwnerInv, ManifestsHold, NEW c \in BackupCalls, NEW phase, Advance(c, phase),
         UNCHANGED <<live, manifests, damage>>, job[c].phase # "idle", DOMAIN files' = Paths,
         \A q \in Paths : q # job[c].path => files'[q] = files[q],
         \/ UNCHANGED files
         \/ Owning(c) \/ files[job[c].path] = NoFile,
         phase \in {"created", "filled", "inspected"} =>
           /\ files'[job[c].path] # NoFile
           /\ Owning(c) \/ files[job[c].path] = NoFile,
         \A done \in restored' : done.content = done.manifest.version
  PROVE  OwnerInv' /\ ManifestsHold'
<1>1. /\ JobOK(c) /\ DOMAIN files = Paths /\ live \in Nat
      /\ \A d \in BackupCalls : JobOK(d)
      /\ \A d \in BackupCalls : Owning(d) => files[job[d].path] # NoFile
      /\ \A b, d \in BackupCalls : Owning(b) /\ Owning(d) /\ job[b].path = job[d].path => b = d
      /\ \A m \in manifests :
           /\ m.path \in Paths /\ files[m.path] # NoFile
           /\ \A d \in BackupCalls : Owning(d) => job[d].path # m.path
  BY DEF OwnerInv
<1>2. /\ DOMAIN job' = BackupCalls /\ \A d \in BackupCalls \ {c} : job'[d] = job[d]
      /\ DOMAIN job'[c] = {"kind", "phase", "path", "manifest"}
      /\ job'[c].phase = phase /\ job'[c].kind = job[c].kind /\ job'[c].path = job[c].path
      /\ job'[c].manifest = job[c].manifest
  BY AdvanceMoves
<1>3. \A d \in BackupCalls : job'[d].path = job[d].path /\ (d # c => (Owning(d)' <=> Owning(d)))
  BY <1>2 DEF Owning
<1>4. Owning(c)' => files'[job[c].path] # NoFile /\ (Owning(c) \/ files[job[c].path] = NoFile)
  BY <1>2 DEF Owning
<1>5. \A d \in BackupCalls : JobOK(d)'
  BY <1>1, <1>2 DEF JobOK, Manifest
<1>6. UNCHANGED files \/ \A d \in BackupCalls \ {c} : Owning(d) => job[d].path # job[c].path
  BY <1>1
<1>7. Owning(c)' => \A d \in BackupCalls \ {c} : Owning(d) => job[d].path # job[c].path
  BY <1>1, <1>4
<1>8. job[c].path \in Paths /\ \A d \in BackupCalls : Owning(d) => job[d].path \in Paths
  BY <1>1 DEF JobOK, Owning
<1>9. \A d \in BackupCalls : Owning(d)' => files'[job'[d].path] # NoFile
  BY <1>1, <1>3, <1>4, <1>6, <1>8
<1>10. \A b, d \in BackupCalls : Owning(b)' /\ Owning(d)' /\ job'[b].path = job'[d].path => b = d
  BY <1>1, <1>3, <1>7
<1>11. \A m \in manifests : UNCHANGED files \/ m.path # job[c].path
  BY <1>1
<1>12. \A m \in manifests : Owning(c)' => job[c].path # m.path
  BY <1>1, <1>4
<1>13. \A m \in manifests : files'[m.path] = files[m.path]
  BY <1>1, <1>11
<1>14. OwnerInv'
  BY <1>1, <1>2, <1>3, <1>5, <1>9, <1>10, <1>12, <1>13 DEF OwnerInv
<1> QED BY <1>13, <1>14 DEF ManifestsHold

(* Every step of a backup or restore keeps the owners of paths and the manifests. *)
LEMMA BackupStep ==
  ASSUME OwnerInv, ManifestsHold, BackupNext
  PROVE  OwnerInv' /\ ManifestsHold'
<1>0. /\ \A c \in BackupCalls : JobOK(c) /\ (job[c].phase # "idle" => job[c].path \in Paths)
      /\ DOMAIN files = Paths /\ DOMAIN job = BackupCalls
  BY DEF OwnerInv, JobOK
<1>1. CASE LiveWrites
  BY <1>1 DEF LiveWrites, OwnerInv, JobOK, Owning, Manifest, ManifestsHold
<1>2. ASSUME NEW p \in Paths, Damage(p) PROVE OwnerInv' /\ ManifestsHold'
  <2>1. /\ DOMAIN files' = Paths /\ \A q \in Paths \ {p} : files'[q] = files[q]
        /\ files'[p] # NoFile /\ damage' = damage \cup {p}
        /\ UNCHANGED <<live, job, manifests, restored>>
    BY <1>0, <1>2, BackupAssumption DEF Damage
  <2>2. \A q \in Paths : files[q] # NoFile => files'[q] # NoFile
    BY <2>1
  <2>3. \A c \in BackupCalls : Owning(c) => job[c].path \in Paths
    BY <1>0 DEF Owning
  <2>4. OwnerInv'
    BY <2>1, <2>2, <2>3 DEF OwnerInv, JobOK, Owning, Manifest
  <2>5. ManifestsHold'
    BY <2>1 DEF ManifestsHold, OwnerInv
  <2> QED BY <2>4, <2>5
<1>3. ASSUME NEW c \in BackupCalls, NEW p \in Paths, NEW new,
             job' = [job EXCEPT ![c] = new], UNCHANGED <<live, files, manifests, restored, damage>>,
             DOMAIN new = {"kind", "phase", "path", "manifest"},
             new.phase = "checked", new.path = p, new.kind \in {"backup", "restore"},
             new.kind = "backup" => new.manifest = Manifest(p, NoFile, new.manifest.user),
             new.kind = "restore" => new.manifest \in manifests
      PROVE  OwnerInv' /\ ManifestsHold'
  <2>1. /\ DOMAIN job' = BackupCalls /\ job'[c] = new
        /\ \A d \in BackupCalls \ {c} : job'[d] = job[d]
    BY <1>0, <1>3
  <2>2. ~Owning(c)' /\ \A d \in BackupCalls \ {c} : (Owning(d)' <=> Owning(d))
    BY <1>3, <2>1 DEF Owning
  <2>3. \A d \in BackupCalls : JobOK(d)'
    BY <1>0, <1>3, <2>1 DEF JobOK, Manifest
  <2>4. OwnerInv'
    BY <1>3, <2>1, <2>2, <2>3 DEF OwnerInv
  <2> QED BY <1>3, <2>4 DEF ManifestsHold
<1>4. ASSUME NEW c \in BackupCalls, NEW p \in Paths, BeginBackup(c, p)
      PROVE  OwnerInv' /\ ManifestsHold'
  <2> DEFINE new == [kind |-> "backup", phase |-> "checked", path |-> p,
                     manifest |-> Manifest(p, NoFile, UserVersion[live])]
  <2>1. /\ DOMAIN new = {"kind", "phase", "path", "manifest"}
        /\ new.phase = "checked" /\ new.path = p /\ new.kind = "backup"
        /\ new.manifest = Manifest(p, NoFile, new.manifest.user)
    BY DEF Manifest
  <2>2. job' = [job EXCEPT ![c] = new] /\ UNCHANGED <<live, files, manifests, restored, damage>>
    BY <1>4 DEF BeginBackup
  <2> HIDE DEF new
  <2> QED BY <1>3, <2>1, <2>2
<1>5. ASSUME NEW c \in BackupCalls, NEW p \in Paths, NEW m \in manifests, BeginRestore(c, m, p)
      PROVE  OwnerInv' /\ ManifestsHold'
  <2> DEFINE new == [kind |-> "restore", phase |-> "checked", path |-> p, manifest |-> m]
  <2>1. /\ DOMAIN new = {"kind", "phase", "path", "manifest"}
        /\ new.phase = "checked" /\ new.path = p /\ new.kind = "restore" /\ new.manifest = m
    OBVIOUS
  <2>2. job' = [job EXCEPT ![c] = new] /\ UNCHANGED <<live, files, manifests, restored, damage>>
    BY <1>5 DEF BeginRestore
  <2> HIDE DEF new
  <2> QED BY <1>3, <2>1, <2>2
<1>6. ASSUME NEW c \in BackupCalls, CreateDestination(c) PROVE OwnerInv' /\ ManifestsHold'
  <2>1. /\ job[c].phase = "checked" /\ UNCHANGED <<live, manifests, restored, damage>>
        /\ job[c].path \in Paths
        /\ \/ /\ files[job[c].path] = NoFile /\ files' = [files EXCEPT ![job[c].path] = Empty]
              /\ Advance(c, "created")
           \/ UNCHANGED files /\ Advance(c, "failed")
    BY <1>0, <1>6 DEF CreateDestination, Exclusive
  <2> QED BY <1>0, <2>1, OwnerKeeps, BackupAssumption DEF ManifestsHold
<1>7. ASSUME NEW c \in BackupCalls, Fill(c) PROVE OwnerInv' /\ ManifestsHold'
  <2> DEFINE copied == IF job[c].kind = "backup" THEN live ELSE files[job[c].manifest.path]
  <2>1. /\ job[c].phase = "created" /\ UNCHANGED <<live, manifests, restored, damage>>
        /\ job[c].path \in Paths /\ Owning(c) /\ Advance(c, "filled")
        /\ files' = [files EXCEPT ![job[c].path] = copied]
    BY <1>0, <1>7 DEF Fill, Owning
  <2>2. copied # NoFile
    BY <2>1, BackupAssumption DEF OwnerInv, JobOK
  <2> HIDE DEF copied
  <2> QED BY <1>0, <2>1, <2>2, OwnerKeeps DEF ManifestsHold
<1>8. ASSUME NEW c \in BackupCalls, Inspect(c) \/ CallFails(c) \/ CallDies(c)
      PROVE  OwnerInv' /\ ManifestsHold'
  <2>1. CASE Inspect(c)
    <3>1. /\ job[c].phase = "filled" /\ UNCHANGED <<live, files, manifests, restored, damage>>
          /\ Owning(c) /\ Advance(c, "inspected") /\ files[job[c].path] # NoFile
      BY <2>1 DEF Inspect, Owning
    <3> QED BY <1>0, <3>1, OwnerKeeps DEF ManifestsHold
  <2>2. CASE CallFails(c)
    <3>1. /\ Owning(c) /\ UNCHANGED <<live, manifests, restored, damage>>
          /\ Advance(c, "failed") /\ files' = [files EXCEPT ![job[c].path] = NoFile]
          /\ job[c].phase # "idle"
      BY <2>2 DEF CallFails, Owning
    <3> QED BY <1>0, <3>1, OwnerKeeps DEF ManifestsHold
  <2>3. CASE CallDies(c)
    <3>1. /\ UNCHANGED <<live, files, manifests, restored, damage>>
          /\ Advance(c, "dead") /\ job[c].phase # "idle"
      BY <2>3 DEF CallDies
    <3> QED BY <1>0, <3>1, OwnerKeeps DEF ManifestsHold
  <2> QED BY <1>8, <2>1, <2>2, <2>3
<1>9. ASSUME NEW c \in BackupCalls, Return(c) PROVE OwnerInv' /\ ManifestsHold'
  <2> DEFINE p == job[c].path
  <2>1. /\ job[c].phase = "inspected" /\ DigestMatches(c) /\ Advance(c, "returned")
        /\ UNCHANGED <<live, files, damage>> /\ Owning(c) /\ p \in Paths
    BY <1>0, <1>9 DEF Return, Owning
  <2>2. CASE job[c].kind = "backup"
    <3> DEFINE m == [job[c].manifest EXCEPT !.version = files[p]]
    <3>1. manifests' = manifests \cup {m} /\ UNCHANGED restored
      BY <1>9, <2>2 DEF Return
    <3>2. m.path = p /\ m.version = files[p]
      <4>1. job[c].manifest = Manifest(p, NoFile, job[c].manifest.user)
        BY <1>0, <2>1, <2>2 DEF JobOK
      <4>2. \A user : /\ DOMAIN Manifest(p, NoFile, user) = {"path", "version", "user"}
                     /\ Manifest(p, NoFile, user).path = p
        BY DEF Manifest
      <4>3. DOMAIN job[c].manifest = {"path", "version", "user"} /\ job[c].manifest.path = p
        BY <4>1, <4>2
      <4> QED BY <4>3
    <3> HIDE DEF m
    <3>3. /\ DOMAIN job' = BackupCalls /\ \A d \in BackupCalls \ {c} : job'[d] = job[d]
          /\ DOMAIN job'[c] = {"kind", "phase", "path", "manifest"}
          /\ job'[c].phase = "returned" /\ job'[c].kind = job[c].kind /\ job'[c].path = job[c].path
          /\ job'[c].manifest = job[c].manifest
      BY <2>1, AdvanceMoves
    <3>4. ~Owning(c)' /\ \A d \in BackupCalls \ {c} : (Owning(d)' <=> Owning(d))
      BY <3>3 DEF Owning
    <3>5. \A d \in BackupCalls \ {c} : Owning(d) => job[d].path # p
      BY <2>1 DEF OwnerInv
    <3>6. \A d \in BackupCalls : JobOK(d)'
      BY <1>0, <2>1, <3>1, <3>3 DEF JobOK, Manifest
    <3>7. files[p] # NoFile
      BY <2>1 DEF OwnerInv
    <3>8. OwnerInv'
      BY <2>1, <3>1, <3>2, <3>3, <3>4, <3>5, <3>6, <3>7 DEF OwnerInv
    <3>9. ManifestsHold'
      BY <2>1, <3>1, <3>2 DEF ManifestsHold
    <3> QED BY <3>8, <3>9
  <2>3. CASE job[c].kind # "backup"
    <3>1. UNCHANGED manifests
          /\ restored' = restored \cup {[manifest |-> job[c].manifest, content |-> files[p]]}
      BY <1>9, <2>3 DEF Return
    <3>2. files[p] = job[c].manifest.version
      BY <1>0, <2>1, <2>3 DEF JobOK, DigestMatches
    <3>3. \A done \in restored' : done.content = done.manifest.version
      BY <3>1, <3>2 DEF ManifestsHold
    <3> QED BY <1>0, <2>1, <3>1, <3>3, OwnerKeeps
  <2> QED BY <2>2, <2>3
<1> QED
  BY <1>1, <1>2, <1>4, <1>5, <1>6, <1>7, <1>8, <1>9 DEF BackupNext

(* No backup is overwritten or removed by another call, and a restore       *)
(* reports only what its manifest says.                                     *)
THEOREM BackupsStayIntact == BackupBehaviour => []ManifestsHold
<1>1. BackupInit => OwnerInv /\ ManifestsHold
  BY DEF BackupInit, OwnerInv, JobOK, Owning, ManifestsHold
<1>2. OwnerInv /\ ManifestsHold /\ [BackupNext]_backupVars => OwnerInv' /\ ManifestsHold'
  <2>1. OwnerInv /\ ManifestsHold /\ UNCHANGED backupVars => OwnerInv' /\ ManifestsHold'
    BY DEF backupVars, OwnerInv, JobOK, Owning, Manifest, ManifestsHold
  <2> QED BY <2>1, BackupStep
<1> QED BY <1>1, <1>2, PTL DEF BackupBehaviour

-----------------------------------------------------------------------------
(* The attended task store.                                                 *)

AttendedBehaviour == AttendedInit /\ [][AttendedNext]_attendedVars

(* The tables hold what they are declared for.                              *)
AttendedTypes ==
  /\ now \in Nat
  /\ records \in [Tasks -> Records \cup {Absent}]
  /\ leases \subseteq Leases
  /\ creating \in [Creators -> TaskRequests \cup {Absent}]
  /\ created \in [Creators -> TaskRequests \cup {Absent}]
  /\ reported \subseteq Completions

(* Leases are numbered per task; the record is that of the last one, whose  *)
(* predecessors have run out.                                               *)
LastLease(l, t) ==
  /\ l.task = t /\ l.token = records[t].token /\ l.principal = records[t].principal
  /\ records[t].status = "CLAIMED" => records[t].expires = l.expires

LeaseInv ==
  /\ \A l \in leases :
       /\ records[l.task] # Absent
       /\ l.token >= 1 /\ l.token <= records[l.task].token
       /\ l.token < records[l.task].token => l.expires <= now
  /\ \A l, m \in leases : l.task = m.task /\ l.token = m.token => l = m
  /\ \A done \in reported : done.lease \in leases
  /\ \A t \in Tasks : records[t] # Absent =>
       /\ records[t].status = "PENDING" => records[t].token = 0
       /\ records[t].status # "PENDING" =>
            \E l \in leases : LastLease(l, t)

AttendedInv == AttendedTypes /\ LeaseInv /\ AcknowledgedIsStored

(* create, found or inserted, never replaces a task that exists.            *)
LEMMA CreateStep ==
  ASSUME AttendedInv, NEW c \in Creators,
         \/ \E t \in Tasks, d \in Digests : CreateFound(c, t, d) \/ CreateSelect(c, t, d)
         \/ CreateInsert(c)
  PROVE  AttendedInv'
<1> USE DEF AttendedInv
<1>1. ASSUME NEW t \in Tasks, NEW d \in Digests, CreateFound(c, t, d) PROVE AttendedInv'
  <2>1. /\ records[t] # Absent /\ records[t].digest = d
        /\ created' = [created EXCEPT ![c] = [task |-> t, digest |-> d]]
        /\ UNCHANGED <<now, records, leases, creating, reported>>
    BY <1>1 DEF CreateFound, SameTask
  <2>2. [task |-> t, digest |-> d] \in TaskRequests
    BY DEF TaskRequests
  <2>3. AttendedTypes'
    BY <2>1, <2>2 DEF AttendedTypes
  <2>4. LeaseInv'
    BY <2>1 DEF LeaseInv, LastLease
  <2>5. AcknowledgedIsStored'
    BY <2>1, <2>2 DEF AcknowledgedIsStored, AttendedTypes
  <2> QED BY <2>3, <2>4, <2>5
<1>2. ASSUME NEW t \in Tasks, NEW d \in Digests, CreateSelect(c, t, d) PROVE AttendedInv'
  <2>1. /\ creating' = [creating EXCEPT ![c] = [task |-> t, digest |-> d]]
        /\ UNCHANGED <<now, records, leases, created, reported>>
    BY <1>2 DEF CreateSelect
  <2>2. [task |-> t, digest |-> d] \in TaskRequests
    BY DEF TaskRequests
  <2>3. AttendedTypes'
    BY <2>1, <2>2 DEF AttendedTypes
  <2>4. LeaseInv' /\ AcknowledgedIsStored'
    BY <2>1 DEF LeaseInv, LastLease, AcknowledgedIsStored
  <2> QED BY <2>3, <2>4
<1>3. CASE CreateInsert(c)
  <2> DEFINE t == creating[c].task
             new == [digest |-> creating[c].digest, status |-> "PENDING", token |-> 0,
                     principal |-> Absent, expires |-> Absent, result |-> Absent]
  <2>1. /\ creating[c] \in TaskRequests /\ t \in Tasks /\ creating[c].digest \in Digests
        /\ creating' \in [Creators -> TaskRequests \cup {Absent}]
        /\ UNCHANGED <<now, leases, reported>>
    BY <1>3 DEF CreateInsert, AttendedTypes, TaskRequests
  <2>2. /\ new \in Records /\ new.status = "PENDING" /\ new.token = 0
        /\ new.digest = creating[c].digest
    BY <2>1 DEF Records, Statuses
  <2>3. CASE UNCHANGED <<records, created>>
    BY <2>1, <2>3 DEF AttendedTypes, LeaseInv, LastLease, AcknowledgedIsStored
  <2>4. CASE /\ records[t] = Absent /\ records' = [records EXCEPT ![t] = new]
             /\ created' = [created EXCEPT ![c] = creating[c]]
    <3> HIDE DEF new
    <3>1. AttendedTypes'
      BY <2>1, <2>2, <2>4 DEF AttendedTypes
    <3>2. \A l \in leases : l.task # t /\ l.task \in Tasks
      BY <2>4 DEF LeaseInv, AttendedTypes, Leases
    <3>3. /\ records'[t] = new /\ new # Absent /\ \A u \in Tasks \ {t} : records'[u] = records[u]
      BY <2>1, <2>2, <2>4, AttendedAbsent DEF AttendedTypes
    <3>4. LeaseInv'
      BY <2>1, <2>2, <3>2, <3>3 DEF LeaseInv, LastLease
    <3>5. \A done \in reported : done.lease.task \in Tasks \ {t}
      BY <3>2 DEF LeaseInv
    <3>6. \A x \in Creators : created[x] # Absent => created[x].task \in Tasks \ {t}
      BY <2>4 DEF AcknowledgedIsStored, AttendedTypes, TaskRequests
    <3>7. AcknowledgedIsStored'
      <4>1. \A x \in Creators : created'[x] = IF x = c THEN creating[c] ELSE created[x]
        BY <2>4 DEF AttendedTypes
      <4> QED BY <2>1, <2>2, <3>3, <3>5, <3>6, <4>1 DEF AcknowledgedIsStored
    <3> QED BY <3>1, <3>4, <3>7
  <2> QED BY <1>3, <2>3, <2>4 DEF CreateInsert
<1> QED BY <1>1, <1>2, <1>3

(* A claim raises the fence, so that an older lease is no longer the holder's. *)
LEMMA ClaimStep ==
  ASSUME AttendedInv, NEW t \in Tasks, NEW p \in Principals, NEW time \in 0..now,
         Claim(t, p, time)
  PROVE  AttendedInv'
<1> USE DEF AttendedInv
<1> DEFINE record == records[t]
           lease == [task |-> t, principal |-> p, token |-> NextFence(record),
                     expires |-> time + LeaseSeconds]
           new == [digest |-> record.digest, status |-> "CLAIMED", token |-> lease.token,
                   principal |-> p, expires |-> lease.expires, result |-> Absent]
<1>1. /\ record # Absent /\ ~Terminal(record) /\ ~ActiveLease(record, time)
      /\ leases' = leases \cup {lease} /\ records' = [records EXCEPT ![t] = new]
      /\ UNCHANGED <<now, creating, created, reported>>
  BY DEF Claim
<1>2. record \in Records /\ now \in Nat /\ time \in Nat /\ time <= now
  BY <1>1 DEF AttendedTypes
<1>3. /\ lease \in Leases /\ lease.task = t /\ lease.principal = p
      /\ lease.token = record.token + 1 /\ lease.expires \in Nat
  BY <1>2, AttendedAssumption DEF Leases, Records, NextFence
<1>4. /\ new \in Records /\ new.status = "CLAIMED" /\ new.token = record.token + 1
      /\ new.principal = p /\ new.expires = lease.expires /\ new.digest = record.digest
  BY <1>2, <1>3 DEF Records, Statuses, Leases
<1> HIDE DEF lease, new
<1>5. /\ records'[t] = new /\ new # Absent /\ \A u \in Tasks \ {t} : records'[u] = records[u]
  BY <1>1, <1>4, AttendedAbsent DEF AttendedTypes
<1>6. AttendedTypes'
  BY <1>1, <1>3, <1>4 DEF AttendedTypes
<1>7. \A l \in leases : l \in Leases /\ l.task \in Tasks /\ l.token \in Nat /\ l.expires \in Nat
  BY DEF AttendedTypes, Leases
<1>8. \A l \in leases : l.task = t => l.expires <= now /\ l.token <= record.token /\ l.token >= 1
  <2> SUFFICES ASSUME NEW l \in leases, l.task = t
               PROVE  l.expires <= now /\ l.token <= record.token /\ l.token >= 1
    OBVIOUS
  <2>1. l.token >= 1 /\ l.token <= record.token /\ (l.token < record.token => l.expires <= now)
    BY DEF LeaseInv
  <2>2. CASE l.token < record.token
    BY <2>1, <2>2
  <2>3. CASE l.token = record.token
    <3>1. record.status # "PENDING" /\ record.status = "CLAIMED"
      BY <1>1, <1>2, <2>1, <2>3 DEF LeaseInv, Terminal, Records, Statuses
    <3>2. PICK m \in leases : m.task = t /\ m.token = record.token /\ record.expires = m.expires
      <4>1. PICK m \in leases : LastLease(m, t)
        BY <1>1, <3>1 DEF LeaseInv
      <4> QED BY <3>1, <4>1 DEF LastLease
    <3>3. m = l
      BY <2>3, <3>2 DEF LeaseInv
    <3>4. ~(record.expires # Absent /\ record.expires > time)
      BY <1>1, <3>1 DEF ActiveLease
    <3>5. record.expires = l.expires /\ l.expires # Absent
      BY <1>7, <3>2, <3>3, AttendedAbsent
    <3> QED BY <1>2, <1>7, <2>1, <3>4, <3>5
  <2>4. record.token \in Nat
    BY <1>2 DEF Records
  <2> QED BY <1>7, <2>1, <2>2, <2>3, <2>4
<1>9. record.token \in Nat
  BY <1>2 DEF Records
<1>10. LeaseInv'
  <2>1. ASSUME NEW l \in leases'
        PROVE  /\ records'[l.task] # Absent
               /\ l.token >= 1 /\ l.token <= records'[l.task].token
               /\ l.token < records'[l.task].token => l.expires <= now'
    <3>1. CASE l = lease
      BY <1>1, <1>3, <1>4, <1>5, <1>9, <3>1
    <3>2. CASE l \in leases /\ l.task = t
      BY <1>1, <1>4, <1>5, <1>7, <1>8, <1>9, <3>2
    <3>3. CASE l \in leases /\ l.task # t
      BY <1>1, <1>5, <1>7, <3>3 DEF LeaseInv
    <3> QED BY <1>1, <3>1, <3>2, <3>3
  <2>2. \A l, m \in leases' : l.task = m.task /\ l.token = m.token => l = m
    <3>1. \A l \in leases : l.task = t => l.token # lease.token
      BY <1>3, <1>7, <1>8, <1>9
    <3> QED BY <1>1, <1>3, <3>1 DEF LeaseInv
  <2>3. ASSUME NEW u \in Tasks, records'[u] # Absent
        PROVE  /\ records'[u].status = "PENDING" => records'[u].token = 0
               /\ records'[u].status # "PENDING" =>
                    \E l \in leases' : LastLease(l, u)'
    <3>1. CASE u = t
      BY <1>1, <1>3, <1>4, <1>5, <3>1 DEF LastLease
    <3>2. CASE u # t
      BY <1>1, <1>5, <2>3, <3>2 DEF LeaseInv, LastLease
    <3> QED BY <3>1, <3>2
  <2> QED BY <1>1, <2>1, <2>2, <2>3 DEF LeaseInv
<1>11. \A done \in reported : done.lease.task \in Tasks \ {t}
  <2> SUFFICES ASSUME NEW done \in reported, done.lease.task = t PROVE FALSE
    BY <1>7 DEF LeaseInv
  <2>1. record.status \in {"REJECTED", "COMPLETED"}
    BY DEF AcknowledgedIsStored
  <2> QED BY <1>1, <2>1 DEF Terminal
<1>12. AcknowledgedIsStored'
  <2>1. \A x \in Creators : created[x] # Absent => created[x].task \in Tasks
    BY DEF AttendedTypes, TaskRequests
  <2> QED BY <1>1, <1>4, <1>5, <1>11, <2>1 DEF AcknowledgedIsStored
<1> QED BY <1>6, <1>10, <1>12

(* Only the holder of the current fence completes, and only once.           *)
LEMMA CompleteStep ==
  ASSUME AttendedInv, NEW lease \in leases, NEW result \in Results, NEW rejected \in BOOLEAN,
         NEW time \in 0..now, Complete([lease |-> lease, result |-> result, rejected |-> rejected], time)
  PROVE  AttendedInv'
<1> USE DEF AttendedInv
<1> DEFINE done == [lease |-> lease, result |-> result, rejected |-> rejected]
           t == lease.task
<1>1. lease \in Leases /\ t \in Tasks /\ lease.token \in Nat /\ lease.principal \in Principals
  BY DEF AttendedTypes, Leases
<1>2. done.lease = lease /\ done.result = result /\ done.rejected = rejected /\ done \in Completions
  BY <1>1 DEF Completions
<1> HIDE DEF done
<1>3. /\ records[t] # Absent /\ reported' \in {reported, reported \cup {done}}
      /\ UNCHANGED <<now, leases, creating, created>>
      /\ \/ SameCompletion(records[t], done) /\ UNCHANGED records
         \/ /\ ~Terminal(records[t]) /\ CurrentLease(records[t], lease, time)
            /\ records' = [records EXCEPT ![t] = Completed(@, done)]
  BY <1>2 DEF Complete, done
<1>4. CASE SameCompletion(records[t], done) /\ UNCHANGED records
  <2>1. /\ records[t].status = (IF done.rejected THEN "REJECTED" ELSE "COMPLETED")
        /\ records[t].result = done.result /\ records[t].principal = done.lease.principal
    BY <1>4 DEF SameCompletion, Outcome
  <2>2. AttendedTypes' /\ LeaseInv'
    BY <1>2, <1>3, <1>4 DEF AttendedTypes, LeaseInv, LastLease
  <2>3. AcknowledgedIsStored'
    BY <1>2, <1>3, <1>4, <2>1 DEF AcknowledgedIsStored
  <2> QED BY <2>2, <2>3
<1>5. CASE /\ ~Terminal(records[t]) /\ CurrentLease(records[t], lease, time)
           /\ records' = [records EXCEPT ![t] = Completed(@, done)]
  <2> DEFINE new == Completed(records[t], done)
  <2>1. records[t] \in Records
    BY <1>1, <1>3 DEF AttendedTypes
  <2>2. /\ new \in Records /\ new.status = (IF done.rejected THEN "REJECTED" ELSE "COMPLETED")
        /\ new.token = lease.token /\ new.principal = lease.principal /\ new.result = result
        /\ new.digest = records[t].digest
    BY <1>1, <1>2, <2>1 DEF Completed, Outcome, Records, Statuses
  <2>3. records[t].token = lease.token
    BY <1>5 DEF CurrentLease
  <2>4. /\ records'[t] = new /\ \A u \in Tasks \ {t} : records'[u] = records[u]
    BY <1>1, <1>5 DEF AttendedTypes
  <2>5. records' \in [Tasks -> Records \cup {Absent}]
    BY <1>1, <1>5, <2>2 DEF AttendedTypes
  <2> HIDE DEF new
  <2>6. new # Absent
    BY <2>2, AttendedAbsent
  <2>7. AttendedTypes'
    BY <1>2, <1>3, <2>5 DEF AttendedTypes
  <2>8. LeaseInv'
    <3>1. \A l \in leases : l.task \in Tasks
      BY DEF AttendedTypes, Leases
    <3>2. ASSUME NEW l \in leases
          PROVE  /\ records'[l.task] # Absent
                 /\ l.token >= 1 /\ l.token <= records'[l.task].token
                 /\ l.token < records'[l.task].token => l.expires <= now
      <4>1. CASE l.task = t
        BY <2>2, <2>3, <2>4, <2>6, <4>1 DEF LeaseInv
      <4>2. CASE l.task # t
        BY <2>4, <3>1, <4>2 DEF LeaseInv
      <4> QED BY <4>1, <4>2
    <3>3. ASSUME NEW u \in Tasks, records'[u] # Absent
          PROVE  /\ records'[u].status = "PENDING" => records'[u].token = 0
                 /\ records'[u].status # "PENDING" =>
                      \E l \in leases : LastLease(l, u)'
      <4>1. CASE u = t
        BY <2>2, <2>4, <4>1 DEF LastLease
      <4>2. CASE u # t
        BY <2>4, <3>3, <4>2 DEF LeaseInv, LastLease
      <4> QED BY <4>1, <4>2
    <3>4. \A d \in reported' : d.lease \in leases
      BY <1>2, <1>3 DEF LeaseInv
    <3> QED BY <1>3, <3>2, <3>3, <3>4 DEF LeaseInv
  <2>9. \A d \in reported : d.lease.task \in Tasks \ {t}
    <3> SUFFICES ASSUME NEW d \in reported, d.lease.task = t PROVE FALSE
      BY DEF LeaseInv, AttendedTypes, Leases
    <3>1. records[t].status \in {"REJECTED", "COMPLETED"}
      BY DEF AcknowledgedIsStored
    <3> QED BY <1>5, <3>1 DEF Terminal
  <2>10. AcknowledgedIsStored'
    <3>1. \A x \in Creators : created[x] # Absent => created[x].task \in Tasks
      BY DEF AttendedTypes, TaskRequests
    <3>2. \A x \in Creators : created[x] # Absent =>
             records'[created[x].task] # Absent /\ records'[created[x].task].digest = created[x].digest
      BY <2>2, <2>4, <2>6, <3>1 DEF AcknowledgedIsStored
    <3>3. \A d \in reported' :
            LET record == records'[d.lease.task] IN
            /\ record.status = IF d.rejected THEN "REJECTED" ELSE "COMPLETED"
            /\ record.result = d.result
            /\ record.principal = d.lease.principal
      BY <1>2, <1>3, <2>2, <2>4, <2>9 DEF AcknowledgedIsStored
    <3> QED BY <1>3, <3>2, <3>3 DEF AcknowledgedIsStored
  <2> QED BY <2>7, <2>8, <2>10
<1> QED BY <1>3, <1>4, <1>5

(* The invariant holds in every reachable state.                            *)
LEMMA AttendedInvHolds == AttendedBehaviour => []AttendedInv
<1>1. AttendedInit => AttendedInv
  BY DEF AttendedInit, AttendedInv, AttendedTypes, LeaseInv, AcknowledgedIsStored
<1>2. AttendedInv /\ [AttendedNext]_attendedVars => AttendedInv'
  <2> SUFFICES ASSUME AttendedInv, [AttendedNext]_attendedVars PROVE AttendedInv'
    OBVIOUS
  <2>1. CASE AttendedTick \/ UNCHANGED attendedVars
    <3>1. now' \in Nat /\ now <= now' /\ UNCHANGED <<records, leases, creating, created, reported>>
      BY <2>1 DEF AttendedTick, attendedVars, AttendedInv, AttendedTypes
    <3>2. AttendedTypes' /\ AcknowledgedIsStored'
      BY <3>1 DEF AttendedInv, AttendedTypes, AcknowledgedIsStored
    <3>3. \A l \in leases : l.expires \in Nat
      BY DEF AttendedInv, AttendedTypes, Leases
    <3>4. \A l \in leases : l.expires <= now => l.expires <= now'
      BY <3>1, <3>3 DEF AttendedInv, AttendedTypes
    <3>5. LeaseInv'
      BY <3>1, <3>4 DEF AttendedInv, LeaseInv, LastLease
    <3> QED BY <3>2, <3>5 DEF AttendedInv
  <2> QED BY <2>1, CreateStep, ClaimStep, CompleteStep DEF AttendedNext
<1> QED BY <1>1, <1>2, PTL DEF AttendedBehaviour

(* One principal at most holds a live lease of a task, the record knows it, *)
(* and a result is the last holder's: claim, complete and reject of the     *)
(* SQLite store, whatever the clock does between them.                      *)
THEOREM LastHolderAlwaysDecides == AttendedBehaviour => []LastHolderDecides
<1>1. AttendedInv => LastHolderDecides
  <2> SUFFICES ASSUME AttendedInv PROVE LastHolderDecides
    OBVIOUS
  <2> USE DEF AttendedInv
  <2>1. \A l \in leases : l.task \in Tasks /\ l.token \in Nat /\ l.expires \in Nat /\ now \in Nat
                          /\ records[l.task] \in Records
    BY DEF AttendedTypes, Leases, LeaseInv
  <2>2. \A l \in leases : l.expires > now => l.token = records[l.task].token
    BY <2>1 DEF LeaseInv, Records
  <2>3. \A l, m \in leases : l.task = m.task /\ l.expires > now /\ m.expires > now => l = m
    BY <2>2 DEF LeaseInv
  <2>4. ASSUME NEW t \in Tasks, records[t] # Absent, Terminal(records[t])
        PROVE  /\ \E l \in leases : /\ l.task = t /\ l.token = records[t].token
                                    /\ l.principal = records[t].principal
               /\ \A l \in leases : l.task = t => l.token <= records[t].token
    <3>1. records[t].status # "PENDING"
      BY <2>4 DEF Terminal
    <3>2. PICK l \in leases : LastLease(l, t)
      BY <2>4, <3>1 DEF LeaseInv
    <3> QED BY <3>2 DEF LastLease, LeaseInv
  <2> QED BY <2>2, <2>3, <2>4 DEF LastHolderDecides
<1> QED BY <1>1, AttendedInvHolds, PTL

(* A creation that was acknowledged is the stored task, and a completion    *)
(* that was acknowledged its result, for ever.                              *)
THEOREM AcknowledgementsAreKept == AttendedBehaviour => []AcknowledgedIsStored
<1>1. AttendedInv => AcknowledgedIsStored
  BY DEF AttendedInv
<1> QED BY <1>1, AttendedInvHolds, PTL

-----------------------------------------------------------------------------
(* The ingestion of a message.                                              *)

IngestionBehaviour == IngestionInit /\ [][IngestionNext]_ingestionVars

Offered(i) == ~mail.parts[i].multipart /\ IsAttachment(mail.parts[i])

(* The parts before the next one have been dealt with.                      *)
WalkInv ==
  /\ mail \in Messages /\ at \in Nat /\ at <= Len(mail.parts) + 1
  /\ summaries \in Seq(Nat)
  /\ at >= 1 => mail.size <= MaxTotal /\ Len(mail.parts) <= MaxParts
  /\ clean = {i \in DOMAIN mail.parts : i < at /\ Offered(i)}
  /\ {summaries[n] : n \in DOMAIN summaries} = clean
  /\ \A n \in 1..(Len(summaries) - 1) : summaries[n] < summaries[n + 1]
  /\ Len(summaries) <= MaxAttachments
  /\ \A i \in clean : /\ mail.parts[i].size <= MaxAttachmentSize
                      /\ mail.parts[i].media = "application.pdf" => mail.parts[i].pdf = "plain"
  /\ \A i \in DOMAIN mail.parts : i < at /\ ~mail.parts[i].multipart => mail.parts[i].encoded
  /\ disposition = "ACCEPT" => at > Len(mail.parts)

(* Dealing with one more part, which is not offered or was found clean.     *)
LEMMA PartStep ==
  ASSUME WalkInv, disposition = "open", at \in 1..Len(mail.parts),
         mail' = mail, at' = at + 1, disposition' = disposition,
         mail.parts[at].multipart \/ mail.parts[at].encoded,
         \/ ~Offered(at) /\ UNCHANGED <<summaries, clean>>
         \/ /\ Offered(at) /\ AttachmentDefect(mail.parts[at]) = "none"
            /\ summaries' = Append(summaries, at) /\ clean' = clean \cup {at}
  PROVE  WalkInv'
<1> DEFINE P == mail.parts
<1>1. mail' \in Messages /\ at' \in Nat /\ at' <= Len(P) + 1 /\ Len(P) \in Nat
  BY IngestionAssumption DEF WalkInv
<1>2. DOMAIN P = 1..Len(P) /\ at \in DOMAIN P /\ at \in Nat /\ at >= 1
  BY IngestionAssumption DEF WalkInv
<1>3. at' >= 1 => mail'.size <= MaxTotal /\ Len(mail'.parts) <= MaxParts
  BY <1>2 DEF WalkInv
<1>4. \A i \in DOMAIN P : Offered(i)' <=> Offered(i)
  BY DEF Offered
<1>5. \A i \in DOMAIN P : i < at' <=> i < at \/ i = at
  BY <1>2
<1>6. \A i \in DOMAIN P : i < at' /\ ~P[i].multipart => P[i].encoded
  BY <1>5 DEF WalkInv
<1>7. disposition' # "ACCEPT"
  OBVIOUS
<1>8. CASE ~Offered(at) /\ UNCHANGED <<summaries, clean>>
  <2>1. clean' = {i \in DOMAIN mail'.parts : i < at' /\ Offered(i)'}
    BY <1>4, <1>5, <1>8 DEF WalkInv
  <2> QED BY <1>1, <1>3, <1>6, <1>7, <1>8, <2>1 DEF WalkInv
<1>9. CASE /\ Offered(at) /\ AttachmentDefect(P[at]) = "none"
           /\ summaries' = Append(summaries, at) /\ clean' = clean \cup {at}
  <2>1. /\ Len(summaries) < MaxAttachments /\ P[at].size <= MaxAttachmentSize
        /\ P[at].media = "application.pdf" => P[at].pdf = "plain"
    <3>1. /\ ~(Len(summaries) >= MaxAttachments) /\ ~(P[at].size > MaxAttachmentSize)
          /\ DocumentDefect(P[at]) = "none"
      BY <1>9 DEF AttachmentDefect
    <3>2. Len(summaries) \in Nat /\ MaxAttachments \in Nat /\ P[at].size \in Nat /\ MaxAttachmentSize \in Nat
      BY <1>2, IngestionAssumption DEF WalkInv
    <3>3. P[at].media = "application.pdf" => P[at].pdf = "plain"
      <4>1. P[at].pdf # "none"
        BY <1>2, IngestionAssumption DEF WalkInv
      <4> QED BY <3>1, <4>1 DEF DocumentDefect
    <3> QED BY <3>1, <3>2, <3>3
  <2>2. clean' = {i \in DOMAIN mail'.parts : i < at' /\ Offered(i)'}
    BY <1>2, <1>4, <1>5, <1>9 DEF WalkInv
  <2>3. /\ summaries' \in Seq(Nat) /\ Len(summaries') = Len(summaries) + 1 /\ Len(summaries) \in Nat
        /\ DOMAIN summaries' = 1..(Len(summaries) + 1) /\ DOMAIN summaries = 1..Len(summaries)
        /\ \A n \in 1..Len(summaries) : summaries'[n] = summaries[n]
        /\ summaries'[Len(summaries) + 1] = at
    BY <1>2, <1>9 DEF WalkInv
  <2>4. {summaries'[n] : n \in DOMAIN summaries'} = clean'
    <3>1. \A n \in DOMAIN summaries' : n \in DOMAIN summaries \/ n = Len(summaries) + 1
      BY <2>3
    <3>2. DOMAIN summaries \subseteq DOMAIN summaries' /\ Len(summaries) + 1 \in DOMAIN summaries'
      BY <2>3
    <3> QED BY <1>9, <2>3, <3>1, <3>2 DEF WalkInv
  <2>5. \A n \in DOMAIN summaries : summaries[n] < at
    BY DEF WalkInv
  <2>6. \A n \in 1..(Len(summaries') - 1) : summaries'[n] < summaries'[n + 1]
    <3> SUFFICES ASSUME NEW n \in 1..Len(summaries) PROVE summaries'[n] < summaries'[n + 1]
      BY <2>3
    <3>1. CASE n = Len(summaries)
      BY <2>3, <2>5, <3>1
    <3>2. CASE n # Len(summaries)
      <4>1. n \in 1..(Len(summaries) - 1) /\ n + 1 \in 1..Len(summaries)
        <5>1. ASSUME NEW N \in Nat, NEW k \in 1..N, k # N PROVE k \in 1..(N - 1) /\ k + 1 \in 1..N
          BY <5>1
        <5> QED BY <2>3, <3>2, <5>1
      <4> QED BY <2>3, <4>1 DEF WalkInv
    <3> QED BY <3>1, <3>2
  <2>7. Len(summaries') <= MaxAttachments
    BY <2>1, <2>3, IngestionAssumption
  <2>8. \A i \in clean' : /\ mail'.parts[i].size <= MaxAttachmentSize
                          /\ mail'.parts[i].media = "application.pdf" => mail'.parts[i].pdf = "plain"
    BY <1>9, <2>1 DEF WalkInv
  <2> QED BY <1>1, <1>3, <1>6, <1>7, <2>2, <2>3, <2>4, <2>6, <2>7, <2>8 DEF WalkInv
<1> QED BY <1>8, <1>9

(* A quarantine leaves the walk where it stopped.                           *)
LEMMA QuarantineStep ==
  ASSUME WalkInv, NEW code, code # "ACCEPT", Quarantine(code)
  PROVE  WalkInv'
<1>1. \A i \in DOMAIN mail.parts : Offered(i)' <=> Offered(i)
  BY DEF Offered, Quarantine
<1> QED BY <1>1 DEF WalkInv, Quarantine

(* The invariant of the walk holds in every reachable state.                *)
LEMMA WalkHolds == IngestionBehaviour => []WalkInv
<1>1. IngestionInit => WalkInv
  <2> SUFFICES ASSUME IngestionInit PROVE WalkInv
    OBVIOUS
  <2>1. Len(mail.parts) \in Nat /\ DOMAIN mail.parts = 1..Len(mail.parts)
    BY IngestionAssumption DEF IngestionInit
  <2>2. MaxAttachments \in Nat
    BY IngestionAssumption
  <2> QED BY <2>1, <2>2 DEF IngestionInit, WalkInv
<1>2. WalkInv /\ [IngestionNext]_ingestionVars => WalkInv'
  <2> SUFFICES ASSUME WalkInv, [IngestionNext]_ingestionVars PROVE WalkInv'
    OBVIOUS
  <2>1. CASE UNCHANGED ingestionVars
    <3>1. \A i \in DOMAIN mail.parts : Offered(i)' <=> Offered(i)
      BY <2>1 DEF Offered, ingestionVars
    <3> QED BY <2>1, <3>1 DEF ingestionVars, WalkInv
  <2>2. CASE ReadHeaders
    <3>1. mail \in Messages /\ mail.header # "ACCEPT" /\ Len(mail.parts) \in Nat /\ mail.size \in Nat
          /\ DOMAIN mail.parts = 1..Len(mail.parts)
      BY IngestionAssumption DEF WalkInv
    <3>2. CASE MessageDefect = "none"
      <4>1. at = 0 /\ at' = 1 /\ UNCHANGED <<mail, summaries, clean, disposition>> /\ disposition = "open"
        BY <2>2, <3>2 DEF ReadHeaders
      <4>2. ~(mail.size > MaxTotal) /\ ~(Len(mail.parts) > MaxParts)
        BY <3>2 DEF MessageDefect
      <4>3. mail.size <= MaxTotal /\ Len(mail.parts) <= MaxParts
        BY <3>1, <4>2, IngestionAssumption
      <4>4. \A i \in DOMAIN mail.parts : (Offered(i)' <=> Offered(i)) /\ ~(i < at) /\ ~(i < at')
        BY <3>1, <4>1 DEF Offered
      <4> QED BY <3>1, <4>1, <4>3, <4>4 DEF WalkInv
    <3>3. CASE MessageDefect # "none"
      <4>1. MessageDefect # "ACCEPT"
        BY <3>1 DEF MessageDefect
      <4>2. Quarantine(MessageDefect)
        BY <2>2, <3>3 DEF ReadHeaders
      <4> QED BY <4>1, <4>2, QuarantineStep
    <3> QED BY <3>2, <3>3
  <2>3. CASE SkipPart
    BY <2>3, PartStep DEF SkipPart, Offered
  <2>4. CASE RefusePart
    <3>1. at \in DOMAIN mail.parts
      BY <2>4, IngestionAssumption DEF RefusePart, WalkInv
    <3>2. mail.parts[at].pdf # "ACCEPT"
      BY <3>1, IngestionAssumption DEF WalkInv
    <3>3. AttachmentDefect(mail.parts[at]) # "ACCEPT"
      BY <3>2 DEF AttachmentDefect, DocumentDefect
    <3>4. \/ Quarantine("transfer_encoding_invalid") \/ Quarantine("attachment_encoding_invalid")
          \/ Quarantine(AttachmentDefect(mail.parts[at]))
      BY <2>4 DEF RefusePart
    <3> QED BY <3>3, <3>4, QuarantineStep
  <2>5. CASE Accept
    <3>1. CASE mail.media = "invalid"
      BY <2>5, <3>1, QuarantineStep DEF Accept
    <3>2. CASE mail.media # "invalid"
      <4>1. at > Len(mail.parts) /\ disposition' = "ACCEPT" /\ UNCHANGED <<mail, at, summaries, clean>>
        BY <2>5, <3>2 DEF Accept
      <4>2. \A i \in DOMAIN mail.parts : Offered(i)' <=> Offered(i)
        BY <4>1 DEF Offered
      <4> QED BY <4>1, <4>2 DEF WalkInv
    <3> QED BY <3>1, <3>2
  <2>6. ASSUME NEW answer \in {"clean", "rejected", "raised"}, ScanPart(answer) PROVE WalkInv'
    <3>1. CASE answer = "clean"
      BY <2>6, <3>1, PartStep DEF ScanPart, ScannerSays, Summarize, Offered
    <3>2. CASE answer \in {"rejected", "raised"}
      BY <2>6, <3>2, QuarantineStep DEF ScanPart, ScannerSays
    <3> QED BY <3>1, <3>2
  <2>7. CASE ParseFails
    BY <2>7, QuarantineStep DEF ParseFails
  <2> QED BY <2>1, <2>2, <2>3, <2>4, <2>5, <2>6, <2>7 DEF IngestionNext
<1> QED BY <1>1, <1>2, PTL DEF IngestionBehaviour

(* An accepted message was within every limit, and its leaves that are      *)
(* declared attachments or have a file name are exactly those the scanner   *)
(* was asked for and found clean, summarized in order: for every message    *)
(* and every answer of the scanner.                                         *)
THEOREM AcceptedMessagesAreScanned == IngestionBehaviour => []AcceptedIsScanned
<1>1. WalkInv => AcceptedIsScanned
  <2> SUFFICES ASSUME WalkInv, disposition = "ACCEPT" PROVE AcceptedIsScanned
    BY DEF AcceptedIsScanned
  <2>1. /\ Len(mail.parts) \in Nat /\ DOMAIN mail.parts = 1..Len(mail.parts) /\ at \in Nat
        /\ at > Len(mail.parts)
    BY IngestionAssumption DEF WalkInv
  <2>2. at >= 1 /\ \A i \in DOMAIN mail.parts : i < at
    BY <2>1
  <2>3. clean = {i \in {j \in DOMAIN mail.parts : ~mail.parts[j].multipart} :
                   mail.parts[i].attached \/ mail.parts[i].named}
    BY <2>2 DEF WalkInv, Offered, IsAttachment
  <2> QED BY <2>2, <2>3 DEF WalkInv, AcceptedIsScanned
<1> QED BY <1>1, WalkHolds, PTL

=============================================================================
