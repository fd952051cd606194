----------------------------- MODULE ArtifactRelay -----------------------------
(***************************************************************************)
(* The relay of a runner's artifacts, src/cargomesh/runner/artifacts.py:   *)
(* the policy, then the sink, then the receipt.                            *)
(*                                                                         *)
(* The receipt store looks a receipt up and inserts it in two statements.  *)
(* The calls run in several processes that share the file, so the two are  *)
(* two actions, and a call may die between any two.  The name of a call    *)
(* stands for the time it stamps on its receipt.                           *)
(***************************************************************************)
EXTENDS Naturals

CONSTANTS
  Relays,          \* calls of relay
  Candidates,      \* task, type, media, rank, sensitive, sanitized
  Contents,        \* the artifacts' bytes, by digest
  SizeOf,
  Rules,           \* ArtifactPolicy, by artifact type: maximum, media, rank
  NoReceipt

VARIABLES
  sink,            \* the contents the sink holds
  receipts,        \* table runner_artifact_receipts
  relay            \* per call: its receipt and how far it is

relayVars == <<sink, receipts, relay>>

RelayInit ==
  /\ sink = {} /\ receipts = {}
  /\ relay = [r \in Relays |-> [phase |-> "idle", receipt |-> NoReceipt]]

Stage(r, phase, receipt) == relay' = [relay EXCEPT ![r] = [phase |-> phase, receipt |-> receipt]]

(* The checks of relay.                                                     *)
Admitted(candidate, content) ==
  /\ candidate.type \in DOMAIN Rules
  /\ SizeOf[content] > 0 /\ SizeOf[content] <= Rules[candidate.type].maximum
  /\ candidate.media \in Rules[candidate.type].media
  /\ candidate.rank <= Rules[candidate.type].rank
  /\ ~candidate.sensitive
  /\ candidate.type \in {"SCREENSHOT", "TEXT"} => candidate.sanitized

Denied(r, candidate, content) ==
  /\ relay[r].phase = "idle" /\ ~Admitted(candidate, content)
  /\ Stage(r, "denied", NoReceipt)
  /\ UNCHANGED <<sink, receipts>>

(* What a receipt says of the artifact.                                     *)
Receipt(r, candidate, content) ==
  [task |-> candidate.task, type |-> candidate.type, media |-> candidate.media,
   rank |-> candidate.rank, content |-> content, at |-> r]

Put(r, candidate, content) ==
  /\ relay[r].phase = "idle" /\ Admitted(candidate, content)
  /\ sink' = sink \cup {content}
  /\ Stage(r, "stored", Receipt(r, candidate, content))
  /\ UNCHANGED receipts

(* The sink raises, with or without having stored the content.              *)
PutFails(r, candidate, content) ==
  /\ relay[r].phase = "idle" /\ Admitted(candidate, content)
  /\ sink' \in {sink, sink \cup {content}}
  /\ Stage(r, "unavailable", NoReceipt)
  /\ UNCHANGED receipts

(* The primary key.                                                         *)
Identity(receipt) == <<receipt.task, receipt.content>>

KeyTaken(receipt) == \E row \in receipts : Identity(row) = Identity(receipt)

(* Everything but the time and the digest over it.                          *)
SameReceipt(a, b) == [a EXCEPT !.at = b.at] = b

LookUpReceipt(r) ==
  LET own == relay[r].receipt IN
  /\ relay[r].phase = "stored"
  /\ \/ ~KeyTaken(own) /\ Stage(r, "missing", own)
     \/ \E row \in receipts :
          /\ Identity(row) = Identity(own)
          /\ IF SameReceipt(row, own) THEN Stage(r, "returned", row)
             ELSE Stage(r, "conflict", NoReceipt)
  /\ UNCHANGED <<sink, receipts>>

(* Fault: the row that came in between is replaced.                         *)
InsertedFault(receipt) == {row \in receipts : Identity(row) # Identity(receipt)} \cup {receipt}

(* The INSERT, or none if the primary key is taken by now.                  *)
Inserted(receipt) == IF KeyTaken(receipt) THEN receipts ELSE receipts \cup {receipt}

InsertReceipt(r) ==
  LET own == relay[r].receipt IN
  /\ relay[r].phase = "missing"
  /\ receipts' = Inserted(own)
  /\ IF own \in receipts' THEN Stage(r, "returned", own) ELSE Stage(r, "unavailable", NoReceipt)
  /\ UNCHANGED sink

RelayDies(r) ==
  /\ relay[r].phase \in {"stored", "missing"}
  /\ Stage(r, "dead", NoReceipt)
  /\ UNCHANGED <<sink, receipts>>

RelayNext ==
  \E r \in Relays :
    \/ \E candidate \in Candidates, content \in Contents :
         \/ Denied(r, candidate, content)
         \/ Put(r, candidate, content)
         \/ PutFails(r, candidate, content)
    \/ LookUpReceipt(r) \/ InsertReceipt(r) \/ RelayDies(r)

-----------------------------------------------------------------------------
(* A receipt that was returned stays what the store holds for the artifact, *)
(* its content is in the sink, and every caller that relayed the artifact   *)
(* got that very receipt, although the store looks and inserts in two steps *)
(* (artifacts.py, append).                                                  *)
ReceiptsAgree ==
  \A r \in Relays : relay[r].phase = "returned" =>
    LET receipt == relay[r].receipt IN
    /\ receipt.content \in sink
    /\ {row \in receipts : row.task = receipt.task /\ row.content = receipt.content} = {receipt}
=============================================================================
