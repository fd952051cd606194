-------------------------------- MODULE Ingestion ------------------------------
(***************************************************************************)
(* ingest_message of src/cargomesh/channels/ingestion.py: a message is     *)
(* accepted with a summary of its attachments, or quarantined.             *)
(*                                                                         *)
(* A message is its size, what is wrong with its headers ("none" if        *)
(* nothing is), its media type and its parts in the order of the walk,     *)
(* each with its depth.  The scanner is injected and is asked for one      *)
(* attachment after the other: it may answer either way, raise, or not     *)
(* exist.  The parts are consumed by one action each.  The parser and the  *)
(* decoder are the standard library's, and may fail at any part.           *)
(***************************************************************************)
EXTENDS Naturals, Sequences

CONSTANTS
  Messages,
  MaxTotal, MaxDepth, MaxParts, MaxAttachments, MaxAttachmentSize    \* IngestionPolicy

ASSUME IngestionAssumption ==
  /\ {MaxTotal, MaxDepth, MaxParts, MaxAttachments, MaxAttachmentSize} \subseteq Nat
  /\ \A m \in Messages :
       /\ m.size \in Nat /\ Len(m.parts) \in Nat /\ DOMAIN m.parts = 1..Len(m.parts)
       /\ m.header # "ACCEPT"
       /\ \A i \in DOMAIN m.parts : /\ m.parts[i].size \in Nat
                                     /\ m.parts[i].pdf \notin {"ACCEPT", "none"}

VARIABLES
  mail,            \* the message
  at,              \* the next part, 0 before the headers are checked
  summaries,       \* the attachments summarized so far
  clean,           \* history: the parts the scanner found clean
  disposition      \* "open", "ACCEPT", or the code of the quarantine

ingestionVars == <<mail, at, summaries, clean, disposition>>

IngestionInit ==
  /\ mail \in Messages
  /\ at = 0 /\ summaries = <<>> /\ clean = {}
  /\ disposition = "open"

Quarantine(code) == disposition' = code /\ UNCHANGED <<mail, at, summaries, clean>>

(* The checks of the message as a whole, in the order of the code.          *)
MessageDefect ==
  IF mail.size > MaxTotal THEN "message_too_large"
  ELSE IF mail.header # "none" THEN mail.header
  ELSE IF \E i \in DOMAIN mail.parts : mail.parts[i].depth > MaxDepth THEN "mime_depth_limit"
  ELSE IF Len(mail.parts) > MaxParts THEN "mime_part_limit"
  ELSE "none"

ReadHeaders ==
  /\ disposition = "open" /\ at = 0
  /\ IF MessageDefect = "none"
     THEN at' = 1 /\ UNCHANGED <<mail, summaries, clean, disposition>>
     ELSE Quarantine(MessageDefect)

(* _is_attachment: by its disposition, or because it has a file name.       *)
IsAttachment(part) == part.attached \/ part.named

(* _media_type and _pdf_preflight.                                          *)
DocumentDefect(part) ==
  CASE part.media = "invalid" -> "media_type_invalid"
    [] part.media = "application.pdf" /\ part.pdf # "plain" -> part.pdf
    [] OTHER -> "none"

(* What is wrong with an attachment before it is scanned.                   *)
AttachmentDefect(part) ==
  IF Len(summaries) >= MaxAttachments THEN "attachment_limit"
  ELSE IF part.size > MaxAttachmentSize THEN "attachment_too_large"
  ELSE DocumentDefect(part)

(* A container, or a part that is no attachment.                            *)
SkipPart ==
  LET part == mail.parts[at] IN
  /\ disposition = "open" /\ at \in 1..Len(mail.parts)
  /\ part.multipart \/ (part.encoded /\ ~IsAttachment(part))
  /\ at' = at + 1
  /\ UNCHANGED <<mail, summaries, clean, disposition>>

(* The first reason not to go on with a part, or a payload that does not    *)
(* decode to bytes.                                                         *)
RefusePart ==
  LET part == mail.parts[at] IN
  /\ disposition = "open" /\ at \in 1..Len(mail.parts) /\ ~part.multipart
  /\ \/ ~part.encoded /\ Quarantine("transfer_encoding_invalid")
     \/ /\ part.encoded /\ IsAttachment(part) /\ AttachmentDefect(part) # "none"
        /\ Quarantine(AttachmentDefect(part))
     \/ /\ part.encoded /\ IsAttachment(part) /\ Len(summaries) < MaxAttachments
        /\ Quarantine("attachment_encoding_invalid")

Summarize == summaries' = Append(summaries, at) /\ at' = at + 1 /\ UNCHANGED <<mail, disposition>>

(* Fault: the verdict on the first attachment is taken for the others'.     *)
ScannerSaysFault(answer) ==
  \/ summaries # <<>> /\ Summarize /\ UNCHANGED clean
  \/ summaries = <<>> /\ answer = "clean" /\ Summarize /\ clean' = clean \cup {at}
  \/ summaries = <<>> /\ answer # "clean" /\ Quarantine("scanner_rejected")

ScannerSays(answer) ==
  \/ answer = "clean" /\ Summarize /\ clean' = clean \cup {at}
  \/ answer = "rejected" /\ Quarantine("scanner_rejected")
  \/ answer = "raised" /\ Quarantine("scanner_unavailable")

(* The scanner's answer for an attachment that has no defect.               *)
ScanPart(answer) ==
  LET part == mail.parts[at] IN
  /\ disposition = "open" /\ at \in 1..Len(mail.parts) /\ ~part.multipart
  /\ part.encoded /\ IsAttachment(part) /\ AttachmentDefect(part) = "none"
  /\ ScannerSays(answer)

Accept ==
  /\ disposition = "open" /\ at > Len(mail.parts)
  /\ IF mail.media = "invalid" THEN Quarantine("media_type_invalid")
     ELSE disposition' = "ACCEPT" /\ UNCHANGED <<mail, at, summaries, clean>>

(* Any other exception, from the parser on, is a quarantine too.            *)
ParseFails ==
  /\ disposition = "open" /\ mail.size <= MaxTotal
  /\ Quarantine("message_parse_invalid")

IngestionNext ==
  \/ ReadHeaders \/ SkipPart \/ RefusePart \/ Accept \/ ParseFails
  \/ \E answer \in {"clean", "rejected", "raised"} : ScanPart(answer)

-----------------------------------------------------------------------------
(* A message is accepted only if the scanner was asked for each of its      *)
(* leaves that is declared an attachment or has a file name and found it    *)
(* clean, none of them breaks a limit or is an active or encrypted          *)
(* document, and the summary lists exactly those, in the order of the       *)
(* message: no attachment is vouched for by the verdict on another, or      *)
(* listed without one (ingestion.py, _summarize_attachments).               *)
AcceptedIsScanned ==
  disposition = "ACCEPT" =>
    LET leaves == {i \in DOMAIN mail.parts : ~mail.parts[i].multipart}
        offered == {i \in leaves : mail.parts[i].attached \/ mail.parts[i].named}
    IN /\ offered = clean
       /\ {summaries[n] : n \in DOMAIN summaries} = offered
       /\ \A n \in 1..(Len(summaries) - 1) : summaries[n] < summaries[n + 1]
       /\ \A i \in offered : /\ mail.parts[i].size <= MaxAttachmentSize
                           /\ mail.parts[i].media = "application.pdf" => mail.parts[i].pdf = "plain"
       /\ Len(summaries) <= MaxAttachments /\ Len(mail.parts) <= MaxParts
       /\ \A i \in leaves : mail.parts[i].encoded
       /\ mail.size <= MaxTotal
=============================================================================
