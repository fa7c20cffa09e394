--------------------------- MODULE TaskAttachments ---------------------------
(* The images and the result document of one Task (protocol v7): the file    *)
(* store of runtime/tasks/attachments.ts on both sides, and the part of      *)
(* runtime/tasks/service.ts that stages, sends, receives, acknowledges and   *)
(* ages them.  One input image goes with the request and one image with the  *)
(* result.  Mail may be lost, repeated and reordered; a write may be refused *)
(* (a quota, a full disk), and the process may end after the file is written *)
(* and before the record is saved.  The Task's own states are reduced to     *)
(* what the images depend on; TaskTransport has them in full.                *)
EXTENDS Naturals, FiniteSets

CONSTANTS
  RequestTtl,     \* when the request expires
  ResultTtl,      \* life of a result image's message: DEFAULT_TASK_REQUEST_TTL_MS
  Retention,      \* TASK_ATTACHMENT_RETENTION_MS
  MaxAttachTime   \* bounds the clock

ASSUME AttachmentBounds ==
  /\ RequestTtl \in Nat /\ ResultTtl \in Nat /\ Retention \in Nat /\ MaxAttachTime \in Nat
  /\ RequestTtl <= Retention /\ ResultTtl <= Retention

VARIABLES
  attClock,
  attRoom,   \* how many more files the global quota of each store admits beside other Tasks'
  files,     \* the image in each directory: staged and result (requester), input and made (target)
  outgoing,  \* the requester's record, as far as images go
  incoming,  \* the target's record
  attMail    \* messages under way

attVars == <<attClock, attRoom, files, outgoing, incoming, attMail>>

Never == [there |-> "never", at |-> 0]
Here == [there |-> "here", at |-> attClock]

AttachmentInit ==
  /\ attClock = 0 /\ attRoom \in 1..2 /\ files = [d \in {"staged", "input", "made", "result"} |-> Never]
  /\ outgoing = [state |-> "none", acked |-> FALSE, retryAt |-> 0, artifact |-> FALSE, ready |-> TRUE]
  /\ incoming = [state |-> "none", ready |-> FALSE, madeAt |-> 0, imageAcked |-> FALSE, imageRetryAt |-> 0,
                 artifactAcked |-> FALSE, artifactRetryAt |-> 0]
  /\ attMail = {}

Stored(d) == files[d].there = "here"

\* What the user may pick; sanitizeImage keeps the pixels of a whole PNG or JPEG within bounds.
Sources == {"png", "jpeg", "other_type", "truncated", "too_large"}
SanitizeImage(source) == source \in {"png", "jpeg"}

\* requireGlobalStoreQuota: the other file of this Task in the same store counts.
Neighbour(d) == CASE d = "staged" -> "result" [] d = "result" -> "staged"
                  [] d = "input" -> "made" [] d = "made" -> "input"
WithinQuota(d) == attRoom > (IF Stored(Neighbour(d)) THEN 1 ELSE 0)
DeadlinePassed(deadline) == attClock >= deadline
Sends(kind) == attMail' = attMail \union {kind}

\* A message that is handled is consumed, or comes again later.
Takes(kind, reply) ==
  /\ kind \in attMail
  /\ \E kept \in SUBSET {kind} : attMail' = (attMail \ {kind}) \union kept \union reply

-----------------------------------------------------------------------------
\* stageImage: sanitized, within the quota, and written under a new name.
StageImage ==
  /\ outgoing.state = "none" /\ files["staged"] = Never
  /\ \E source \in Sources : SanitizeImage(source)
  /\ WithinQuota("staged")
  /\ files' = [files EXCEPT !["staged"] = Here]
  /\ UNCHANGED <<attClock, attRoom, outgoing, incoming, attMail>>

SendTask ==
  /\ outgoing.state = "none" /\ Stored("staged") /\ ~DeadlinePassed(RequestTtl)
  /\ outgoing' = [outgoing EXCEPT !.state = "open"]
  /\ Sends("request")
  /\ UNCHANGED <<attClock, attRoom, files, incoming>>

\* shouldSendAttachment: not acknowledged, and its retry is due.
AttachmentDue(acked, retryAt) == ~acked /\ retryAt <= attClock

TrySendInputAttachments ==
  /\ outgoing.state = "open" /\ ~DeadlinePassed(RequestTtl) /\ Stored("staged")
  /\ AttachmentDue(outgoing.acked, outgoing.retryAt)
  /\ outgoing' = [outgoing EXCEPT !.retryAt = attClock + 1]
  /\ Sends("input")
  /\ UNCHANGED <<attClock, attRoom, files, incoming>>

ReceiveRequest ==
  /\ Takes("request", {})
  /\ incoming' = IF incoming.state # "none" THEN incoming
                 ELSE [incoming EXCEPT !.state = IF DeadlinePassed(RequestTtl) THEN "rejected" ELSE "submitted"]
  /\ UNCHANGED <<attClock, attRoom, files, outgoing>>

\* A plausible bug: a file that could not be written is passed over.
IngestUnverified(d) == files' \in {files, [files EXCEPT ![d] = Here]}

\* ingestImage: a file that is there and verifies is left alone, another is written and verified.
IngestImage(d) ==
  \/ Stored(d) /\ UNCHANGED files
  \/ ~Stored(d) /\ WithinQuota(d) /\ files' = [files EXCEPT ![d] = Here]

ReceiveInputAttachment ==
  /\ ~DeadlinePassed(RequestTtl)
  /\ IF incoming.state \in {"completed", "rejected", "failed"}
     THEN /\ Takes("input", IF Stored("input") THEN {"input_receipt"} ELSE {})
          /\ UNCHANGED <<files, incoming>>
     ELSE /\ Takes("input", {"input_receipt"})
          /\ IngestImage("input")
          /\ incoming' = IF incoming.state = "none" THEN incoming ELSE [incoming EXCEPT !.ready = TRUE]
  /\ UNCHANGED <<attClock, attRoom, outgoing>>

ReceiveInputReceipt ==
  /\ Takes("input_receipt", {}) /\ outgoing' = [outgoing EXCEPT !.acked = TRUE]
  /\ UNCHANGED <<attClock, attRoom, files, incoming>>

\* An image whose message has expired is dropped unread, on either side.
DropExpiredAttachment ==
  /\ \/ DeadlinePassed(RequestTtl) /\ Takes("input", {})
     \/ DeadlinePassed(incoming.madeAt + ResultTtl) /\ Takes("result", {})
     \/ outgoing.state \in {"failed", "rejected"} /\ Takes("result", {})
  /\ UNCHANGED <<attClock, attRoom, files, outgoing, incoming>>

\* The process ends after the file is written: no record is saved and no receipt goes out.
WriteThenCrash ==
  /\ \/ "input" \in attMail /\ ~DeadlinePassed(RequestTtl) /\ incoming.state \in {"none", "submitted", "working"}
        /\ IngestImage("input")
     \/ "result" \in attMail /\ ~DeadlinePassed(incoming.madeAt + ResultTtl) /\ outgoing.state \in {"open", "completed"}
        /\ IngestImage("result")
  /\ UNCHANGED <<attClock, attRoom, outgoing, incoming, attMail>>

-----------------------------------------------------------------------------
\* approve looks at the files again, whatever attachmentsReady says.
ApproveWithImages ==
  /\ incoming.state = "submitted" /\ ~DeadlinePassed(RequestTtl) /\ Stored("input")
  /\ incoming' = [incoming EXCEPT !.state = "working", !.ready = TRUE]
  /\ UNCHANGED <<attClock, attRoom, files, outgoing, attMail>>

\* The run's image is ingested before the result is committed; a failed run removes it again.
RunEndsWithImage ==
  /\ incoming.state = "working"
  /\ \/ /\ WithinQuota("made") /\ files' = [files EXCEPT !["made"] = Here]
        /\ incoming' = [incoming EXCEPT !.state = "completed", !.madeAt = attClock,
                                        !.imageRetryAt = attClock, !.artifactRetryAt = attClock]
     \/ incoming' = [incoming EXCEPT !.state = "failed"] /\ UNCHANGED files
  /\ UNCHANGED <<attClock, attRoom, outgoing, attMail>>

\* trySendPendingForRecord, the image first: without its file nothing more of the record is sent.
ResultDue == incoming.state = "completed" /\ AttachmentDue(incoming.artifactAcked, incoming.artifactRetryAt)

SendResultImage ==
  /\ ResultDue /\ AttachmentDue(incoming.imageAcked, incoming.imageRetryAt) /\ Stored("made")
  /\ incoming' = [incoming EXCEPT !.imageRetryAt = attClock + 1]
  /\ Sends("result")
  /\ UNCHANGED <<attClock, attRoom, files, outgoing>>

SendResultDocument ==
  /\ ResultDue /\ ~AttachmentDue(incoming.imageAcked, incoming.imageRetryAt)
  /\ incoming' = [incoming EXCEPT !.artifactRetryAt = attClock + 1]
  /\ Sends("document")
  /\ UNCHANGED <<attClock, attRoom, files, outgoing>>

ReceiveResultAttachment ==
  /\ ~DeadlinePassed(incoming.madeAt + ResultTtl) /\ outgoing.state \in {"open", "completed"}
  /\ Takes("result", {"result_receipt"})
  /\ IngestImage("result")
  /\ outgoing' = IF outgoing.artifact THEN [outgoing EXCEPT !.ready = TRUE] ELSE outgoing
  /\ UNCHANGED <<attClock, attRoom, incoming>>

\* receiveArtifactFile: the document is verified against its descriptor, kept, and acknowledged.
\* It completes an open Task and one that had only expired here.
ReceiveResultDocument ==
  /\ Takes("document", {"document_receipt"})
  /\ outgoing' = [outgoing EXCEPT !.artifact = TRUE, !.ready = Stored("result"),
                                  !.state = IF @ \in {"open", "rejected"} THEN "completed" ELSE @]
  /\ UNCHANGED <<attClock, attRoom, files, incoming>>

ReceiveResultReceipt ==
  /\ \/ Takes("result_receipt", {}) /\ incoming' = [incoming EXCEPT !.imageAcked = TRUE]
     \/ Takes("document_receipt", {}) /\ incoming' = [incoming EXCEPT !.artifactAcked = TRUE]
  /\ UNCHANGED <<attClock, attRoom, files, outgoing>>

\* A status "failed", or the requester's own expiry, ends its record.
OutgoingEnds ==
  /\ outgoing.state = "open"
  /\ \/ incoming.state = "failed" /\ outgoing' = [outgoing EXCEPT !.state = "failed"]
     \/ DeadlinePassed(RequestTtl) /\ outgoing' = [outgoing EXCEPT !.state = "rejected"]
  /\ UNCHANGED <<attClock, attRoom, files, incoming, attMail>>

IncomingExpires ==
  /\ incoming.state = "submitted" /\ DeadlinePassed(RequestTtl)
  /\ incoming' = [incoming EXCEPT !.state = "rejected"]
  /\ UNCHANGED <<attClock, attRoom, files, outgoing, attMail>>

Aged(d) == Stored(d) /\ attClock - files[d].at >= Retention

\* The end of each flush: readiness of what has not ended, then cleanup of the aged files.
RefreshReadinessAndCleanup ==
  /\ incoming' = IF incoming.state \in {"submitted", "working"} THEN [incoming EXCEPT !.ready = Stored("input")]
                 ELSE incoming
  /\ files' = [d \in DOMAIN files |->
                 IF Aged(d) THEN [files[d] EXCEPT !.there = "aged"]
                 ELSE files[d]]
  /\ UNCHANGED <<attClock, attRoom, outgoing, attMail>>

LoseAttachmentMail ==
  /\ \E kind \in attMail : attMail' = attMail \ {kind}
  /\ UNCHANGED <<attClock, attRoom, files, outgoing, incoming>>

AttachTimePasses ==
  /\ attClock < MaxAttachTime /\ attClock' = attClock + 1
  /\ UNCHANGED <<attRoom, files, outgoing, incoming, attMail>>

AttachmentNext ==
  \/ StageImage \/ SendTask \/ TrySendInputAttachments \/ ReceiveRequest \/ ReceiveInputAttachment
  \/ ReceiveInputReceipt \/ DropExpiredAttachment \/ WriteThenCrash \/ ApproveWithImages \/ RunEndsWithImage
  \/ SendResultImage \/ SendResultDocument \/ ReceiveResultAttachment \/ ReceiveResultDocument
  \/ ReceiveResultReceipt \/ OutgoingEnds \/ IncomingExpires \/ RefreshReadinessAndCleanup
  \/ LoseAttachmentMail \/ AttachTimePasses

AttachmentSpec == AttachmentInit /\ [][AttachmentNext]_attVars

-----------------------------------------------------------------------------
(* What a side believes of an image is true of the file: an acknowledged     *)
(* image was written at the other side, a Task that runs has its input, a    *)
(* result shown as ready has its image - unless retention has removed it,    *)
(* and retention never removes the input of a request that can be approved.  *)
ImageClaimsAreTrue ==
  /\ outgoing.acked => files["input"] # Never
  /\ incoming.imageAcked => files["result"] # Never
  /\ outgoing.artifact /\ outgoing.ready => files["result"] # Never
  /\ incoming.state \in {"working", "completed"} => files["input"] # Never
  /\ incoming.state = "submitted" /\ incoming.ready /\ ~DeadlinePassed(RequestTtl) => Stored("input")
=============================================================================
