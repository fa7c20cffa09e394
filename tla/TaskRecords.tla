---------------------------- MODULE TaskRecords ----------------------------
(***************************************************************************)
(* The two durable records of one single-stage collaboration Task (Task    *)
(* protocol v7) and the pure functions the Task runtime applies to them:   *)
(* the requester's "outgoing" record and the host's "incoming" record of   *)
(* apps/desktop/lifecycle-sidecar/runtime/tasks/service.ts.                *)
(*                                                                         *)
(* Only the fields that some decision reads are kept.  Timestamps become   *)
(* the order they are compared in; a safeErrorCode is "TASK_EXPIRED", the  *)
(* one code a decision reads, or "other" (any other code, or none).        *)
(***************************************************************************)
EXTENDS Naturals

TaskState == {"submitted", "working", "auth_required", "input_required",
              "completed", "failed", "canceled", "rejected"}

Terminal == {"completed", "failed", "canceled", "rejected"}

isTerminalTaskState(s) == s \in Terminal

SafeErrorCode == {"TASK_EXPIRED", "other"}

(* What a receiver answers to a request, and the order receivedAt gives it. *)
ReceiptStatus == {"received", "duplicate", "expired", "rejected"}
Receipt == [status : ReceiptStatus, receivedAt : Nat]
NoReceipt == [status |-> "received", receivedAt |-> 0]

Outgoing ==
  [stored : BOOLEAN,                \* the record is in the requester's store
   state : TaskState,
   delivery : {"queued", "send_failed", "sent", "acknowledged", "rejected", "expired"},
   safeErrorCode : SafeErrorCode,
   statusRevision : Nat,
   artifact : BOOLEAN,              \* the verified result document is stored
   receipt : Receipt,
   cancel : {"none", "pending", "acknowledged"},
   controlAttempted : BOOLEAN,      \* an attempt for the cancel control is recorded
   controlFailed : BOOLEAN,         \* a delivery failure for it is recorded
   receiptOutbox : SUBSET Nat]      \* status revisions whose receipt is queued

Incoming ==
  [stored : BOOLEAN,
   state : TaskState,
   approval : {"pending", "consumed", "rejected", "expired"},
   safeErrorCode : SafeErrorCode,
   statusRevision : Nat,
   statusPending : BOOLEAN,
   acknowledgedRevision : Nat,
   attemptRevision : Nat,           \* revision of the recorded status attempt, 0: none
   failureRevision : Nat,           \* revision of the recorded delivery failure, 0: none
   artifactEpoch : Nat,             \* execution epoch that produced the result, 0: none
   artifactAcknowledged : BOOLEAN,
   artifactAttempted : BOOLEAN,
   receipt : Receipt,
   receiptPending : BOOLEAN,
   controlReceiptQueued : BOOLEAN]

NoOutgoing ==
  [stored |-> FALSE, state |-> "submitted", delivery |-> "queued",
   safeErrorCode |-> "other", statusRevision |-> 0, artifact |-> FALSE,
   receipt |-> NoReceipt, cancel |-> "none", controlAttempted |-> FALSE,
   controlFailed |-> FALSE, receiptOutbox |-> {}]

NoIncoming ==
  [stored |-> FALSE, state |-> "submitted", approval |-> "pending",
   safeErrorCode |-> "other", statusRevision |-> 0, statusPending |-> FALSE,
   acknowledgedRevision |-> 0, attemptRevision |-> 0, failureRevision |-> 0,
   artifactEpoch |-> 0, artifactAcknowledged |-> FALSE,
   artifactAttempted |-> FALSE, receipt |-> NoReceipt,
   receiptPending |-> FALSE, controlReceiptQueued |-> FALSE]

newOutgoing == [NoOutgoing EXCEPT !.stored = TRUE]

incomingRecord(delivery) ==
  [NoIncoming EXCEPT
     !.stored = TRUE,
     !.state = IF delivery = "received" THEN "submitted" ELSE "rejected",
     !.approval = CASE delivery = "received" -> "pending"
                    [] delivery = "expired" -> "expired"
                    [] delivery = "rejected" -> "rejected",
     !.safeErrorCode = IF delivery = "expired" THEN "TASK_EXPIRED" ELSE "other"]

-----------------------------------------------------------------------------
(* The requester's record.                                                  *)

clearCancelDeliveryState(r) ==
  [r EXCEPT !.cancel = "none", !.controlAttempted = FALSE, !.controlFailed = FALSE]

expireOutgoing(r) ==
  [clearCancelDeliveryState(r) EXCEPT
     !.delivery = "expired", !.state = "rejected", !.safeErrorCode = "TASK_EXPIRED"]

completeKeepingDelivery(r) ==
  IF r.artifact /\ ~isTerminalTaskState(r.state)
  THEN [clearCancelDeliveryState(r) EXCEPT !.state = "completed"]
  ELSE r

(* A stored result document outranks a missing status and a local expiry.   *)
completeOutgoingSingleStageFromVerifiedArtifact(r) ==
  IF /\ r.artifact
     /\ \/ r.state \in {"completed", "submitted", "working", "auth_required", "input_required"}
        \/ r.state = "rejected" /\ r.safeErrorCode = "TASK_EXPIRED"
  THEN [clearCancelDeliveryState(r) EXCEPT
          !.state = "completed", !.delivery = "acknowledged", !.safeErrorCode = "other"]
  ELSE r

(* Faulty variant: only unsent requests expire.                            *)
expireOnlyUnsent(r, due) ==
  LET c == completeOutgoingSingleStageFromVerifiedArtifact(r)
  IN  IF due /\ c.delivery \in {"queued", "send_failed"} THEN expireOutgoing(c) ELSE c

(* expireDueRecords on the outgoing record, at a clock that says `due'.     *)
expireDueOutgoing(r, due) ==
  LET c == completeOutgoingSingleStageFromVerifiedArtifact(r)
  IN  IF /\ due
         /\ ~isTerminalTaskState(c.state) \/ c.delivery \in {"queued", "send_failed"}
      THEN expireOutgoing(c)
      ELSE c

shouldApplyReceipt(r, receipt) ==
  /\ r.delivery \notin {"rejected", "expired"}
  /\ r.receipt.receivedAt > 0 =>
       \/ receipt.receivedAt > r.receipt.receivedAt
       \/ receipt = r.receipt
  /\ receipt.status \in {"received", "duplicate"} \/ r.state = "submitted"

applyReceipt(r, receipt) ==
  LET s == [r EXCEPT !.receipt = receipt]
  IN  CASE receipt.status \in {"received", "duplicate"} ->
             [s EXCEPT !.delivery = "acknowledged"]
        [] receipt.status = "expired" -> expireOutgoing(s)
        [] receipt.status = "rejected" ->
             [s EXCEPT !.delivery = "rejected", !.state = "rejected",
                       !.safeErrorCode = "other"]

isRemoteTransitionAllowed(current, next) ==
  /\ ~isTerminalTaskState(current)
  /\ next \in TaskState \ {"submitted"}

(* receiveStatus: the new record, its receipt always enqueued.              *)
applyStatus(r, m) ==
  LET s == IF m.revision > r.statusRevision /\ isRemoteTransitionAllowed(r.state, m.state)
           THEN [IF isTerminalTaskState(m.state) THEN clearCancelDeliveryState(r) ELSE r
                   EXCEPT !.statusRevision = m.revision, !.state = m.state,
                          !.safeErrorCode = m.safeErrorCode]
           ELSE r
  IN  [s EXCEPT !.receiptOutbox = @ \cup {m.revision}]

(* receiveArtifactFile: store the document, then complete from it.          *)
acceptArtifact(r) ==
  completeOutgoingSingleStageFromVerifiedArtifact([r EXCEPT !.artifact = TRUE])

(* receiveApplicationReceipt for the cancel control.                        *)
acknowledgeControl(r) ==
  IF /\ r.cancel # "none"
     /\ r.cancel = "acknowledged" \/ r.controlAttempted \/ r.controlFailed
  THEN [r EXCEPT !.cancel = "acknowledged", !.controlAttempted = FALSE,
                 !.controlFailed = FALSE]
  ELSE r

requestCancel(r) ==
  IF r.cancel = "none"
  THEN [r EXCEPT !.cancel = "pending", !.controlAttempted = FALSE, !.controlFailed = FALSE]
  ELSE r

-----------------------------------------------------------------------------
(* The host's record.                                                       *)

nextRevision(r) ==
  [r EXCEPT !.statusRevision = @ + 1, !.statusPending = TRUE]

expireIncoming(r) ==
  [nextRevision(r) EXCEPT !.state = "rejected", !.approval = "expired",
                          !.safeErrorCode = "TASK_EXPIRED", !.receiptPending = FALSE]

expireDueIncoming(r, due) ==
  IF r.stored /\ due /\ ~isTerminalTaskState(r.state) THEN expireIncoming(r) ELSE r

requireMutableIncomingTask(r, due) ==
  /\ r.stored /\ ~due
  /\ r.approval = "pending" /\ r.state \in {"submitted", "auth_required"}

startIncoming(r) ==
  [nextRevision(r) EXCEPT !.approval = "consumed", !.state = "working",
                          !.safeErrorCode = "other"]

resumeIncoming(r) ==
  [nextRevision(r) EXCEPT !.state = "working", !.safeErrorCode = "other"]

(* Faulty variant: the requester's approval vocabulary.                    *)
rejectIncomingForRequester(r) ==
  [nextRevision(r) EXCEPT !.approval = "approved_once", !.state = "rejected"]

rejectIncoming(r) ==
  [nextRevision(r) EXCEPT !.approval = "rejected", !.state = "rejected",
                          !.safeErrorCode = "other"]

(* receiveCancel and the host user's cancel differ in the approval only.    *)
cancelIncoming(r, byRequester) ==
  [nextRevision(r) EXCEPT
     !.state = "canceled", !.safeErrorCode = "other",
     !.approval = IF byRequester /\ @ = "pending" THEN "rejected" ELSE @]

finishSingleStageExecution(r, result, handle, epoch) ==
  LET s == nextRevision(r)
  IN  CASE result = "completed" ->
             [s EXCEPT !.state = "completed", !.safeErrorCode = "other",
                       !.artifactEpoch = epoch]
        [] result = "auth_required" ->
             [s EXCEPT !.state = "auth_required", !.approval = "pending",
                       !.safeErrorCode = "other"]
        [] OTHER ->
             [s EXCEPT !.safeErrorCode = "other",
                       !.state = IF /\ handle.epoch = epoch
                                    /\ handle.progress = "failed"
                                    /\ handle.resumable
                                 THEN "input_required"
                                 ELSE IF result = "canceled" THEN "canceled" ELSE "failed"]

(* reconcileInterruptedExecutions when the kernel has no such task.         *)
interruptIncoming(r, handle) ==
  [nextRevision(r) EXCEPT
     !.safeErrorCode = "other",
     !.state = IF handle.progress = "interrupted" /\ handle.resumable
               THEN "input_required" ELSE "failed"]

(* receiveApplicationReceipt for a status revision.                         *)
hasApplicationDeliveryReference(r, revision) ==
  /\ revision \in 1..r.statusRevision
  /\ \/ revision <= r.acknowledgedRevision
     \/ revision = r.attemptRevision
     \/ revision = r.failureRevision

(* Faulty variant: any receipt acknowledges the latest revision.           *)
acknowledgeLatest(r, revision) ==
  IF r.stored /\ hasApplicationDeliveryReference(r, revision)
  THEN [r EXCEPT !.acknowledgedRevision = r.statusRevision, !.statusPending = FALSE]
  ELSE r

acknowledgeStatus(r, revision) ==
  IF r.stored /\ hasApplicationDeliveryReference(r, revision)
  THEN LET acked == IF revision > r.acknowledgedRevision THEN revision
                    ELSE r.acknowledgedRevision
       IN  [r EXCEPT !.acknowledgedRevision = acked,
                     !.statusPending = acked < r.statusRevision,
                     !.attemptRevision = IF @ = revision THEN 0 ELSE @,
                     !.failureRevision = IF @ <= revision THEN 0 ELSE @]
  ELSE r

acknowledgeArtifact(r) ==
  IF r.stored /\ r.artifactEpoch > 0
  THEN [r EXCEPT !.artifactAcknowledged = TRUE, !.artifactAttempted = FALSE]
  ELSE r
=============================================================================
