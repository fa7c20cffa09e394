--------------------------- MODULE TaskTransport ---------------------------
(***************************************************************************)
(* One single-stage Task between a requester and a host, over Chatmail.    *)
(*                                                                         *)
(* Each node runs its Task operations one at a time (connections.ts,       *)
(* `serial'), so an operation is one action.  What is not atomic is its    *)
(* relation to the disk and to the network: an operation saves the store,  *)
(* sends, and saves again, and the process may die between any two of      *)
(* those.  An operation therefore has a set of OUTCOMES: the record it     *)
(* leaves in memory, the record it had on disk, the messages it put on     *)
(* the wire, and how it ended ("run": to the end, "return": it gave up     *)
(* after a failed send, "crash": the process died).                        *)
(*                                                                         *)
(* The network loses, duplicates, delays and reorders: a message stays     *)
(* available until it is consumed or lost.                                 *)
(***************************************************************************)
EXTENDS TaskRecords, FiniteSets

CONSTANTS
  MaxCopies,       \* bound: transmissions of the request (the code has none)
  MaxEpoch,        \* bound: executions the host user may start for the Task
  Faults,          \* which of AllFaults this instance includes
  Results,         \* how executions may settle in this instance
  MaxFailures      \* bound: failed sends and crashes in one behaviour

(* throw: a send fails.  offline: there is no authorized connection.       *)
(* crash: a process dies.  forget: a message disappears, lost or consumed  *)
(* (without it every message stays deliverable for ever, which reaches the *)
(* same records).  redeliver: a consumed message may be delivered again.   *)
(* evict: a full store drops expired records.  refuse: a request meets a   *)
(* full store or a skewed clock.  cancel: one of the users cancels.        *)
(* expire: a clock passes expiresAt.                                       *)
AllFaults == {"throw", "offline", "crash", "forget", "redeliver", "evict", "refuse",
              "cancel", "expire"}

ASSUME BoundsAssumption == MaxCopies \in Nat \ {0} /\ MaxEpoch \in Nat \ {0} /\ MaxFailures \in Nat
ASSUME FaultsAssumption == Faults \subseteq AllFaults
ASSUME ResultsAssumption == Results \subseteq {"completed", "failed", "auth_required", "canceled"}

Requester == "requester"
Host == "host"
Node == {Requester, Host}

VARIABLES
  outgoing,    \* the requester's record, on disk
  incoming,    \* the host's record, on disk
  net,         \* messages that may still be delivered
  due,         \* due[n]: n's clock has passed request.expiresAt
  up,          \* up[n]: n's runtime process is running
  handle,      \* the host's durable Execution Handle of the Task
  kernel,      \* the host kernel's in-memory task, and whether run() still owns it
  finishes,    \* execution results whose finishExecution is still to run
  copies,      \* transmissions of the request so far
  failures,    \* failed sends and crashes so far (bounded by MaxFailures)
  produced     \* a result was accepted by the host (history)

vars == <<outgoing, incoming, net, due, up, handle, kernel, finishes, copies,
          failures, produced>>

-----------------------------------------------------------------------------
(* Messages.                                                                *)

Request(k) == [type |-> "request", copy |-> k]
RequestReceipt(r) == [type |-> "receipt", status |-> r.status, receivedAt |-> r.receivedAt]
networkTaskState(s) == IF s = "submitted" THEN "failed" ELSE s
Status(r) == [type |-> "status", revision |-> r.statusRevision,
              state |-> networkTaskState(r.state), safeErrorCode |-> r.safeErrorCode]
StatusReceipt(n) == [type |-> "status_receipt", revision |-> n]
Artifact == [type |-> "artifact"]
ArtifactReceipt == [type |-> "artifact_receipt"]
Cancel == [type |-> "cancel"]
ControlReceipt == [type |-> "control_receipt"]

Message ==
  [type : {"request"}, copy : Nat]
    \cup [type : {"receipt"}, status : ReceiptStatus, receivedAt : Nat]
    \cup [type : {"status"}, revision : Nat, state : TaskState \ {"submitted"},
           safeErrorCode : SafeErrorCode]
    \cup [type : {"status_receipt"}, revision : Nat]
    \cup [type : {"artifact", "artifact_receipt", "cancel", "control_receipt"}]

-----------------------------------------------------------------------------
(* Outcomes.                                                                *)

Start(memory, disk) == [rec |-> memory, disk |-> disk, sent |-> {}, on |-> "run",
                         failures |-> 0]

(* One awaited send and the save after it.  A send that throws may have    *)
(* gone out (an RPC deadline); a crash falls before or after the send.     *)
SendThenSave(o, m, okay, failed, afterFailure) ==
  LET sent == {o.sent, o.sent \cup {m}}
  IN  {[o EXCEPT !.rec = okay, !.disk = okay, !.sent = @ \cup {m}]}
        \cup {[o EXCEPT !.rec = failed, !.disk = failed, !.sent = s, !.on = afterFailure,
                         !.failures = @ + 1] :
                s \in IF "throw" \in Faults THEN sent ELSE {}}
        \cup {[o EXCEPT !.sent = s, !.on = "crash", !.failures = @ + 1] :
                s \in IF "crash" \in Faults THEN sent ELSE {}}

(* The next step of an operation that is still running.                    *)
Then(S, Step(_)) == UNION {IF o.on = "run" THEN Step(o) ELSE {o} : o \in S}

Kept(o) == IF o.on = "crash" THEN o.disk ELSE o.rec

-----------------------------------------------------------------------------
(* The requester's sends.                                                   *)

(* trySendStoredRecord, for a record still to be sent.                     *)
trySendStoredRecord(o, connected) ==
  IF o.rec.delivery \notin {"queued", "send_failed"} THEN {o}
  ELSE IF due[Requester]
  THEN LET r == expireOutgoing(o.rec) IN {[o EXCEPT !.rec = r, !.disk = r]}
  ELSE LET failed == [o.rec EXCEPT !.delivery = "send_failed", !.safeErrorCode = "other"]
           sent == [o.rec EXCEPT !.delivery = "sent", !.safeErrorCode = "other"]
       IN  IF connected /\ copies < MaxCopies
           THEN SendThenSave(o, Request(copies + 1), sent, failed, "run")
           ELSE {[o EXCEPT !.rec = failed, !.disk = failed]}

(* The queued application receipts of flushOutbox: those in `done' were    *)
(* sent and removed from the queue, and then it ended: the queue was       *)
(* empty, or the next send threw, or the process died.                     *)
sentReceipts(o, done) ==
  LET left == o.rec.receiptOutbox \ done
      r == [o.rec EXCEPT !.receiptOutbox = left]
      p == [o EXCEPT !.rec = r, !.disk = IF done = {} THEN @ ELSE r,
                     !.sent = @ \cup {StatusReceipt(n) : n \in done}]
      ends == {e \in {"run", "crash"} : \/ e = "run" /\ "throw" \in Faults
                                        \/ e = "crash" /\ "crash" \in Faults}
      tries == {t \in SUBSET left : Cardinality(t) <= 1}
  IN  {q \in {p} : left = {}}
        \cup {[p EXCEPT !.sent = @ \cup {StatusReceipt(n) : n \in tried}, !.on = end,
                        !.failures = @ + 1] : tried \in tries, end \in ends}

sendStatusReceipts(o, connected) ==
  IF ~connected \/ o.rec.receiptOutbox = {} THEN {o}
  ELSE UNION {sentReceipts(o, done) : done \in SUBSET o.rec.receiptOutbox}

(* Faulty variant: a cancel is sent once.                                  *)
sendCancelOnce(o, connected, elapsed) ==
  IF o.rec.cancel # "pending" \/ ~connected \/ o.rec.controlAttempted THEN {o}
  ELSE SendThenSave(o, Cancel, [o.rec EXCEPT !.controlAttempted = TRUE], o.rec, "return")

(* trySendPendingForRecord on the outgoing record.                         *)
sendCancel(o, connected, elapsed) ==
  IF o.rec.cancel # "pending" THEN {o}
  ELSE IF ~connected
  THEN LET r == [o.rec EXCEPT !.controlFailed = TRUE] IN {[o EXCEPT !.rec = r, !.disk = r]}
  ELSE IF o.rec.controlAttempted /\ ~elapsed THEN {o}
  ELSE SendThenSave(o, Cancel,
                    [o.rec EXCEPT !.controlAttempted = TRUE],
                    [o.rec EXCEPT !.controlAttempted = TRUE, !.controlFailed = TRUE],
                    "return")

-----------------------------------------------------------------------------
(* The host's sends.                                                        *)

sendReceipt(o, connected) ==
  IF ~o.rec.receiptPending THEN {o}
  ELSE IF ~connected THEN {[o EXCEPT !.on = "return"]}
  ELSE SendThenSave(o, RequestReceipt(o.rec.receipt),
                    [o.rec EXCEPT !.receiptPending = FALSE], o.rec, "run")

sendControlReceipt(o, connected) ==
  IF ~o.rec.controlReceiptQueued \/ ~connected THEN {o}
  ELSE SendThenSave(o, ControlReceipt,
                    [o.rec EXCEPT !.controlReceiptQueued = FALSE], o.rec, "run")

(* Faulty variant: a status is sent once.                                  *)
shouldSendStatusOnce(r, elapsed) ==
  r.statusPending /\ r.statusRevision > 0 /\ r.attemptRevision # r.statusRevision

shouldSendArtifact(r, elapsed) ==
  /\ r.artifactEpoch > 0
  /\ ~r.artifactAcknowledged
  /\ r.artifactAttempted => elapsed

sendArtifact(o, connected, elapsed) ==
  IF ~connected \/ ~shouldSendArtifact(o.rec, elapsed) THEN {o}
  ELSE SendThenSave(o, Artifact, [o.rec EXCEPT !.artifactAttempted = TRUE], o.rec, "return")

shouldSendStatus(r, elapsed) ==
  /\ r.statusPending /\ r.statusRevision > 0
  /\ r.attemptRevision = r.statusRevision => elapsed

sendStatus(o, connected, elapsed) ==
  LET attempted == [o.rec EXCEPT !.attemptRevision = o.rec.statusRevision]
      failed(r) == [r EXCEPT !.failureRevision = o.rec.statusRevision]
  IN  IF ~connected /\ o.rec.statusPending /\ o.rec.statusRevision > 0
      THEN {[o EXCEPT !.rec = failed(o.rec), !.disk = failed(o.rec)]}
      ELSE IF ~connected \/ ~shouldSendStatus(o.rec, elapsed) THEN {o}
      ELSE SendThenSave(o, Status(o.rec), attempted, failed(attempted), "return")

(* trySendPendingForRecord on the incoming record: the result, then the    *)
(* status.                                                                 *)
trySendPendingForRecord(o, connected, elapsed) ==
  Then(sendArtifact(o, connected, elapsed), LAMBDA p : sendStatus(p, connected, elapsed))

-----------------------------------------------------------------------------
(* How an outcome becomes the next state.                                   *)

(* The process is gone: so is everything it held in memory.                *)
HostMemory(o, k, f) ==
  /\ kernel' = IF o.on = "crash" THEN [task |-> "none", active |-> FALSE] ELSE k
  /\ finishes' = IF o.on = "crash" THEN {} ELSE f

Survives(n, o) ==
  /\ up' = [up EXCEPT ![n] = o.on # "crash"]
  /\ failures' = failures + o.failures
  /\ failures' <= MaxFailures

(* A received message is acknowledged to Chatmail after its handler ran;   *)
(* if that fails, or the process dies first, it stays fresh.               *)
Consume(m, sent, crashed) ==
  \/ /\ crashed \/ Faults \cap {"forget", "redeliver"} # {"forget"}
     /\ net' = net \cup sent
  \/ /\ ~crashed /\ "forget" \in Faults
     /\ net' = (net \ {m}) \cup sent

hostUnchanged == UNCHANGED <<incoming, handle, kernel, finishes, produced>>
requesterUnchanged == UNCHANGED <<outgoing, copies>>

-----------------------------------------------------------------------------
Init ==
  /\ outgoing = NoOutgoing
  /\ incoming = NoIncoming
  /\ net = {}
  /\ due = [n \in Node |-> FALSE]
  /\ up = [n \in Node |-> TRUE]
  /\ handle = [epoch |-> 0, progress |-> "none", resumable |-> FALSE]
  /\ kernel = [task |-> "none", active |-> FALSE]
  /\ finishes = {}
  /\ copies = 0
  /\ failures = 0
  /\ produced = FALSE

-----------------------------------------------------------------------------
(* The requester.                                                           *)

RequesterEnds(S) ==
  \E o \in S :
    /\ outgoing' = Kept(o)
    /\ net' = net \cup o.sent
    /\ copies' = IF Request(copies + 1) \in o.sent THEN copies + 1 ELSE copies
    /\ Survives(Requester, o)
    /\ UNCHANGED due
    /\ hostUnchanged

(* send: store the new record, then try to send it.                        *)
Send(connected) ==
  /\ up[Requester] /\ ~due[Requester]
  /\ ~outgoing.stored /\ copies = 0
  /\ RequesterEnds(trySendStoredRecord(Start(newOutgoing, newOutgoing), connected))

(* send again with the same Task ID: the exact stored request is retried.  *)
Retry(connected) ==
  /\ up[Requester] /\ outgoing.stored
  /\ LET r == expireDueOutgoing(outgoing, due[Requester])
     IN  /\ r.delivery \in {"queued", "send_failed"}
         /\ RequesterEnds(trySendStoredRecord(Start(r, outgoing), connected))

(* cancel on the outgoing record.                                          *)
RequestCancel(connected, elapsed) ==
  /\ "cancel" \in Faults
  /\ up[Requester] /\ outgoing.stored
  /\ ~isTerminalTaskState(outgoing.state)
  /\ LET r == requestCancel(outgoing)
     IN  RequesterEnds(sendCancel(Start(r, r), connected, elapsed))

(* flushOutbox on the outgoing record, at the end of a poll.               *)
RequesterFlush(connected, elapsed) ==
  /\ up[Requester] /\ outgoing.stored
  /\ LET o == Start(expireDueOutgoing(outgoing, due[Requester]), outgoing)
     IN  RequesterEnds(Then(Then(trySendStoredRecord(o, connected),
                                 LAMBDA p : sendStatusReceipts(p, connected)),
                            LAMBDA p : sendCancel(p, connected, elapsed)))

(* Any send or receiveRequest for another Task expires what is due here.   *)
RequesterExpireDue ==
  /\ up[Requester] /\ outgoing.stored
  /\ outgoing' = expireDueOutgoing(outgoing, due[Requester])
  /\ outgoing' # outgoing
  /\ UNCHANGED <<net, due, up, failures, copies>>
  /\ hostUnchanged

ReceiveReceipt(m) ==
  /\ up[Requester] /\ m.type = "receipt"
  /\ LET receipt == [status |-> m.status, receivedAt |-> m.receivedAt]
     IN  outgoing' = IF outgoing.stored /\ shouldApplyReceipt(outgoing, receipt)
                     THEN applyReceipt(outgoing, receipt) ELSE outgoing
  /\ Consume(m, {}, FALSE)
  /\ UNCHANGED <<due, up, failures, copies>>
  /\ hostUnchanged

(* A status that arrives before its record stays fresh.                    *)
ReceiveStatus(m) ==
  /\ up[Requester] /\ m.type = "status" /\ outgoing.stored
  /\ LET r == applyStatus(outgoing, m)
         sent == [r EXCEPT !.receiptOutbox = @ \ {m.revision}]
     IN  \E o \in SendThenSave(Start(r, r), StatusReceipt(m.revision), sent, r, "run") :
           /\ outgoing' = Kept(o)
           /\ Consume(m, o.sent, o.on = "crash")
           /\ Survives(Requester, o)
  /\ UNCHANGED <<due, copies>>
  /\ hostUnchanged

(* Faulty variant: the result is acknowledged before it is saved.          *)
AcknowledgeArtifactFirst(m) ==
  /\ up[Requester] /\ m.type = "artifact" /\ outgoing.stored
  /\ LET r == acceptArtifact(outgoing)
     IN  \E o \in SendThenSave(Start(r, outgoing), ArtifactReceipt, r, r, "run") :
           /\ outgoing' = Kept(o)
           /\ Consume(m, o.sent, o.on = "crash")
           /\ Survives(Requester, o)
  /\ UNCHANGED <<due, copies>>
  /\ hostUnchanged

(* The receipt of a result is not queued: when its send throws, the result *)
(* message is processed again, at most five times.                         *)
ReceiveArtifactFile(m) ==
  /\ up[Requester] /\ m.type = "artifact" /\ outgoing.stored
  /\ LET r == acceptArtifact(outgoing)
     IN  \E o \in SendThenSave(Start(r, r), ArtifactReceipt, r, r, "run") :
           /\ outgoing' = Kept(o)
           /\ Consume(m, o.sent, o.on = "crash")
           /\ Survives(Requester, o)
  /\ UNCHANGED <<due, copies>>
  /\ hostUnchanged

ReceiveControlReceipt(m) ==
  /\ up[Requester] /\ m.type = "control_receipt"
  /\ outgoing' = IF outgoing.stored THEN acknowledgeControl(outgoing) ELSE outgoing
  /\ Consume(m, {}, FALSE)
  /\ UNCHANGED <<due, up, failures, copies>>
  /\ hostUnchanged

-----------------------------------------------------------------------------
(* The host's executor, as the Task runtime sees it: the durable Execution *)
(* Handle and the kernel's in-memory task.                                  *)

handleIsTerminal(h) == h.progress \in {"completed", "failed", "canceled"}

(* registry.reconcile: what no live run owns was interrupted.              *)
reconcileHandle(h, k) ==
  IF h.epoch > 0 /\ ~handleIsTerminal(h) /\ ~k.active
  THEN [h EXCEPT !.progress = "interrupted"] ELSE h

(* registry.prepare: a new epoch.                                          *)
prepareHandle(h) ==
  [epoch |-> h.epoch + 1, progress |-> "running", resumable |-> h.resumable]

(* kernel.cancel: nothing to do unless a run is still working.             *)
cancelExecution(h) ==
  IF kernel.active /\ kernel.task = "working" /\ ~handleIsTerminal(h)
  THEN [h EXCEPT !.progress = "canceled"] ELSE h

(* kernel.execute: accepted, or rejected (stopping, busy, duplicate), and  *)
(* then finishExecution runs without a result.                             *)
executeOutcomes(epoch) ==
  {[kernel |-> kernel, finishes |-> finishes \cup {[epoch |-> epoch, result |-> "none"]}]}
    \cup (IF kernel.task = "none" \/ (kernel.task # "working" /\ epoch > 1)
          THEN {[kernel |-> [task |-> "working", active |-> TRUE], finishes |-> finishes]}
          ELSE {})

(* The run ends in the state machine before its `finally' runs.            *)
Settle(result) ==
  /\ kernel.task = "working"
  /\ kernel' = [kernel EXCEPT !.task = result]
  /\ UNCHANGED <<incoming, net, due, up, failures, handle, finishes, produced>>
  /\ requesterUnchanged

(* run()'s finally: a checkpoint of an unfinished run.                     *)
CaptureCheckpoint ==
  /\ kernel.active /\ kernel.task \in {"failed", "canceled", "auth_required"}
  /\ ~handleIsTerminal(handle) /\ ~handle.resumable
  /\ handle' = [handle EXCEPT !.resumable = TRUE]
  /\ UNCHANGED <<incoming, net, due, up, failures, kernel, finishes, produced>>
  /\ requesterUnchanged

(* run()'s finally: the handle is finished, the caller gets the result.    *)
SettleHandle ==
  /\ kernel.active /\ kernel.task # "working"
  /\ handle' = IF handleIsTerminal(handle) THEN handle
               ELSE [handle EXCEPT !.progress =
                       IF kernel.task = "auth_required" THEN "failed" ELSE kernel.task]
  /\ kernel' = [kernel EXCEPT !.active = FALSE]
  /\ finishes' = finishes \cup {[epoch |-> handle.epoch, result |-> kernel.task]}
  /\ UNCHANGED <<incoming, net, due, up, failures, produced>>
  /\ requesterUnchanged

-----------------------------------------------------------------------------
(* The host.                                                                *)

HostEnds(S, h, k, f) ==
  \E o \in S :
    /\ incoming' = Kept(o)
    /\ net' = net \cup o.sent
    /\ produced' = (produced \/ Kept(o).artifactEpoch > 0)
    /\ handle' = h
    /\ HostMemory(o, k, f)
    /\ Survives(Host, o)
    /\ UNCHANGED due
    /\ requesterUnchanged

(* Prepare the handle, save the record as working, send, execute.  The     *)
(* process may also die right after the handle is prepared.                *)
StartExecution(r, connected) ==
  \/ \E e \in executeOutcomes(handle.epoch + 1) :
       HostEnds(trySendPendingForRecord(Start(r, r), connected, FALSE),
                prepareHandle(handle), e.kernel, e.finishes)
  \/ /\ "crash" \in Faults
     /\ HostEnds({[Start(r, incoming) EXCEPT !.on = "crash", !.failures = 1]},
                 prepareHandle(handle), kernel, finishes)

(* approve: registry.prepare refuses a Task that already has a handle.     *)
Approve(connected) ==
  /\ up[Host] /\ requireMutableIncomingTask(incoming, due[Host])
  /\ handle.epoch = 0
  /\ StartExecution(startIncoming(incoming), connected)

Resume(connected) ==
  /\ up[Host] /\ incoming.stored /\ incoming.state = "input_required"
  /\ handle.resumable /\ handle.progress \in {"interrupted", "failed"}
  /\ handle.epoch < MaxEpoch
  /\ StartExecution(resumeIncoming(incoming), connected)

(* resume when the checkpoint file no longer matches its digest.           *)
ResumeRefused ==
  /\ up[Host] /\ incoming.stored /\ incoming.state = "input_required"
  /\ handle.resumable /\ handle.progress \in {"interrupted", "failed"}
  /\ handle' = [handle EXCEPT !.resumable = FALSE]
  /\ UNCHANGED <<incoming, net, due, up, failures, kernel, finishes, produced>>
  /\ requesterUnchanged

Reject(connected) ==
  /\ up[Host] /\ requireMutableIncomingTask(incoming, due[Host])
  /\ LET r == rejectIncoming(incoming)
     IN  HostEnds(trySendPendingForRecord(Start(r, r), connected, FALSE),
                  handle, kernel, finishes)

HostCancel(connected) ==
  /\ "cancel" \in Faults
  /\ up[Host] /\ incoming.stored /\ ~isTerminalTaskState(incoming.state)
  /\ LET r == cancelIncoming(incoming, FALSE)
     IN  HostEnds(trySendPendingForRecord(Start(r, r), connected, FALSE),
                  cancelExecution(handle), kernel, finishes)

(* Faulty variants: any epoch's result counts; a result counts after the   *)
(* Task has ended.                                                         *)
FinishAnyEpoch(f, connected) ==
  /\ up[Host] /\ f \in finishes
  /\ IF ~incoming.stored \/ isTerminalTaskState(incoming.state)
     THEN HostEnds({Start(incoming, incoming)}, handle, kernel, finishes \ {f})
     ELSE LET r == finishSingleStageExecution(incoming, f.result, handle, f.epoch)
          IN  HostEnds(trySendPendingForRecord(Start(r, r), connected, FALSE),
                       handle, kernel, finishes \ {f})

FinishEndedTask(f, connected) ==
  /\ up[Host] /\ f \in finishes
  /\ IF ~incoming.stored \/ handle.epoch # f.epoch
     THEN HostEnds({Start(incoming, incoming)}, handle, kernel, finishes \ {f})
     ELSE LET r == finishSingleStageExecution(incoming, f.result, handle, f.epoch)
          IN  HostEnds(trySendPendingForRecord(Start(r, r), connected, FALSE),
                       handle, kernel, finishes \ {f})

(* finishExecution: a result of an epoch that is no longer current, or for *)
(* a Task that already ended, changes nothing.                             *)
FinishExecution(f, connected) ==
  /\ up[Host] /\ f \in finishes
  /\ IF ~incoming.stored \/ isTerminalTaskState(incoming.state) \/ handle.epoch # f.epoch
     THEN HostEnds({Start(incoming, incoming)}, handle, kernel, finishes \ {f})
     ELSE LET r == finishSingleStageExecution(incoming, f.result, handle, f.epoch)
          IN  HostEnds(trySendPendingForRecord(Start(r, r), connected, FALSE),
                       handle, kernel, finishes \ {f})

(* reconcileInterruptedExecutions, its handle already reconciled to h.     *)
reconcileInterruptedExecutions(h, connected, elapsed) ==
  IF ~incoming.stored \/ incoming.state # "working" \/ kernel.task = "working"
  THEN {Start(incoming, incoming)}
  ELSE IF kernel.task = "none"
  THEN {Start(interruptIncoming(incoming, h), incoming)}
  ELSE LET r == finishSingleStageExecution(incoming, kernel.task, h, h.epoch)
       IN  {[o EXCEPT !.on = IF @ = "return" THEN "run" ELSE @] :
              o \in trySendPendingForRecord(Start(r, r), connected, elapsed)}

(* flushOutbox on the incoming record, at the end of a poll.  What the     *)
(* reconciliation and the expiry change is saved only after a send.        *)
HostFlush(connected, elapsed) ==
  /\ up[Host] /\ incoming.stored
  /\ LET h == reconcileHandle(handle, kernel)
         reconciled == reconcileInterruptedExecutions(h, connected, elapsed)
         expired == {[o EXCEPT !.rec = IF o.on = "run" THEN expireDueIncoming(@, due[Host])
                                       ELSE @] : o \in reconciled}
         receipted == Then(expired, LAMBDA p : sendReceipt(p, connected))
         controlled == Then(receipted, LAMBDA p : sendControlReceipt(p, connected))
     IN  HostEnds(Then(controlled, LAMBDA p : trySendPendingForRecord(p, connected, elapsed)),
                  h, kernel, finishes)

HostExpireDue ==
  /\ up[Host]
  /\ incoming' = expireDueIncoming(incoming, due[Host])
  /\ incoming' # incoming
  /\ UNCHANGED <<net, due, up, failures, handle, kernel, finishes, produced>>
  /\ requesterUnchanged

(* receiveRequest, then its receipt.  The store may be full of other       *)
(* Tasks' records, and createdAt may be too far in the future.             *)
receiptStatus(admission) ==
  CASE incoming.stored -> "duplicate"
    [] ~incoming.stored /\ due[Host] -> "expired"
    [] ~incoming.stored /\ ~due[Host] ->
         IF admission = "open" THEN "received" ELSE "rejected"

ReceiveRequest(m, admission) ==
  /\ up[Host] /\ m.type = "request"
  /\ LET status == receiptStatus(admission)
         receipt == [status |-> status, receivedAt |-> m.copy]
         known == IF incoming.stored THEN expireDueIncoming(incoming, due[Host])
                  ELSE IF admission = "full" THEN NoIncoming ELSE incomingRecord(status)
         r == IF known.stored THEN [known EXCEPT !.receipt = receipt, !.receiptPending = TRUE]
              ELSE known
         receipted == [r EXCEPT !.receiptPending = FALSE]
     IN  \E o \in SendThenSave(Start(r, r), RequestReceipt(receipt), receipted, r, "run") :
           /\ incoming' = Kept(o)
           /\ Consume(m, o.sent, o.on = "crash")
           /\ HostMemory(o, kernel, finishes)
           /\ Survives(Host, o)
  /\ UNCHANGED <<due, handle, produced>>
  /\ requesterUnchanged

(* receiveCancel, then its receipt; the status waits for the next flush.   *)
ReceiveCancel(m) ==
  /\ up[Host] /\ m.type = "cancel" /\ incoming.stored
  /\ LET ended == isTerminalTaskState(incoming.state)
         r == [IF ended THEN incoming ELSE cancelIncoming(incoming, TRUE)
                 EXCEPT !.controlReceiptQueued = TRUE]
         sent == [r EXCEPT !.controlReceiptQueued = FALSE]
     IN  /\ handle' = IF ended THEN handle ELSE cancelExecution(handle)
         /\ \E o \in SendThenSave(Start(r, r), ControlReceipt, sent, r, "run") :
              /\ incoming' = Kept(o)
              /\ Consume(m, o.sent, o.on = "crash")
              /\ HostMemory(o, kernel, finishes)
              /\ Survives(Host, o)
  /\ UNCHANGED <<due, produced>>
  /\ requesterUnchanged

ReceiveStatusReceipt(m) ==
  /\ up[Host] /\ m.type = "status_receipt"
  /\ incoming' = acknowledgeStatus(incoming, m.revision)
  /\ Consume(m, {}, FALSE)
  /\ UNCHANGED <<due, up, failures, handle, kernel, finishes, produced>>
  /\ requesterUnchanged

ReceiveArtifactReceipt(m) ==
  /\ up[Host] /\ m.type = "artifact_receipt"
  /\ incoming' = acknowledgeArtifact(incoming)
  /\ Consume(m, {}, FALSE)
  /\ UNCHANGED <<due, up, failures, handle, kernel, finishes, produced>>
  /\ requesterUnchanged

-----------------------------------------------------------------------------
(* Time, storage pressure, crashes, loss.                                   *)

ClockPassesExpiry(n) ==
  /\ "expire" \in Faults
  /\ ~due[n] /\ (outgoing.stored \/ copies > 0)
  /\ due' = [due EXCEPT ![n] = TRUE]
  /\ UNCHANGED <<net, up, failures>>
  /\ requesterUnchanged /\ hostUnchanged

(* ensureCapacity drops every record whose request has expired when the    *)
(* store holds 512 records, whatever that record's state.                  *)
EvictOutgoing ==
  /\ "evict" \in Faults
  /\ up[Requester] /\ outgoing.stored /\ due[Requester]
  /\ outgoing' = NoOutgoing
  /\ UNCHANGED <<net, due, up, failures, copies>>
  /\ hostUnchanged

EvictIncoming ==
  /\ "evict" \in Faults
  /\ up[Host] /\ incoming.stored /\ due[Host]
  /\ incoming' = NoIncoming
  /\ UNCHANGED <<net, due, up, failures, handle, kernel, finishes, produced>>
  /\ requesterUnchanged

RequesterCrash ==
  /\ "crash" \in Faults
  /\ up[Requester]
  /\ failures < MaxFailures /\ failures' = failures + 1
  /\ up' = [up EXCEPT ![Requester] = FALSE]
  /\ UNCHANGED <<net, due>>
  /\ requesterUnchanged /\ hostUnchanged

(* A shutdown also cancels the handle of the run it kills.                 *)
HostCrash(orderly) ==
  /\ "crash" \in Faults
  /\ up[Host]
  /\ failures < MaxFailures /\ failures' = failures + 1
  /\ up' = [up EXCEPT ![Host] = FALSE]
  /\ handle' = IF orderly THEN cancelExecution(handle) ELSE handle
  /\ kernel' = [task |-> "none", active |-> FALSE]
  /\ finishes' = {}
  /\ UNCHANGED <<incoming, net, due, produced>>
  /\ requesterUnchanged

(* initializeReadModel.                                                    *)
RequesterStart ==
  /\ ~up[Requester]
  /\ up' = [up EXCEPT ![Requester] = TRUE]
  /\ outgoing' = IF outgoing.stored THEN expireDueOutgoing(outgoing, due[Requester])
                 ELSE outgoing
  /\ UNCHANGED <<net, due, failures, copies>>
  /\ hostUnchanged

HostStart ==
  /\ ~up[Host]
  /\ up' = [up EXCEPT ![Host] = TRUE]
  /\ LET h == reconcileHandle(handle, kernel)
         r == IF incoming.stored /\ incoming.state = "working"
              THEN interruptIncoming(incoming, h) ELSE incoming
     IN  /\ handle' = h
         /\ incoming' = expireDueIncoming(r, due[Host])
  /\ UNCHANGED <<net, due, failures, kernel, finishes, produced>>
  /\ requesterUnchanged

Lose(m) ==
  /\ "forget" \in Faults
  /\ net' = net \ {m}
  /\ UNCHANGED <<due, up, failures>>
  /\ requesterUnchanged /\ hostUnchanged

-----------------------------------------------------------------------------
Connectivity == IF "offline" \in Faults THEN BOOLEAN ELSE {TRUE}
Admission == IF "refuse" \in Faults THEN {"open", "skewed", "full"} ELSE {"open"}

Receive(m) ==
  \/ ReceiveReceipt(m) \/ ReceiveStatus(m) \/ ReceiveArtifactFile(m)
  \/ ReceiveControlReceipt(m)
  \/ \E admission \in Admission : ReceiveRequest(m, admission)
  \/ ReceiveCancel(m) \/ ReceiveStatusReceipt(m) \/ ReceiveArtifactReceipt(m)

Next ==
  \/ \E connected \in Connectivity, elapsed \in BOOLEAN :
       \/ RequestCancel(connected, elapsed)
       \/ RequesterFlush(connected, elapsed)
       \/ HostFlush(connected, elapsed)
  \/ \E connected \in Connectivity :
       \/ Send(connected) \/ Retry(connected)
       \/ Approve(connected) \/ Resume(connected) \/ Reject(connected)
       \/ HostCancel(connected)
       \/ \E f \in finishes : FinishExecution(f, connected)
  \/ \E m \in net : Receive(m) \/ Lose(m)
  \/ \E result \in Results : Settle(result)
  \/ CaptureCheckpoint \/ SettleHandle \/ ResumeRefused
  \/ RequesterExpireDue \/ HostExpireDue
  \/ EvictOutgoing \/ EvictIncoming
  \/ RequesterCrash \/ RequesterStart
  \/ \E orderly \in BOOLEAN : HostCrash(orderly)
  \/ HostStart
  \/ \E n \in Node : ClockPassesExpiry(n)

Spec == Init /\ [][Next]_vars

-----------------------------------------------------------------------------
(* Properties.                                                              *)

Progress == {"none", "running", "completed", "failed", "canceled", "interrupted"}
Result == {"completed", "failed", "auth_required", "canceled", "none"}
Handle == [epoch : Nat, progress : Progress, resumable : BOOLEAN]
Kernel == [task : Result \cup {"working"}, active : BOOLEAN]
Finish == [epoch : Nat, result : Result]

(* Every record, message and handle has the shape the runtime's store and  *)
(* envelope validation accept.                                             *)
TypeOK ==
  /\ outgoing \in Outgoing
  /\ incoming \in Incoming
  /\ net \subseteq Message
  /\ due \in [Node -> BOOLEAN]
  /\ up \in [Node -> BOOLEAN]
  /\ handle \in Handle
  /\ kernel \in Kernel
  /\ finishes \subseteq Finish
  /\ copies \in Nat
  /\ failures \in Nat
  /\ produced \in BOOLEAN

(* A status revision the host counts as acknowledged was applied by the    *)
(* requester, or the requester's Task had already ended: an                *)
(* acknowledgement (receiveApplicationReceipt) never retires an update     *)
(* that a waiting requester has not seen.                                  *)
AcknowledgedStatusWasSeen ==
  incoming.stored /\ outgoing.stored =>
    \/ incoming.acknowledgedRevision <= outgoing.statusRevision
    \/ isTerminalTaskState(outgoing.state)

(* Why, as an inductive invariant: the acknowledgement of a revision       *)
(* exists, queued, in flight or counted, only after the requester saw it;  *)
(* and before the first transmission of the request there is nothing to    *)
(* acknowledge.                                                            *)
Seen(revision) ==
  outgoing.stored => revision <= outgoing.statusRevision \/ isTerminalTaskState(outgoing.state)

QueuedReceiptsWereSeen == \A revision \in outgoing.receiptOutbox : Seen(revision)

ReceiptsInFlightWereSeen == \A m \in net : m.type = "status_receipt" => Seen(m.revision)

NothingBeforeFirstRequest ==
  copies = 0 => /\ ~incoming.stored
                /\ outgoing.receiptOutbox = {}
                /\ \A m \in net : m.type = "cancel"

StatusInv ==
  /\ TypeOK
  /\ QueuedReceiptsWereSeen
  /\ ReceiptsInFlightWereSeen
  /\ AcknowledgedStatusWasSeen
  /\ NothingBeforeFirstRequest

(* When the host's ended Task has nothing left to announce, the requester's *)
(* Task has ended too: nobody waits for a status that will not be sent      *)
(* again (statusPending drives every retry).                                *)
AcknowledgedEndIsKnown ==
  /\ incoming.stored /\ outgoing.stored
  /\ isTerminalTaskState(incoming.state)
  /\ incoming.statusRevision > 0 /\ ~incoming.statusPending
  => isTerminalTaskState(outgoing.state)

(* A Task the requester shows as completed was completed by the host: no   *)
(* interleaving of statuses, results, expiries and crashes fabricates a    *)
(* completion.                                                             *)
CompletionIsReal == outgoing.state = "completed" => produced

(* The comment at expireDueRecords: a missed or reordered completed status *)
(* "can never turn an accepted result into a local TASK_EXPIRED record".   *)
AcceptedResultNeverExpires ==
  outgoing.stored /\ outgoing.artifact =>
    ~(outgoing.state = "rejected" /\ outgoing.safeErrorCode = "TASK_EXPIRED")

(* The host stops resending a result only when the requester has stored    *)
(* it: the receipt of receiveArtifactFile follows the durable copy.        *)
AcknowledgedResultIsStored ==
  incoming.stored /\ outgoing.stored /\ incoming.artifactAcknowledged => outgoing.artifact

(* "The receiver durably stores the Task before sending a receipt": while  *)
(* the request is alive at the host, an acknowledged delivery has a record *)
(* there, whatever crashed in between.                                     *)
AcknowledgedRequestIsStored ==
  outgoing.stored /\ outgoing.delivery = "acknowledged" /\ ~due[Host] => incoming.stored

(* A cancel the host acknowledged has ended the Task there, although the   *)
(* receipt and the canceled status travel separately.                      *)
AcknowledgedCancelEndedTask ==
  outgoing.stored /\ outgoing.cancel = "acknowledged" /\ incoming.stored =>
    isTerminalTaskState(incoming.state)

(* While a run is alive its Task is working, or was ended by a cancel or   *)
(* an expiry: the result of an older epoch, or a reconciliation racing the *)
(* run, never reports an outcome for it.                                   *)
LiveRunHasNoOutcome ==
  kernel.task = "working" /\ incoming.stored =>
    incoming.state \in {"working", "canceled", "rejected"}

(* While the process runs, a working Task has a run, or a result on its    *)
(* way: a crash never leaves it working for ever.                          *)
WorkingTaskHasRun ==
  up[Host] /\ incoming.stored /\ incoming.state = "working" =>
    \/ kernel.task # "none"
    \/ [epoch |-> handle.epoch, result |-> "none"] \in finishes

(* Runs and records agree in both directions (finishExecution,             *)
(* reconcileExecutions).                                                   *)
RunsMatchTasks == LiveRunHasNoOutcome /\ WorkingTaskHasRun

(* What one side claims of the other is so: an acknowledged end, result,   *)
(* request or cancel is one, and a completion was the host's.  Receipts,   *)
(* statuses and results travel separately, so each part holds only by the  *)
(* order in which the handlers save and answer.                            *)
ClaimsAreTrue ==
  /\ AcknowledgedEndIsKnown
  /\ AcknowledgedResultIsStored
  /\ AcknowledgedRequestIsStored
  /\ AcknowledgedCancelEndedTask
  /\ CompletionIsReal

HostEndStep ==
  incoming.stored /\ isTerminalTaskState(incoming.state) /\ incoming'.stored
    => incoming'.state = incoming.state

(* A step never changes the state of a Task that ended at the host: not a  *)
(* late result, a late cancel, an expiry or a restart.                     *)
HostEndIsFinal == [][HostEndStep]_vars

RevisionStep ==
  /\ outgoing.stored /\ outgoing'.stored
       => outgoing'.statusRevision >= outgoing.statusRevision
  /\ incoming.stored /\ incoming'.stored
       => /\ incoming'.statusRevision >= incoming.statusRevision
          /\ incoming'.acknowledgedRevision >= incoming.acknowledgedRevision

(* The revisions the requester has applied and the host has counted as     *)
(* acknowledged never go back while the records live.                      *)
RevisionsAdvance == [][RevisionStep]_vars

(* Nothing that was told is taken back, whatever order it is told in.      *)
NothingIsTakenBack == HostEndIsFinal /\ RevisionsAdvance

-----------------------------------------------------------------------------
(* Liveness.                                                                *)

(* The poll loop flushes for ever, and the retry delays are bounded.  A    *)
(* message that is sent again and again is eventually delivered: the       *)
(* current status and its receipt, the result, the cancel and theirs.      *)
(* Every run is ended by its deadline, and its result handler runs.  A     *)
(* stopped runtime is started again.                                       *)
Fairness ==
  /\ WF_vars(RequesterFlush(TRUE, TRUE)) /\ WF_vars(HostFlush(TRUE, TRUE))
  /\ WF_vars(RequesterStart) /\ WF_vars(HostStart)
  /\ WF_vars(\E result \in Results : Settle(result)) /\ WF_vars(SettleHandle)
  /\ WF_vars(\E f \in finishes : FinishExecution(f, TRUE))
  /\ WF_vars(ClockPassesExpiry(Requester))
  /\ SF_vars(\E m \in net : ReceiveStatus(m) /\ m.revision = incoming.statusRevision)
  /\ SF_vars(\E m \in net : ReceiveStatusReceipt(m) /\ m.revision = incoming.statusRevision)
  /\ SF_vars(\E m \in net : ReceiveArtifactFile(m))
  /\ SF_vars(\E m \in net : ReceiveArtifactReceipt(m))
  /\ SF_vars(\E m \in net : ReceiveCancel(m))
  /\ SF_vars(\E m \in net : ReceiveControlReceipt(m))

FairSpec == Spec /\ Fairness

(* The host does not stop announcing a status before the requester has     *)
(* acknowledged it, and the announcement gets through a network that loses *)
(* and reorders, although each delivery attempt waits for its retry delay; *)
(* only a full store that drops a record may cut this short.               *)
StatusIsEventuallyAcknowledged ==
  [](incoming.stored /\ incoming.statusPending
       => <>(~incoming.stored \/ ~incoming.statusPending \/ ~outgoing.stored))

(* A result the host holds eventually reaches the requester's store,       *)
(* unless a full store drops one of the records first.                     *)
ResultIsEventuallyStored ==
  incoming.stored /\ incoming.artifactEpoch > 0
    ~> outgoing.artifact \/ ~outgoing.stored \/ ~incoming.stored

(* What the host has to say arrives.                                       *)
MessagesArrive == StatusIsEventuallyAcknowledged /\ ResultIsEventuallyStored

(* A cancel of a Task the host knows is eventually answered, by its        *)
(* receipt or by the end of the Task.                                      *)
CancelIsEventuallyAnswered ==
  incoming.stored /\ outgoing.cancel = "pending" ~> outgoing.cancel # "pending"

(* A requester never waits for ever: a Task ends by an answer, or by its   *)
(* expiry, even if its request was lost after Chatmail accepted it.        *)
EveryRequestEnds ==
  outgoing.stored ~> ~outgoing.stored \/ isTerminalTaskState(outgoing.state)
=============================================================================
