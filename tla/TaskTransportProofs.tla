------------------------ MODULE TaskTransportProofs ------------------------
(***************************************************************************)
(* Proofs about TaskTransport, for every value of its constants.           *)
(*                                                                         *)
(* Every operation is a chain of record functions and sends.  The lemmas   *)
(* say what each link of the chain keeps: OutgoingKeeps(b, r) relates the  *)
(* requester's record b before an operation to the record r it has in      *)
(* memory or on disk at any point of it, IncomingKeeps(b, r) does so for   *)
(* the host's record, and the outcome sets carry the two relations through *)
(* failed sends and crashes.                                               *)
(***************************************************************************)
EXTENDS TaskTransport, TLAPS

(* What a step of the requester other than receiveStatus keeps.            *)
OutgoingKeeps(b, r) ==
  /\ r \in Outgoing
  /\ r.stored = b.stored
  /\ r.statusRevision = b.statusRevision
  /\ isTerminalTaskState(b.state) => isTerminalTaskState(r.state)
  /\ r.receiptOutbox \subseteq b.receiptOutbox

(* What a step of the host other than receiveRequest and a status receipt  *)
(* keeps.                                                                  *)
IncomingKeeps(b, r) ==
  /\ r \in Incoming
  /\ r.stored = b.stored
  /\ r.statusRevision >= b.statusRevision
  /\ r.acknowledgedRevision = b.acknowledgedRevision
  /\ isTerminalTaskState(b.state) => r.state = b.state

-----------------------------------------------------------------------------
(* The requester's record.                                                  *)

(* Clearing the cancel delivery touches neither state nor receipts.        *)
LEMMA ClearCancelKeeps ==
  ASSUME NEW b, NEW r \in Outgoing, OutgoingKeeps(b, r)
  PROVE  /\ OutgoingKeeps(b, clearCancelDeliveryState(r))
         /\ clearCancelDeliveryState(r).state = r.state
         /\ clearCancelDeliveryState(r).receiptOutbox = r.receiptOutbox
BY DEF OutgoingKeeps, clearCancelDeliveryState, Outgoing

(* Expiry leaves revision and receipts of the requester alone.             *)
LEMMA ExpireOutgoingKeeps ==
  ASSUME NEW b, NEW r \in Outgoing, OutgoingKeeps(b, r)
  PROVE  OutgoingKeeps(b, expireOutgoing(r))
BY DEF OutgoingKeeps, expireOutgoing, clearCancelDeliveryState, Outgoing, TaskState,
       SafeErrorCode, isTerminalTaskState, Terminal

(* So does completion by the verified result.                              *)
LEMMA CompleteOutgoingKeeps ==
  ASSUME NEW b, NEW r \in Outgoing, OutgoingKeeps(b, r)
  PROVE  OutgoingKeeps(b, completeOutgoingSingleStageFromVerifiedArtifact(r))
<1> DEFINE c == clearCancelDeliveryState(r)
           s == [c EXCEPT !.state = "completed", !.delivery = "acknowledged",
                          !.safeErrorCode = "other"]
<1>1. OutgoingKeeps(b, c)
  BY ClearCancelKeeps
<1>2. OutgoingKeeps(b, s)
  BY <1>1 DEF OutgoingKeeps, Outgoing, TaskState, SafeErrorCode, isTerminalTaskState,
              Terminal
<1> HIDE DEF c
<1>3. completeOutgoingSingleStageFromVerifiedArtifact(r) \in {r, s}
  BY DEF completeOutgoingSingleStageFromVerifiedArtifact, c
<1> QED
  BY <1>2, <1>3

(* And the expiry sweep.                                                   *)
LEMMA ExpireDueOutgoingKeeps ==
  ASSUME NEW b, NEW r \in Outgoing, OutgoingKeeps(b, r), NEW d
  PROVE  OutgoingKeeps(b, expireDueOutgoing(r, d))
<1> DEFINE c == completeOutgoingSingleStageFromVerifiedArtifact(r)
<1>1. OutgoingKeeps(b, c)
  BY CompleteOutgoingKeeps
<1>2. c \in Outgoing
  BY <1>1 DEF OutgoingKeeps
<1>3. OutgoingKeeps(b, expireOutgoing(c))
  BY <1>1, <1>2, ExpireOutgoingKeeps
<1> QED
  BY <1>1, <1>3 DEF expireDueOutgoing

(* And a request receipt.                                                  *)
LEMMA ApplyReceiptKeeps ==
  ASSUME NEW r \in Outgoing, NEW receipt \in Receipt, shouldApplyReceipt(r, receipt)
  PROVE  OutgoingKeeps(r, applyReceipt(r, receipt))
<1> DEFINE s == [r EXCEPT !.receipt = receipt]
<1>1. s \in Outgoing /\ OutgoingKeeps(r, s)
  BY DEF OutgoingKeeps, Outgoing
<1>2. OutgoingKeeps(r, expireOutgoing(s))
  BY <1>1, ExpireOutgoingKeeps
<1>3. receipt.status \in ReceiptStatus
  BY DEF Receipt
<1>4. CASE receipt.status \in {"received", "duplicate"}
  BY <1>1, <1>4 DEF applyReceipt, OutgoingKeeps, Outgoing
<1>5. CASE receipt.status = "expired"
  BY <1>2, <1>5 DEF applyReceipt
<1>6. CASE receipt.status = "rejected"
  BY <1>1, <1>6 DEF applyReceipt, OutgoingKeeps, Outgoing, TaskState, SafeErrorCode,
                    isTerminalTaskState, Terminal
<1> QED
  BY <1>3, <1>4, <1>5, <1>6 DEF ReceiptStatus

(* And an accepted result.                                                 *)
LEMMA AcceptArtifactKeeps ==
  ASSUME NEW r \in Outgoing
  PROVE  OutgoingKeeps(r, acceptArtifact(r))
<1> DEFINE s == [r EXCEPT !.artifact = TRUE]
<1>1. s \in Outgoing /\ OutgoingKeeps(r, s)
  BY DEF OutgoingKeeps, Outgoing
<1> QED
  BY <1>1, CompleteOutgoingKeeps DEF acceptArtifact

(* And an answered cancel.                                                 *)
LEMMA AcknowledgeControlKeeps ==
  ASSUME NEW r \in Outgoing
  PROVE  OutgoingKeeps(r, acknowledgeControl(r))
BY DEF OutgoingKeeps, acknowledgeControl, Outgoing

(* And asking for a cancel.                                                *)
LEMMA RequestCancelKeeps ==
  ASSUME NEW r \in Outgoing
  PROVE  OutgoingKeeps(r, requestCancel(r))
BY DEF OutgoingKeeps, requestCancel, Outgoing

(* receiveStatus only moves forward, and queues exactly one new receipt.   *)
LEMMA ApplyStatusAdvances ==
  ASSUME NEW r \in Outgoing, NEW m \in Message, m.type = "status"
  PROVE  LET s == applyStatus(r, m)
         IN  /\ s \in Outgoing
             /\ s.stored = r.stored
             /\ s.statusRevision >= r.statusRevision
             /\ isTerminalTaskState(r.state) => isTerminalTaskState(s.state)
             /\ s.receiptOutbox = r.receiptOutbox \cup {m.revision}
             /\ s.statusRevision >= m.revision \/ isTerminalTaskState(s.state)
<1>1. /\ m.revision \in Nat /\ m.state \in TaskState \ {"submitted"}
      /\ m.safeErrorCode \in SafeErrorCode
  BY DEF Message
<1> DEFINE c == IF isTerminalTaskState(m.state) THEN clearCancelDeliveryState(r) ELSE r
           applied == m.revision > r.statusRevision
                        /\ isRemoteTransitionAllowed(r.state, m.state)
           a == [c EXCEPT !.statusRevision = m.revision, !.state = m.state,
                          !.safeErrorCode = m.safeErrorCode]
           s == IF applied THEN a ELSE r
<1>2. /\ c \in Outgoing /\ c.stored = r.stored /\ c.receiptOutbox = r.receiptOutbox
  BY ClearCancelKeeps DEF OutgoingKeeps, Outgoing
<1> HIDE DEF c
<1>3. /\ a \in Outgoing /\ a.stored = r.stored /\ a.receiptOutbox = r.receiptOutbox
      /\ a.statusRevision = m.revision /\ a.state = m.state
  BY <1>1, <1>2 DEF Outgoing
<1> HIDE DEF a
<1>4. /\ s \in Outgoing
      /\ s.stored = r.stored
      /\ s.receiptOutbox = r.receiptOutbox
      /\ s.statusRevision >= r.statusRevision
      /\ isTerminalTaskState(r.state) => isTerminalTaskState(s.state)
      /\ s.statusRevision >= m.revision \/ isTerminalTaskState(s.state)
  <2>1. CASE applied
    BY <2>1, <1>1, <1>3 DEF Outgoing, isRemoteTransitionAllowed
  <2>2. CASE ~applied
    BY <2>2, <1>1 DEF Outgoing, isRemoteTransitionAllowed
  <2> QED
    BY <2>1, <2>2
<1>5. applyStatus(r, m) = [s EXCEPT !.receiptOutbox = @ \cup {m.revision}]
  BY DEF applyStatus, s, a, c
<1> HIDE DEF s
<1> QED
  BY <1>1, <1>4, <1>5 DEF Outgoing

-----------------------------------------------------------------------------
(* The host's record.                                                       *)

(* A new status revision follows the last and acknowledges nothing.        *)
LEMMA NextRevisionKeeps ==
  ASSUME NEW r \in Incoming
  PROVE  /\ nextRevision(r) \in Incoming
         /\ nextRevision(r).stored = r.stored
         /\ nextRevision(r).statusRevision = r.statusRevision + 1
         /\ nextRevision(r).acknowledgedRevision = r.acknowledgedRevision
<1>1. r.statusRevision + 1 \in Nat
  BY DEF Incoming
<1> QED
  BY <1>1 DEF nextRevision, Incoming

(* The host's expiry sweep keeps ended Tasks and acknowledgements.         *)
LEMMA ExpireDueIncomingKeeps ==
  ASSUME NEW b, NEW r \in Incoming, b.statusRevision \in Nat, IncomingKeeps(b, r),
         NEW d \in BOOLEAN
  PROVE  IncomingKeeps(b, expireDueIncoming(r, d))
<1> DEFINE s == nextRevision(r)
<1>1. /\ s \in Incoming /\ s.stored = r.stored
      /\ s.statusRevision = r.statusRevision + 1
      /\ s.acknowledgedRevision = r.acknowledgedRevision
  BY NextRevisionKeeps
<1> HIDE DEF s
<1>2. CASE r.stored /\ d /\ ~isTerminalTaskState(r.state)
  <2> DEFINE e == expireIncoming(r)
  <2>1. e \in Incoming /\ e.stored = s.stored /\ e.statusRevision = s.statusRevision
          /\ e.acknowledgedRevision = s.acknowledgedRevision
    BY <1>1 DEF expireIncoming, s, Incoming, TaskState, SafeErrorCode
  <2>2. expireDueIncoming(r, d) = e
    BY <1>2 DEF expireDueIncoming
  <2> HIDE DEF e
  <2>3. ~isTerminalTaskState(b.state)
    BY <1>2 DEF IncomingKeeps
  <2>4. r.statusRevision \in Nat /\ r.statusRevision >= b.statusRevision
    BY <1>1 DEF Incoming, IncomingKeeps
  <2>5. e.statusRevision >= b.statusRevision
    BY <1>1, <2>1, <2>4
  <2> QED
    BY <1>1, <2>1, <2>2, <2>3, <2>5 DEF IncomingKeeps
<1>3. CASE ~(r.stored /\ d /\ ~isTerminalTaskState(r.state))
  BY <1>3 DEF expireDueIncoming
<1> QED
  BY <1>2, <1>3

(* Every other change of state starts from a Task that has not ended.      *)
LEMMA HostStepKeeps ==
  ASSUME NEW r \in Incoming, ~isTerminalTaskState(r.state)
  PROVE  /\ IncomingKeeps(r, startIncoming(r))
         /\ IncomingKeeps(r, resumeIncoming(r))
         /\ IncomingKeeps(r, rejectIncoming(r))
         /\ \A byRequester \in BOOLEAN : IncomingKeeps(r, cancelIncoming(r, byRequester))
         /\ \A h : IncomingKeeps(r, interruptIncoming(r, h))
         /\ \A result, h : \A epoch \in Nat :
              IncomingKeeps(r, finishSingleStageExecution(r, result, h, epoch))
<1> DEFINE s == nextRevision(r)
<1>1. /\ s \in Incoming /\ s.stored = r.stored
      /\ s.statusRevision = r.statusRevision + 1
      /\ s.acknowledgedRevision = r.acknowledgedRevision
  BY NextRevisionKeeps
<1>2. r.statusRevision \in Nat /\ s.statusRevision \in Nat
  BY <1>1 DEF Incoming
<1>3. ASSUME NEW t \in Incoming, t.stored = s.stored, t.statusRevision = s.statusRevision,
             t.acknowledgedRevision = s.acknowledgedRevision
      PROVE  IncomingKeeps(r, t)
  BY <1>1, <1>2, <1>3 DEF IncomingKeeps
<1> HIDE DEF s
<1>4. IncomingKeeps(r, startIncoming(r))
  <2> DEFINE t == startIncoming(r)
  <2>1. t \in Incoming /\ t.stored = s.stored /\ t.statusRevision = s.statusRevision
          /\ t.acknowledgedRevision = s.acknowledgedRevision
    BY <1>1 DEF startIncoming, s, Incoming, TaskState, SafeErrorCode
  <2> QED
    BY <2>1, <1>3
<1>5. IncomingKeeps(r, resumeIncoming(r))
  <2> DEFINE t == resumeIncoming(r)
  <2>1. t \in Incoming /\ t.stored = s.stored /\ t.statusRevision = s.statusRevision
          /\ t.acknowledgedRevision = s.acknowledgedRevision
    BY <1>1 DEF resumeIncoming, s, Incoming, TaskState, SafeErrorCode
  <2> QED
    BY <2>1, <1>3
<1>6. IncomingKeeps(r, rejectIncoming(r))
  <2> DEFINE t == rejectIncoming(r)
  <2>1. t \in Incoming /\ t.stored = s.stored /\ t.statusRevision = s.statusRevision
          /\ t.acknowledgedRevision = s.acknowledgedRevision
    BY <1>1 DEF rejectIncoming, s, Incoming, TaskState, SafeErrorCode
  <2> QED
    BY <2>1, <1>3
<1>7. ASSUME NEW byRequester \in BOOLEAN
      PROVE  IncomingKeeps(r, cancelIncoming(r, byRequester))
  <2> DEFINE t == cancelIncoming(r, byRequester)
  <2>1. t \in Incoming /\ t.stored = s.stored /\ t.statusRevision = s.statusRevision
          /\ t.acknowledgedRevision = s.acknowledgedRevision
    BY <1>1 DEF cancelIncoming, s, Incoming, TaskState, SafeErrorCode
  <2> QED
    BY <2>1, <1>3
<1>8. ASSUME NEW h
      PROVE  IncomingKeeps(r, interruptIncoming(r, h))
  <2> DEFINE t == interruptIncoming(r, h)
  <2>1. t \in Incoming /\ t.stored = s.stored /\ t.statusRevision = s.statusRevision
          /\ t.acknowledgedRevision = s.acknowledgedRevision
    BY <1>1 DEF interruptIncoming, s, Incoming, TaskState, SafeErrorCode
  <2> QED
    BY <2>1, <1>3
<1>9. ASSUME NEW result, NEW h, NEW epoch \in Nat
      PROVE  IncomingKeeps(r, finishSingleStageExecution(r, result, h, epoch))
  <2> DEFINE t == finishSingleStageExecution(r, result, h, epoch)
  <2>1. t \in Incoming /\ t.stored = s.stored /\ t.statusRevision = s.statusRevision
          /\ t.acknowledgedRevision = s.acknowledgedRevision
    <3>1. CASE result = "completed"
      BY <1>1, <3>1 DEF finishSingleStageExecution, s, Incoming, TaskState, SafeErrorCode
    <3>2. CASE result = "auth_required"
      BY <1>1, <3>2 DEF finishSingleStageExecution, s, Incoming, TaskState, SafeErrorCode
    <3>3. CASE result \notin {"completed", "auth_required"}
      BY <1>1, <3>3 DEF finishSingleStageExecution, s, Incoming, TaskState, SafeErrorCode
    <3> QED
      BY <3>1, <3>2, <3>3
  <2> QED
    BY <2>1, <1>3
<1> QED
  BY <1>4, <1>5, <1>6, <1>7, <1>8, <1>9

-----------------------------------------------------------------------------
(* Outcomes.                                                                *)

Outcome(R) ==
  [rec : R, disk : R, sent : SUBSET Message, on : {"run", "return", "crash"},
   failures : Nat]

(* What the requester's record may be, in memory and on disk, and what it  *)
(* may have sent, while an operation that began with b runs.               *)
RequesterOutcomes(b) ==
  {o \in Outcome(Outgoing) :
     /\ OutgoingKeeps(b, o.rec) /\ OutgoingKeeps(b, o.disk)
     /\ \A m \in o.sent : \/ m.type = "request" /\ m = Request(copies + 1)
                          \/ m.type = "status_receipt" /\ m.revision \in b.receiptOutbox
                          \/ m.type = "cancel"}

HostOutcomes(b) ==
  {o \in Outcome(Incoming) :
     /\ IncomingKeeps(b, o.rec) /\ IncomingKeeps(b, o.disk)
     /\ \A m \in o.sent : m.type # "status_receipt"}

(* An operation of the requester starts from its record.                   *)
LEMMA RequesterStarts ==
  ASSUME NEW b, NEW r, NEW d, OutgoingKeeps(b, r), OutgoingKeeps(b, d)
  PROVE  Start(r, d) \in RequesterOutcomes(b)
<1> DEFINE o == Start(r, d)
<1>1. r \in Outgoing /\ d \in Outgoing
  BY DEF OutgoingKeeps
<1>2. o \in Outcome(Outgoing) /\ o.rec = r /\ o.disk = d /\ o.sent = {}
  BY <1>1 DEF Start, Outcome
<1> HIDE DEF o
<1>3. o \in RequesterOutcomes(b)
  BY <1>2 DEF RequesterOutcomes
<1> QED
  BY <1>3 DEF o

(* An operation of the host starts from its record.                        *)
LEMMA HostStarts ==
  ASSUME NEW b, NEW r, NEW d, IncomingKeeps(b, r), IncomingKeeps(b, d)
  PROVE  Start(r, d) \in HostOutcomes(b)
<1> DEFINE o == Start(r, d)
<1>1. r \in Incoming /\ d \in Incoming
  BY DEF IncomingKeeps
<1>2. o \in Outcome(Incoming) /\ o.rec = r /\ o.disk = d /\ o.sent = {}
  BY <1>1 DEF Start, Outcome
<1> HIDE DEF o
<1>3. o \in HostOutcomes(b)
  BY <1>2 DEF HostOutcomes
<1> QED
  BY <1>3 DEF o

(* An awaited send and the save after it, with the send failing or the     *)
(* process dying on the way.                                               *)
LEMMA SendThenSaveOutcomes ==
  ASSUME NEW R, NEW o \in Outcome(R), NEW m \in Message, NEW okay \in R, NEW failed \in R,
         NEW after \in {"run", "return"},
         NEW p \in SendThenSave(o, m, okay, failed, after)
  PROVE  /\ p \in Outcome(R)
         /\ p.rec \in {o.rec, okay, failed}
         /\ p.disk \in {o.disk, okay, failed}
         /\ p.sent \subseteq o.sent \cup {m}
<1> DEFINE sent == {o.sent, o.sent \cup {m}}
<1>1. o.sent \cup {m} \in SUBSET Message /\ o.sent \in SUBSET Message /\ o.failures + 1 \in Nat
  BY DEF Outcome
<1>2. CASE p = [o EXCEPT !.rec = okay, !.disk = okay, !.sent = @ \cup {m}]
  BY <1>1, <1>2 DEF Outcome
<1>3. ASSUME NEW s \in sent,
             p = [o EXCEPT !.rec = failed, !.disk = failed, !.sent = s, !.on = after,
                           !.failures = @ + 1]
      PROVE  /\ p \in Outcome(R)
             /\ p.rec = failed /\ p.disk = failed /\ p.sent = s
  BY <1>1, <1>3 DEF Outcome
<1>4. ASSUME NEW s \in sent,
             p = [o EXCEPT !.sent = s, !.on = "crash", !.failures = @ + 1]
      PROVE  /\ p \in Outcome(R)
             /\ p.rec = o.rec /\ p.disk = o.disk /\ p.sent = s
  BY <1>1, <1>4 DEF Outcome
<1>5. \/ p = [o EXCEPT !.rec = okay, !.disk = okay, !.sent = @ \cup {m}]
      \/ \E s \in sent : p = [o EXCEPT !.rec = failed, !.disk = failed, !.sent = s,
                                       !.on = after, !.failures = @ + 1]
      \/ \E s \in sent : p = [o EXCEPT !.sent = s, !.on = "crash", !.failures = @ + 1]
  BY DEF SendThenSave
<1>6. \A s \in sent : s \subseteq o.sent \cup {m}
  OBVIOUS
<1> QED
  BY <1>2, <1>3, <1>4, <1>5, <1>6

(* What survives an operation is its memory or its disk record.            *)
LEMMA KeptOutcome ==
  ASSUME NEW o
  PROVE  Kept(o) \in {o.rec, o.disk}
BY DEF Kept

(* A send within an operation of the requester.                            *)
LEMMA RequesterSend ==
  ASSUME NEW b, NEW o \in RequesterOutcomes(b), NEW m \in Message,
         \/ m.type = "request" /\ m = Request(copies + 1)
         \/ m.type = "status_receipt" /\ m.revision \in b.receiptOutbox
         \/ m.type = "cancel",
         NEW okay, NEW failed, OutgoingKeeps(b, okay), OutgoingKeeps(b, failed),
         NEW after \in {"run", "return"}
  PROVE  SendThenSave(o, m, okay, failed, after) \subseteq RequesterOutcomes(b)
<1>1. SUFFICES ASSUME NEW p \in SendThenSave(o, m, okay, failed, after)
               PROVE  p \in RequesterOutcomes(b)
  OBVIOUS
<1>2. o \in Outcome(Outgoing) /\ okay \in Outgoing /\ failed \in Outgoing
  BY DEF RequesterOutcomes, OutgoingKeeps
<1>3. /\ p \in Outcome(Outgoing)
      /\ p.rec \in {o.rec, okay, failed}
      /\ p.disk \in {o.disk, okay, failed}
      /\ p.sent \subseteq o.sent \cup {m}
  BY <1>2, SendThenSaveOutcomes
<1>4. OutgoingKeeps(b, p.rec) /\ OutgoingKeeps(b, p.disk)
  BY <1>3 DEF RequesterOutcomes
<1> QED
  BY <1>3, <1>4 DEF RequesterOutcomes

(* A send within an operation of the host.                                 *)
LEMMA HostSend ==
  ASSUME NEW b, NEW o \in HostOutcomes(b), NEW m \in Message, m.type # "status_receipt",
         NEW okay, NEW failed, IncomingKeeps(b, okay), IncomingKeeps(b, failed),
         NEW after \in {"run", "return"}
  PROVE  SendThenSave(o, m, okay, failed, after) \subseteq HostOutcomes(b)
<1>1. SUFFICES ASSUME NEW p \in SendThenSave(o, m, okay, failed, after)
               PROVE  p \in HostOutcomes(b)
  OBVIOUS
<1>2. o \in Outcome(Incoming) /\ okay \in Incoming /\ failed \in Incoming
  BY DEF HostOutcomes, IncomingKeeps
<1>3. /\ p \in Outcome(Incoming)
      /\ p.rec \in {o.rec, okay, failed}
      /\ p.disk \in {o.disk, okay, failed}
      /\ p.sent \subseteq o.sent \cup {m}
  BY <1>2, SendThenSaveOutcomes
<1>4. IncomingKeeps(b, p.rec) /\ IncomingKeeps(b, p.disk)
  BY <1>3 DEF HostOutcomes
<1> QED
  BY <1>3, <1>4 DEF HostOutcomes

-----------------------------------------------------------------------------
(* The requester's sends.                                                   *)

(* The messages the requester sends are messages.                          *)
LEMMA RequesterMessages ==
  /\ \A k \in Nat : Request(k) \in Message /\ Request(k).type = "request"
  /\ \A n \in Nat : /\ StatusReceipt(n) \in Message
                    /\ StatusReceipt(n).type = "status_receipt"
                    /\ StatusReceipt(n).revision = n
  /\ Cancel \in Message /\ Cancel.type = "cancel"
  /\ ArtifactReceipt \in Message /\ ArtifactReceipt.type = "artifact_receipt"
BY DEF Message, Request, StatusReceipt, Cancel, ArtifactReceipt

(* A save without a send.                                                  *)
LEMMA RequesterSaves ==
  ASSUME NEW b, NEW o \in RequesterOutcomes(b), NEW r, OutgoingKeeps(b, r)
  PROVE  [o EXCEPT !.rec = r, !.disk = r] \in RequesterOutcomes(b)
<1> DEFINE p == [o EXCEPT !.rec = r, !.disk = r]
<1>1. p \in Outcome(Outgoing) /\ p.rec = r /\ p.disk = r /\ p.sent = o.sent
  BY DEF RequesterOutcomes, Outcome, OutgoingKeeps
<1> QED
  BY <1>1 DEF RequesterOutcomes

(* Sending the request keeps what the requester has seen.                  *)
LEMMA SendStoredKeeps ==
  ASSUME NEW b, NEW o \in RequesterOutcomes(b), copies \in Nat, NEW connected
  PROVE  trySendStoredRecord(o, connected) \subseteq RequesterOutcomes(b)
<1>1. o \in Outcome(Outgoing) /\ o.rec \in Outgoing /\ OutgoingKeeps(b, o.rec)
  BY DEF RequesterOutcomes, Outcome
<1> DEFINE expired == expireOutgoing(o.rec)
           failed == [o.rec EXCEPT !.delivery = "send_failed", !.safeErrorCode = "other"]
           sent == [o.rec EXCEPT !.delivery = "sent", !.safeErrorCode = "other"]
<1>2. OutgoingKeeps(b, expired)
  BY <1>1, ExpireOutgoingKeeps
<1>3. OutgoingKeeps(b, failed) /\ OutgoingKeeps(b, sent)
  BY <1>1 DEF OutgoingKeeps, Outgoing, SafeErrorCode
<1>4. SendThenSave(o, Request(copies + 1), sent, failed, "run") \subseteq RequesterOutcomes(b)
  BY <1>3, RequesterMessages, RequesterSend
<1>5. ASSUME NEW r, OutgoingKeeps(b, r)
      PROVE  [o EXCEPT !.rec = r, !.disk = r] \in RequesterOutcomes(b)
  BY <1>1, <1>5, RequesterSaves
<1> HIDE DEF expired, failed, sent
<1>6. trySendStoredRecord(o, connected) \in
        {{o}, {[o EXCEPT !.rec = expired, !.disk = expired]},
         {[o EXCEPT !.rec = failed, !.disk = failed]},
         SendThenSave(o, Request(copies + 1), sent, failed, "run")}
  BY DEF trySendStoredRecord, expired, failed, sent
<1> QED
  BY <1>2, <1>3, <1>4, <1>5, <1>6

(* So does sending a cancel.                                               *)
LEMMA SendCancelKeeps ==
  ASSUME NEW b, NEW o \in RequesterOutcomes(b), NEW connected, NEW elapsed
  PROVE  sendCancel(o, connected, elapsed) \subseteq RequesterOutcomes(b)
<1>1. o \in Outcome(Outgoing) /\ o.rec \in Outgoing /\ OutgoingKeeps(b, o.rec)
  BY DEF RequesterOutcomes, Outcome
<1> DEFINE noted == [o.rec EXCEPT !.controlFailed = TRUE]
           okay == [o.rec EXCEPT !.controlAttempted = TRUE]
           failed == [o.rec EXCEPT !.controlAttempted = TRUE, !.controlFailed = TRUE]
<1>2. OutgoingKeeps(b, noted) /\ OutgoingKeeps(b, okay) /\ OutgoingKeeps(b, failed)
  BY <1>1 DEF OutgoingKeeps, Outgoing
<1>3. SendThenSave(o, Cancel, okay, failed, "return") \subseteq RequesterOutcomes(b)
  BY <1>2, RequesterMessages, RequesterSend
<1>4. [o EXCEPT !.rec = noted, !.disk = noted] \in RequesterOutcomes(b)
  BY <1>1, <1>2, RequesterSaves
<1> HIDE DEF noted, okay, failed
<1>5. sendCancel(o, connected, elapsed) \in
        {{o}, {[o EXCEPT !.rec = noted, !.disk = noted]},
         SendThenSave(o, Cancel, okay, failed, "return")}
  BY DEF sendCancel, noted, okay, failed
<1> QED
  BY <1>3, <1>4, <1>5

(* A flush that stops among the queued receipts has sent some of them, and *)
(* has removed from the queue only what it has sent.                       *)
LEMMA SendStatusReceiptsKeeps ==
  ASSUME NEW b, NEW o \in RequesterOutcomes(b), NEW connected
  PROVE  sendStatusReceipts(o, connected) \subseteq RequesterOutcomes(b)
<1>1. o \in Outcome(Outgoing) /\ o.rec \in Outgoing /\ OutgoingKeeps(b, o.rec)
  BY DEF RequesterOutcomes, Outcome
<1>2. SUFFICES ASSUME NEW q \in sendStatusReceipts(o, connected), q # o
               PROVE  q \in RequesterOutcomes(b)
  OBVIOUS
<1> DEFINE left(done) == o.rec.receiptOutbox \ done
           r(done) == [o.rec EXCEPT !.receiptOutbox = left(done)]
           receipts(S) == {StatusReceipt(n) : n \in S}
           p(done) == [o EXCEPT !.rec = r(done), !.disk = IF done = {} THEN @ ELSE r(done),
                                !.sent = @ \cup receipts(done)]
           stopped(done, tried, end) ==
             [p(done) EXCEPT !.sent = @ \cup receipts(tried), !.on = end, !.failures = @ + 1]
<1>3. PICK done \in SUBSET o.rec.receiptOutbox : q \in sentReceipts(o, done)
  BY <1>2 DEF sendStatusReceipts
<1>9. \/ q = p(done)
       \/ \E tried \in SUBSET o.rec.receiptOutbox, end \in {"run", "crash"} :
            q = stopped(done, tried, end)
  <2> DEFINE ends == {e \in {"run", "crash"} : \/ e = "run" /\ "throw" \in Faults
                                               \/ e = "crash" /\ "crash" \in Faults}
             tries == {t \in SUBSET left(done) : Cardinality(t) <= 1}
  <2>1. sentReceipts(o, done) =
          {x \in {p(done)} : left(done) = {}}
            \cup {stopped(done, tried, end) : tried \in tries, end \in ends}
    BY DEF sentReceipts
  <2> HIDE DEF stopped, p
  <2> QED
    BY <1>3, <2>1
<1>4. OutgoingKeeps(b, r(done))
  BY <1>1 DEF OutgoingKeeps, Outgoing
<1>5. \A S \in SUBSET o.rec.receiptOutbox :
        /\ receipts(S) \subseteq Message
        /\ \A m \in receipts(S) : m.type = "status_receipt" /\ m.revision \in b.receiptOutbox
  BY <1>1, RequesterMessages DEF OutgoingKeeps, Outgoing
<1> HIDE DEF r, receipts
<1>6. /\ p(done) \in Outcome(Outgoing)
      /\ p(done).rec = r(done) /\ p(done).disk \in {o.disk, r(done)}
      /\ p(done).sent = o.sent \cup receipts(done)
  BY <1>1, <1>4, <1>5 DEF Outcome, OutgoingKeeps
<1> HIDE DEF p
<1>7. p(done) \in RequesterOutcomes(b)
  BY <1>4, <1>5, <1>6 DEF RequesterOutcomes
<1>8. ASSUME NEW tried \in SUBSET o.rec.receiptOutbox, NEW end \in {"run", "crash"}
      PROVE  stopped(done, tried, end) \in RequesterOutcomes(b)
  <2> DEFINE s == stopped(done, tried, end)
  <2>1. /\ p(done).sent \cup receipts(tried) \in SUBSET Message
        /\ p(done).failures + 1 \in Nat
    BY <1>5, <1>6 DEF Outcome
  <2>2. /\ s \in Outcome(Outgoing) /\ s.rec = p(done).rec /\ s.disk = p(done).disk
        /\ s.sent = p(done).sent \cup receipts(tried)
    BY <1>6, <2>1 DEF Outcome
  <2> QED
    BY <1>5, <1>7, <2>2 DEF RequesterOutcomes
<1> QED
  BY <1>9, <1>7, <1>8

-----------------------------------------------------------------------------
(* The host's sends.                                                        *)

(* The messages the host sends are messages.                               *)
LEMMA HostMessages ==
  /\ \A r \in Receipt : RequestReceipt(r) \in Message /\ RequestReceipt(r).type = "receipt"
  /\ \A r \in Incoming : Status(r) \in Message /\ Status(r).type = "status"
  /\ Artifact \in Message /\ Artifact.type = "artifact"
  /\ ControlReceipt \in Message /\ ControlReceipt.type = "control_receipt"
<1>1. ASSUME NEW r \in Receipt
      PROVE  RequestReceipt(r) \in Message /\ RequestReceipt(r).type = "receipt"
  BY DEF Message, RequestReceipt, Receipt
<1>2. ASSUME NEW r \in Incoming
      PROVE  Status(r) \in Message /\ Status(r).type = "status"
  <2>1. /\ r.statusRevision \in Nat /\ r.safeErrorCode \in SafeErrorCode
        /\ networkTaskState(r.state) \in TaskState \ {"submitted"}
    BY DEF Incoming, networkTaskState, TaskState
  <2> QED
    BY <2>1 DEF Message, Status
<1>3. /\ Artifact \in Message /\ Artifact.type = "artifact"
      /\ ControlReceipt \in Message /\ ControlReceipt.type = "control_receipt"
  BY DEF Message, Artifact, ControlReceipt
<1> QED
  BY <1>1, <1>2, <1>3

(* Saving within an operation of the host.                                 *)
LEMMA HostSaves ==
  ASSUME NEW b, NEW o \in HostOutcomes(b), NEW r, IncomingKeeps(b, r),
         NEW d, IncomingKeeps(b, d), NEW on \in {"run", "return", "crash"}
  PROVE  /\ [o EXCEPT !.rec = r, !.disk = d] \in HostOutcomes(b)
         /\ [o EXCEPT !.rec = r] \in HostOutcomes(b)
         /\ [o EXCEPT !.on = on] \in HostOutcomes(b)
<1>1. o \in Outcome(Incoming) /\ IncomingKeeps(b, o.disk) /\ IncomingKeeps(b, o.rec)
        /\ r \in Incoming /\ d \in Incoming /\ \A m \in o.sent : m.type # "status_receipt"
  BY DEF HostOutcomes, IncomingKeeps
<1>2. [o EXCEPT !.rec = r, !.disk = d] \in HostOutcomes(b)
  <2> DEFINE p == [o EXCEPT !.rec = r, !.disk = d]
  <2>1. p \in Outcome(Incoming) /\ p.rec = r /\ p.disk = d /\ p.sent = o.sent
    BY <1>1 DEF Outcome
  <2> QED
    BY <1>1, <2>1 DEF HostOutcomes
<1>3. [o EXCEPT !.rec = r] \in HostOutcomes(b)
  <2> DEFINE p == [o EXCEPT !.rec = r]
  <2>1. p \in Outcome(Incoming) /\ p.rec = r /\ p.disk = o.disk /\ p.sent = o.sent
    BY <1>1 DEF Outcome
  <2> QED
    BY <1>1, <2>1 DEF HostOutcomes
<1>4. [o EXCEPT !.on = on] \in HostOutcomes(b)
  <2> DEFINE p == [o EXCEPT !.on = on]
  <2>1. p \in Outcome(Incoming) /\ p.rec = o.rec /\ p.disk = o.disk /\ p.sent = o.sent
    BY <1>1 DEF Outcome
  <2> QED
    BY <1>1, <2>1 DEF HostOutcomes
<1> QED
  BY <1>2, <1>3, <1>4

(* Sending a request receipt keeps the host's ends and acknowledgements.   *)
LEMMA SendReceiptKeeps ==
  ASSUME NEW b, NEW o \in HostOutcomes(b), NEW connected
  PROVE  sendReceipt(o, connected) \subseteq HostOutcomes(b)
<1>1. o.rec \in Incoming /\ IncomingKeeps(b, o.rec) /\ o.rec.receipt \in Receipt
  BY DEF HostOutcomes, Outcome, IncomingKeeps, Incoming
<1> DEFINE okay == [o.rec EXCEPT !.receiptPending = FALSE]
<1>2. IncomingKeeps(b, okay)
  BY <1>1 DEF IncomingKeeps, Incoming
<1>3. SendThenSave(o, RequestReceipt(o.rec.receipt), okay, o.rec, "run")
        \subseteq HostOutcomes(b)
  BY <1>1, <1>2, HostMessages, HostSend
<1>4. [o EXCEPT !.on = "return"] \in HostOutcomes(b)
  BY <1>1, HostSaves
<1> HIDE DEF okay
<1>5. sendReceipt(o, connected) \in
        {{o}, {[o EXCEPT !.on = "return"]},
         SendThenSave(o, RequestReceipt(o.rec.receipt), okay, o.rec, "run")}
  BY DEF sendReceipt, okay
<1> QED
  BY <1>3, <1>4, <1>5

(* So does sending a control receipt.                                      *)
LEMMA SendControlReceiptKeeps ==
  ASSUME NEW b, NEW o \in HostOutcomes(b), NEW connected
  PROVE  sendControlReceipt(o, connected) \subseteq HostOutcomes(b)
<1>1. o.rec \in Incoming /\ IncomingKeeps(b, o.rec)
  BY DEF HostOutcomes, Outcome
<1> DEFINE okay == [o.rec EXCEPT !.controlReceiptQueued = FALSE]
<1>2. IncomingKeeps(b, okay)
  BY <1>1 DEF IncomingKeeps, Incoming
<1>3. SendThenSave(o, ControlReceipt, okay, o.rec, "run") \subseteq HostOutcomes(b)
  BY <1>1, <1>2, HostMessages, HostSend
<1> HIDE DEF okay
<1>4. sendControlReceipt(o, connected) \in
        {{o}, SendThenSave(o, ControlReceipt, okay, o.rec, "run")}
  BY DEF sendControlReceipt, okay
<1> QED
  BY <1>3, <1>4

(* So does sending the result.                                             *)
LEMMA SendArtifactKeeps ==
  ASSUME NEW b, NEW o \in HostOutcomes(b), NEW connected, NEW elapsed
  PROVE  sendArtifact(o, connected, elapsed) \subseteq HostOutcomes(b)
<1>1. o.rec \in Incoming /\ IncomingKeeps(b, o.rec)
  BY DEF HostOutcomes, Outcome
<1> DEFINE okay == [o.rec EXCEPT !.artifactAttempted = TRUE]
<1>2. IncomingKeeps(b, okay)
  BY <1>1 DEF IncomingKeeps, Incoming
<1>3. SendThenSave(o, Artifact, okay, o.rec, "return") \subseteq HostOutcomes(b)
  BY <1>1, <1>2, HostMessages, HostSend
<1> HIDE DEF okay
<1>4. sendArtifact(o, connected, elapsed) \in
        {{o}, SendThenSave(o, Artifact, okay, o.rec, "return")}
  BY DEF sendArtifact, okay
<1> QED
  BY <1>3, <1>4

(* So does sending the status.                                             *)
LEMMA SendStatusKeeps ==
  ASSUME NEW b, NEW o \in HostOutcomes(b), NEW connected, NEW elapsed
  PROVE  sendStatus(o, connected, elapsed) \subseteq HostOutcomes(b)
<1>1. o.rec \in Incoming /\ IncomingKeeps(b, o.rec) /\ o.rec.statusRevision \in Nat
  BY DEF HostOutcomes, Outcome, Incoming
<1> DEFINE attempted == [o.rec EXCEPT !.attemptRevision = o.rec.statusRevision]
           failed(r) == [r EXCEPT !.failureRevision = o.rec.statusRevision]
<1>2. IncomingKeeps(b, attempted)
  BY <1>1 DEF IncomingKeeps, Incoming
<1>3. ASSUME NEW r, IncomingKeeps(b, r)
      PROVE  IncomingKeeps(b, failed(r))
  BY <1>1, <1>3 DEF IncomingKeeps, Incoming
<1>4. IncomingKeeps(b, failed(o.rec)) /\ IncomingKeeps(b, failed(attempted))
  BY <1>1, <1>2, <1>3
<1> HIDE DEF attempted, failed
<1>5. SendThenSave(o, Status(o.rec), attempted, failed(attempted), "return")
        \subseteq HostOutcomes(b)
  BY <1>1, <1>2, <1>4, HostMessages, HostSend
<1>6. [o EXCEPT !.rec = failed(o.rec), !.disk = failed(o.rec)] \in HostOutcomes(b)
  BY <1>4, HostSaves
<1>7. sendStatus(o, connected, elapsed) \in
        {{o}, {[o EXCEPT !.rec = failed(o.rec), !.disk = failed(o.rec)]},
         SendThenSave(o, Status(o.rec), attempted, failed(attempted), "return")}
  BY DEF sendStatus, attempted, failed
<1> QED
  BY <1>5, <1>6, <1>7

(* So does sending whatever is pending.                                    *)
LEMMA SendPendingKeeps ==
  ASSUME NEW b, NEW o \in HostOutcomes(b), NEW connected, NEW elapsed
  PROVE  trySendPendingForRecord(o, connected, elapsed) \subseteq HostOutcomes(b)
<1>1. sendArtifact(o, connected, elapsed) \subseteq HostOutcomes(b)
  BY SendArtifactKeeps
<1>2. \A p \in HostOutcomes(b) : sendStatus(p, connected, elapsed) \subseteq HostOutcomes(b)
  BY SendStatusKeeps
<1> QED
  BY <1>1, <1>2 DEF trySendPendingForRecord, Then

-----------------------------------------------------------------------------
(* Steps.                                                                   *)

(* What every step of the specification does.                              *)
StepOK == StatusInv' /\ RevisionStep /\ HostEndStep

(* A revision the requester has seen stays seen.                           *)
LEMMA SeenKept ==
  ASSUME outgoing \in Outgoing, outgoing' \in Outgoing,
         outgoing'.stored = outgoing.stored,
         outgoing'.statusRevision >= outgoing.statusRevision,
         isTerminalTaskState(outgoing.state) => isTerminalTaskState(outgoing'.state),
         NEW n \in Nat, Seen(n)
  PROVE  Seen(n)'
BY DEF Seen, Outgoing

(* What the types say of revisions and receipts.                           *)
LEMMA TypeFacts ==
  ASSUME TypeOK
  PROVE  /\ outgoing \in Outgoing /\ outgoing.receiptOutbox \subseteq Nat
         /\ outgoing.statusRevision \in Nat
         /\ incoming \in Incoming /\ incoming.acknowledgedRevision \in Nat
         /\ incoming.statusRevision \in Nat
         /\ \A m \in net : m.type = "status_receipt" => m.revision \in Nat
<1>1. \A m \in Message : m.type = "status_receipt" => m.revision \in Nat
  BY DEF Message
<1> QED
  BY <1>1 DEF TypeOK, Outgoing, Incoming

(* A record of the requester keeps itself.                                 *)
LEMMA OutgoingKeepsItself ==
  ASSUME NEW r \in Outgoing
  PROVE  OutgoingKeeps(r, r)
BY DEF OutgoingKeeps

(* A record of the host keeps itself.                                      *)
LEMMA IncomingKeepsItself ==
  ASSUME NEW r \in Incoming
  PROVE  IncomingKeeps(r, r)
BY DEF IncomingKeeps, Incoming

(* The initial records, and the requester's new record.                    *)
LEMMA NewRecords ==
  /\ NoOutgoing \in Outgoing /\ NoIncoming \in Incoming /\ newOutgoing \in Outgoing
  /\ ~NoOutgoing.stored /\ ~NoIncoming.stored
  /\ NoOutgoing.receiptOutbox = {} /\ newOutgoing.receiptOutbox = {}
BY DEF NoOutgoing, NoIncoming, newOutgoing, Outgoing, Incoming, NoReceipt, Receipt,
       ReceiptStatus, TaskState, SafeErrorCode

(* Initially nothing is stored and nothing is under way.                   *)
LEMMA InitStatusInv ==
  Init => StatusInv
<1> SUFFICES ASSUME Init PROVE StatusInv
  OBVIOUS
<1>1. TypeOK
  BY NewRecords DEF Init, TypeOK, Handle, Kernel, Progress, Result, Node
<1>2. ~outgoing.stored /\ ~incoming.stored /\ outgoing.receiptOutbox = {} /\ net = {}
  BY NewRecords DEF Init
<1> QED
  BY <1>1, <1>2 DEF StatusInv, QueuedReceiptsWereSeen, ReceiptsInFlightWereSeen,
                    AcknowledgedStatusWasSeen, NothingBeforeFirstRequest

(* The end of an operation of the requester on its stored record.          *)
LEMMA RequesterEndsOK ==
  ASSUME StatusInv, NEW S \in SUBSET RequesterOutcomes(outgoing), RequesterEnds(S)
  PROVE  StepOK
<1>1. PICK o \in S : /\ outgoing' = Kept(o)
                     /\ net' = net \cup o.sent
                     /\ copies' = IF Request(copies + 1) \in o.sent THEN copies + 1
                                  ELSE copies
                     /\ Survives(Requester, o)
                     /\ UNCHANGED due
                     /\ hostUnchanged
  BY DEF RequesterEnds
<1>2. /\ o \in Outcome(Outgoing) /\ OutgoingKeeps(outgoing, o.rec)
      /\ OutgoingKeeps(outgoing, o.disk)
      /\ \A m \in o.sent : \/ m.type = "request" /\ m = Request(copies + 1)
                           \/ m.type = "status_receipt" /\ m.revision \in outgoing.receiptOutbox
                           \/ m.type = "cancel"
  BY DEF RequesterOutcomes
<1>3. OutgoingKeeps(outgoing, outgoing')
  BY <1>1, <1>2, KeptOutcome
<1>4. TypeOK'
  <2>1. o.sent \subseteq Message /\ o.failures \in Nat
    BY <1>2 DEF Outcome
  <2> QED
    BY <1>1, <1>3, <2>1 DEF StatusInv, TypeOK, OutgoingKeeps, Survives, hostUnchanged, Node
<1>5. /\ outgoing \in Outgoing /\ outgoing' \in Outgoing
      /\ outgoing'.stored = outgoing.stored
      /\ outgoing'.statusRevision = outgoing.statusRevision
      /\ outgoing'.statusRevision \in Nat
      /\ isTerminalTaskState(outgoing.state) => isTerminalTaskState(outgoing'.state)
      /\ outgoing'.receiptOutbox \subseteq outgoing.receiptOutbox
  BY <1>3, TypeFacts DEF StatusInv, OutgoingKeeps
<1>6. \A n \in Nat : Seen(n) => Seen(n)'
  BY <1>5, SeenKept
<1>7. QueuedReceiptsWereSeen'
  BY <1>5, <1>6, TypeFacts DEF StatusInv, QueuedReceiptsWereSeen
<1>8. ReceiptsInFlightWereSeen'
  BY <1>1, <1>2, <1>6, TypeFacts DEF StatusInv, QueuedReceiptsWereSeen, ReceiptsInFlightWereSeen
<1>9. AcknowledgedStatusWasSeen'
  BY <1>1, <1>5, TypeFacts DEF StatusInv, AcknowledgedStatusWasSeen, hostUnchanged
<1>10. NothingBeforeFirstRequest'
  BY <1>1, <1>2, <1>5 DEF StatusInv, TypeOK, NothingBeforeFirstRequest, hostUnchanged
<1>11. RevisionStep /\ HostEndStep
  BY <1>1, <1>5, TypeFacts DEF StatusInv, RevisionStep, HostEndStep, hostUnchanged
<1> QED
  BY <1>4, <1>7, <1>8, <1>9, <1>10, <1>11 DEF StepOK, StatusInv

(* send: the first record of a Task that nobody has heard of yet.          *)
LEMMA SendOK ==
  ASSUME StatusInv, NEW connected \in BOOLEAN, Send(connected)
  PROVE  StepOK
<1> DEFINE S == trySendStoredRecord(Start(newOutgoing, newOutgoing), connected)
<1>1. /\ copies = 0 /\ ~outgoing.stored /\ ~incoming.stored /\ RequesterEnds(S)
      /\ \A m \in net : m.type = "cancel"
  BY DEF Send, StatusInv, NothingBeforeFirstRequest
<1>2. S \subseteq RequesterOutcomes(newOutgoing)
  <2>1. OutgoingKeeps(newOutgoing, newOutgoing)
    BY NewRecords, OutgoingKeepsItself
  <2>2. Start(newOutgoing, newOutgoing) \in RequesterOutcomes(newOutgoing)
    BY <2>1, RequesterStarts
  <2> QED
    BY <1>1, <2>2, SendStoredKeeps
<1> HIDE DEF S
<1>3. PICK o \in S : /\ outgoing' = Kept(o)
                     /\ net' = net \cup o.sent
                     /\ copies' = IF Request(copies + 1) \in o.sent THEN copies + 1
                                  ELSE copies
                     /\ Survives(Requester, o)
                     /\ UNCHANGED due
                     /\ hostUnchanged
  BY <1>1 DEF RequesterEnds
<1>4. /\ o \in Outcome(Outgoing) /\ OutgoingKeeps(newOutgoing, o.rec)
      /\ OutgoingKeeps(newOutgoing, o.disk)
      /\ \A m \in o.sent : \/ m.type = "request" /\ m = Request(copies + 1)
                           \/ m.type = "cancel"
  BY <1>2, NewRecords DEF RequesterOutcomes
<1>5. OutgoingKeeps(newOutgoing, outgoing')
  BY <1>3, <1>4, KeptOutcome
<1>6. TypeOK'
  <2>1. o.sent \subseteq Message /\ o.failures \in Nat
    BY <1>4 DEF Outcome
  <2> QED
    BY <1>3, <1>5, <2>1 DEF StatusInv, TypeOK, OutgoingKeeps, Survives, hostUnchanged, Node
<1>7. outgoing'.receiptOutbox = {}
  BY <1>5, NewRecords DEF OutgoingKeeps
<1>8. \A m \in net' : m.type # "status_receipt"
  BY <1>1, <1>3, <1>4
<1>9. NothingBeforeFirstRequest'
  BY <1>1, <1>3, <1>4, <1>7 DEF NothingBeforeFirstRequest, hostUnchanged
<1>10. incoming' = incoming
  BY <1>3 DEF hostUnchanged
<1> QED
  BY <1>1, <1>6, <1>7, <1>8, <1>9, <1>10
  DEF StepOK, StatusInv, QueuedReceiptsWereSeen, ReceiptsInFlightWereSeen,
      AcknowledgedStatusWasSeen, RevisionStep, HostEndStep

(* Operations of the requester that send nothing, or no status receipt.    *)
LEMMA RequesterStepOK ==
  ASSUME StatusInv, TypeOK', OutgoingKeeps(outgoing, outgoing'), hostUnchanged,
         copies' = copies,
         \A m \in net' : m \in net \/ (m.type # "status_receipt" /\ copies # 0)
  PROVE  StepOK
<1>1. /\ outgoing \in Outgoing /\ outgoing' \in Outgoing
      /\ outgoing'.stored = outgoing.stored
      /\ outgoing'.statusRevision = outgoing.statusRevision
      /\ outgoing'.statusRevision \in Nat
      /\ isTerminalTaskState(outgoing.state) => isTerminalTaskState(outgoing'.state)
      /\ outgoing'.receiptOutbox \subseteq outgoing.receiptOutbox
      /\ incoming' = incoming
  BY TypeFacts DEF StatusInv, OutgoingKeeps, hostUnchanged
<1>2. \A n \in Nat : Seen(n) => Seen(n)'
  BY <1>1, SeenKept
<1>3. QueuedReceiptsWereSeen'
  BY <1>1, <1>2, TypeFacts DEF StatusInv, QueuedReceiptsWereSeen
<1>4. ReceiptsInFlightWereSeen'
  BY <1>2, TypeFacts DEF StatusInv, ReceiptsInFlightWereSeen
<1>5. AcknowledgedStatusWasSeen'
  BY <1>1, TypeFacts DEF StatusInv, AcknowledgedStatusWasSeen
<1>6. NothingBeforeFirstRequest'
  BY <1>1 DEF StatusInv, NothingBeforeFirstRequest
<1>7. RevisionStep /\ HostEndStep
  BY <1>1, TypeFacts DEF StatusInv, RevisionStep, HostEndStep
<1> QED
  BY <1>3, <1>4, <1>5, <1>6, <1>7 DEF StepOK, StatusInv

(* Retry, cancel and the flush of the requester.                           *)
LEMMA RequesterOperationsOK ==
  ASSUME StatusInv, NEW connected \in BOOLEAN, NEW elapsed \in BOOLEAN,
         \/ Retry(connected)
         \/ RequestCancel(connected, elapsed)
         \/ RequesterFlush(connected, elapsed)
  PROVE  StepOK
<1> DEFINE r == expireDueOutgoing(outgoing, due[Requester])
<1>1. outgoing \in Outgoing /\ copies \in Nat
  BY DEF StatusInv, TypeOK
<1>2. OutgoingKeeps(outgoing, outgoing) /\ OutgoingKeeps(outgoing, r)
  BY <1>1, OutgoingKeepsItself, ExpireDueOutgoingKeeps
<1>3. r \in Outgoing
  BY <1>2 DEF OutgoingKeeps
<1> HIDE DEF r
<1>4. Start(r, outgoing) \in RequesterOutcomes(outgoing)
  BY <1>2, RequesterStarts
<1>5. CASE Retry(connected)
  <2>1. trySendStoredRecord(Start(r, outgoing), connected) \subseteq RequesterOutcomes(outgoing)
    BY <1>1, <1>4, SendStoredKeeps
  <2>2. RequesterEnds(trySendStoredRecord(Start(r, outgoing), connected))
    BY <1>5 DEF Retry, r
  <2> QED
    BY <2>1, <2>2, RequesterEndsOK
<1>6. CASE RequestCancel(connected, elapsed)
  <2> DEFINE c == requestCancel(outgoing)
  <2>1. OutgoingKeeps(outgoing, c) /\ c \in Outgoing
    BY <1>1, RequestCancelKeeps DEF OutgoingKeeps
  <2> HIDE DEF c
  <2>2. Start(c, c) \in RequesterOutcomes(outgoing)
    BY <2>1, RequesterStarts
  <2>3. sendCancel(Start(c, c), connected, elapsed) \subseteq RequesterOutcomes(outgoing)
    BY <2>2, SendCancelKeeps
  <2>4. RequesterEnds(sendCancel(Start(c, c), connected, elapsed))
    BY <1>6 DEF RequestCancel, c
  <2> QED
    BY <2>3, <2>4, RequesterEndsOK
<1>7. CASE RequesterFlush(connected, elapsed)
  <2> DEFINE S1 == trySendStoredRecord(Start(r, outgoing), connected)
             S2 == Then(S1, LAMBDA p : sendStatusReceipts(p, connected))
             S3 == Then(S2, LAMBDA p : sendCancel(p, connected, elapsed))
  <2>1. S1 \subseteq RequesterOutcomes(outgoing)
    BY <1>1, <1>4, SendStoredKeeps
  <2>2. S2 \subseteq RequesterOutcomes(outgoing)
    <3> HIDE DEF S1
    <3>1. \A p \in RequesterOutcomes(outgoing) :
            sendStatusReceipts(p, connected) \subseteq RequesterOutcomes(outgoing)
      BY SendStatusReceiptsKeeps
    <3> QED
      BY <2>1, <3>1 DEF Then
  <2>3. S3 \subseteq RequesterOutcomes(outgoing)
    <3> HIDE DEF S2
    <3>1. \A p \in RequesterOutcomes(outgoing) :
            sendCancel(p, connected, elapsed) \subseteq RequesterOutcomes(outgoing)
      BY SendCancelKeeps
    <3> QED
      BY <2>2, <3>1 DEF Then
  <2>4. RequesterEnds(S3)
    BY <1>7 DEF RequesterFlush, r
  <2> HIDE DEF S3
  <2> QED
    BY <2>3, <2>4, RequesterEndsOK
<1> QED
  BY <1>5, <1>6, <1>7

(* Taking a message adds only what is sent.                                *)
LEMMA ConsumeNet ==
  ASSUME NEW m, NEW sent, NEW crashed, Consume(m, sent, crashed)
  PROVE  net' \subseteq net \cup sent
BY DEF Consume

(* Receipts and results reaching the requester.                            *)
LEMMA RequesterReceivesOK ==
  ASSUME StatusInv, NEW m \in net,
         ReceiveReceipt(m) \/ ReceiveArtifactFile(m) \/ ReceiveControlReceipt(m)
  PROVE  StepOK
<1>1. TypeOK /\ outgoing \in Outgoing /\ m \in Message
  BY DEF StatusInv, TypeOK
<1>2. OutgoingKeeps(outgoing, outgoing)
  BY <1>1, OutgoingKeepsItself
<1>3. CASE ReceiveReceipt(m)
  <2> DEFINE receipt == [status |-> m.status, receivedAt |-> m.receivedAt]
  <2>1. receipt \in Receipt
    BY <1>1, <1>3 DEF ReceiveReceipt, Message, Receipt
  <2> HIDE DEF receipt
  <2>2. OutgoingKeeps(outgoing, outgoing')
    BY <1>1, <1>2, <1>3, <2>1, ApplyReceiptKeeps DEF ReceiveReceipt, receipt
  <2>3. net' \subseteq net
    BY <1>3 DEF ReceiveReceipt, Consume
  <2>4. TypeOK'
    BY <1>1, <1>3, <2>2, <2>3 DEF ReceiveReceipt, TypeOK, OutgoingKeeps, hostUnchanged
  <2> QED
    BY <1>3, <2>2, <2>3, <2>4, RequesterStepOK DEF ReceiveReceipt
<1>4. CASE ReceiveControlReceipt(m)
  <2>1. OutgoingKeeps(outgoing, outgoing')
    BY <1>1, <1>2, <1>4, AcknowledgeControlKeeps DEF ReceiveControlReceipt
  <2>2. net' \subseteq net
    BY <1>4 DEF ReceiveControlReceipt, Consume
  <2>3. TypeOK'
    BY <1>1, <1>4, <2>1, <2>2 DEF ReceiveControlReceipt, TypeOK, OutgoingKeeps, hostUnchanged
  <2> QED
    BY <1>4, <2>1, <2>2, <2>3, RequesterStepOK DEF ReceiveControlReceipt
<1>5. CASE ReceiveArtifactFile(m)
  <2> DEFINE r == acceptArtifact(outgoing)
             S == SendThenSave(Start(r, r), ArtifactReceipt, r, r, "run")
  <2>1. OutgoingKeeps(outgoing, r) /\ r \in Outgoing
    BY <1>1, AcceptArtifactKeeps DEF OutgoingKeeps
  <2>2. Start(r, r) \in Outcome(Outgoing) /\ Start(r, r).rec = r /\ Start(r, r).disk = r
          /\ Start(r, r).sent = {}
    BY <2>1 DEF Start, Outcome
  <2>3. PICK o \in S : /\ outgoing' = Kept(o)
                       /\ Consume(m, o.sent, o.on = "crash")
                       /\ Survives(Requester, o)
    BY <1>5 DEF ReceiveArtifactFile
  <2> HIDE DEF r
  <2>4. o \in Outcome(Outgoing) /\ o.rec = r /\ o.disk = r /\ o.sent \subseteq {ArtifactReceipt}
    BY <2>1, <2>2, <2>3, RequesterMessages, SendThenSaveOutcomes
  <2>5. OutgoingKeeps(outgoing, outgoing')
    BY <2>1, <2>3, <2>4, KeptOutcome
  <2>6. net' \subseteq net \cup {ArtifactReceipt}
    BY <2>3, <2>4, ConsumeNet
  <2>7. o.failures \in Nat
    BY <2>4 DEF Outcome
  <2>8. TypeOK'
    BY <1>1, <1>5, <2>3, <2>5, <2>6, <2>7, RequesterMessages
    DEF ReceiveArtifactFile, TypeOK, OutgoingKeeps, hostUnchanged, Survives, Node
  <2>9. copies # 0
    BY <1>5 DEF ReceiveArtifactFile, StatusInv, NothingBeforeFirstRequest
  <2> QED
    BY <1>5, <2>5, <2>6, <2>8, <2>9, RequesterMessages, RequesterStepOK
    DEF ReceiveArtifactFile
<1> QED
  BY <1>3, <1>4, <1>5

(* receiveStatus: the one step that makes a revision seen.                 *)
LEMMA ReceiveStatusOK ==
  ASSUME StatusInv, NEW m \in net, ReceiveStatus(m)
  PROVE  StepOK
<1> DEFINE r == applyStatus(outgoing, m)
           sent == [r EXCEPT !.receiptOutbox = @ \ {m.revision}]
           receipt == StatusReceipt(m.revision)
<1>1. /\ TypeOK /\ outgoing \in Outgoing /\ m \in Message /\ m.type = "status"
      /\ m.revision \in Nat /\ incoming' = incoming /\ copies' = copies
  BY DEF StatusInv, TypeOK, ReceiveStatus, Message, hostUnchanged
<1>2. /\ r \in Outgoing
      /\ r.stored = outgoing.stored
      /\ r.statusRevision >= outgoing.statusRevision
      /\ isTerminalTaskState(outgoing.state) => isTerminalTaskState(r.state)
      /\ r.receiptOutbox = outgoing.receiptOutbox \cup {m.revision}
      /\ r.statusRevision >= m.revision \/ isTerminalTaskState(r.state)
  BY <1>1, ApplyStatusAdvances
<1>3. PICK o \in SendThenSave(Start(r, r), receipt, sent, r, "run") :
             /\ outgoing' = Kept(o)
             /\ Consume(m, o.sent, o.on = "crash")
             /\ Survives(Requester, o)
  BY DEF ReceiveStatus
<1> HIDE DEF r
<1>4. /\ sent \in Outgoing /\ sent.stored = r.stored
      /\ sent.statusRevision = r.statusRevision /\ sent.state = r.state
      /\ sent.receiptOutbox \subseteq r.receiptOutbox
  BY <1>2 DEF Outgoing
<1>5. Start(r, r) \in Outcome(Outgoing) /\ Start(r, r).rec = r /\ Start(r, r).disk = r
        /\ Start(r, r).sent = {}
  BY <1>2 DEF Start, Outcome
<1>6. receipt \in Message /\ receipt.type = "status_receipt" /\ receipt.revision = m.revision
  BY <1>1, RequesterMessages
<1> HIDE DEF sent, receipt
<1>7. /\ o \in Outcome(Outgoing) /\ o.rec \in {r, sent} /\ o.disk \in {r, sent}
      /\ o.sent \subseteq {receipt}
  BY <1>2, <1>3, <1>4, <1>5, <1>6, SendThenSaveOutcomes
<1>8. outgoing' \in {r, sent}
  BY <1>3, <1>7, KeptOutcome
<1>9. /\ outgoing' \in Outgoing
      /\ outgoing'.stored = outgoing.stored
      /\ outgoing'.statusRevision = r.statusRevision /\ outgoing'.state = r.state
      /\ outgoing'.receiptOutbox \subseteq outgoing.receiptOutbox \cup {m.revision}
  BY <1>2, <1>4, <1>8
<1>10. /\ outgoing'.statusRevision >= outgoing.statusRevision
       /\ isTerminalTaskState(outgoing.state) => isTerminalTaskState(outgoing'.state)
       /\ outgoing'.statusRevision >= m.revision \/ isTerminalTaskState(outgoing'.state)
       /\ outgoing'.statusRevision \in Nat /\ outgoing.statusRevision \in Nat
  BY <1>1, <1>2, <1>9 DEF Outgoing
<1>11. \A n \in Nat : Seen(n) => Seen(n)'
  BY <1>1, <1>9, <1>10, SeenKept
<1>12. Seen(m.revision)'
  BY <1>1, <1>10 DEF Seen
<1>13. net' \subseteq net \cup {receipt}
  BY <1>3, <1>7, ConsumeNet
<1>14. TypeOK'
  <2>1. o.failures \in Nat
    BY <1>7 DEF Outcome
  <2> QED
    BY <1>1, <1>3, <1>6, <1>9, <1>13, <2>1
    DEF ReceiveStatus, TypeOK, hostUnchanged, Survives, Node
<1>15. QueuedReceiptsWereSeen'
  BY <1>1, <1>9, <1>11, <1>12, TypeFacts DEF StatusInv, QueuedReceiptsWereSeen
<1>16. ReceiptsInFlightWereSeen'
  BY <1>1, <1>6, <1>11, <1>12, <1>13, TypeFacts DEF StatusInv, ReceiptsInFlightWereSeen
<1>17. AcknowledgedStatusWasSeen'
  <2>1. incoming.stored => Seen(incoming.acknowledgedRevision)
    BY DEF StatusInv, AcknowledgedStatusWasSeen, Seen
  <2>2. incoming.stored => Seen(incoming.acknowledgedRevision)'
    BY <1>1, <1>11, <2>1, TypeFacts
  <2> QED
    BY <1>1, <2>2 DEF AcknowledgedStatusWasSeen, Seen
<1>18. NothingBeforeFirstRequest'
  BY <1>1 DEF StatusInv, NothingBeforeFirstRequest
<1>19. RevisionStep /\ HostEndStep
  BY <1>1, <1>10, TypeFacts DEF RevisionStep, HostEndStep
<1> QED
  BY <1>14, <1>15, <1>16, <1>17, <1>18, <1>19 DEF StepOK, StatusInv

-----------------------------------------------------------------------------
(* The host's steps.                                                        *)

(* The execution registry keeps handles.                                   *)
LEMMA HandleTypes ==
  ASSUME TypeOK
  PROVE  /\ reconcileHandle(handle, kernel) \in Handle
         /\ prepareHandle(handle) \in Handle
         /\ cancelExecution(handle) \in Handle
         /\ handle.epoch \in Nat
BY DEF TypeOK, Handle, Progress, reconcileHandle, prepareHandle, cancelExecution

(* A step of the host that keeps its record and sends no status receipt.   *)
LEMMA HostStepOK ==
  ASSUME StatusInv, TypeOK', requesterUnchanged, IncomingKeeps(incoming, incoming'),
         \A m \in net' : m \in net \/ (m.type # "status_receipt" /\ copies # 0)
  PROVE  StepOK
<1>1. /\ outgoing' = outgoing /\ copies' = copies /\ incoming \in Incoming
      /\ incoming'.stored = incoming.stored
      /\ incoming'.statusRevision >= incoming.statusRevision
      /\ incoming'.acknowledgedRevision = incoming.acknowledgedRevision
      /\ incoming'.acknowledgedRevision \in Nat
      /\ isTerminalTaskState(incoming.state) => incoming'.state = incoming.state
  BY TypeFacts DEF StatusInv, IncomingKeeps, requesterUnchanged
<1>2. \A n : Seen(n)' <=> Seen(n)
  BY <1>1 DEF Seen
<1>3. QueuedReceiptsWereSeen'
  BY <1>1, <1>2 DEF StatusInv, QueuedReceiptsWereSeen
<1>4. ReceiptsInFlightWereSeen'
  BY <1>2 DEF StatusInv, ReceiptsInFlightWereSeen
<1>5. AcknowledgedStatusWasSeen'
  BY <1>1 DEF StatusInv, AcknowledgedStatusWasSeen
<1>6. NothingBeforeFirstRequest'
  BY <1>1 DEF StatusInv, NothingBeforeFirstRequest
<1>7. RevisionStep /\ HostEndStep
  BY <1>1, TypeFacts DEF StatusInv, RevisionStep, HostEndStep
<1> QED
  BY <1>3, <1>4, <1>5, <1>6, <1>7 DEF StepOK, StatusInv

(* The host's memory keeps its types, restart or not.                      *)
LEMMA HostMemoryTypes ==
  ASSUME NEW o, NEW k \in Kernel, NEW f \in SUBSET Finish, HostMemory(o, k, f)
  PROVE  kernel' \in Kernel /\ finishes' \in SUBSET Finish
BY DEF HostMemory, Kernel, Result

(* An operation of the host with outcomes in S.                            *)
LEMMA HostEndsOK ==
  ASSUME StatusInv, NEW S \in SUBSET HostOutcomes(incoming), NEW h \in Handle,
         NEW k \in Kernel, NEW f \in SUBSET Finish, incoming.stored, HostEnds(S, h, k, f)
  PROVE  StepOK
<1>1. PICK o \in S : /\ incoming' = Kept(o)
                     /\ net' = net \cup o.sent
                     /\ produced' = (produced \/ Kept(o).artifactEpoch > 0)
                     /\ handle' = h
                     /\ HostMemory(o, k, f)
                     /\ Survives(Host, o)
                     /\ UNCHANGED due
                     /\ requesterUnchanged
  BY DEF HostEnds
<1>2. /\ o \in Outcome(Incoming) /\ IncomingKeeps(incoming, o.rec)
      /\ IncomingKeeps(incoming, o.disk)
      /\ \A m \in o.sent : m.type # "status_receipt"
  BY DEF HostOutcomes
<1>3. IncomingKeeps(incoming, incoming')
  BY <1>1, <1>2, KeptOutcome
<1>4. TypeOK'
  <2>1. o.sent \subseteq Message /\ o.failures \in Nat
    BY <1>2 DEF Outcome
  <2>2. kernel' \in Kernel /\ finishes' \in SUBSET Finish
    BY <1>1, HostMemoryTypes
  <2>3. produced' \in BOOLEAN
    BY <1>1
  <2> QED
    BY <1>1, <1>3, <2>1, <2>2, <2>3
    DEF StatusInv, TypeOK, IncomingKeeps, Survives, requesterUnchanged, Node
<1>5. copies # 0
  BY DEF StatusInv, NothingBeforeFirstRequest
<1> QED
  BY <1>1, <1>2, <1>3, <1>4, <1>5, HostStepOK

(* Handing an execution to the kernel keeps the types.                     *)
LEMMA ExecuteTypes ==
  ASSUME TypeOK, NEW epoch \in Nat, NEW e \in executeOutcomes(epoch)
  PROVE  e.kernel \in Kernel /\ e.finishes \in SUBSET Finish
<1>1. \/ e = [kernel |-> kernel, finishes |-> finishes \cup {[epoch |-> epoch, result |-> "none"]}]
      \/ e = [kernel |-> [task |-> "working", active |-> TRUE], finishes |-> finishes]
  BY DEF executeOutcomes
<1>2. [epoch |-> epoch, result |-> "none"] \in Finish
  BY DEF Finish, Result
<1>3. [task |-> "working", active |-> TRUE] \in Kernel
  BY DEF Kernel
<1>4. kernel \in Kernel /\ finishes \in SUBSET Finish
  BY DEF TypeOK
<1> DEFINE refused == [epoch |-> epoch, result |-> "none"]
           started == [task |-> "working", active |-> TRUE]
<1> HIDE DEF refused, started
<1>5. CASE e = [kernel |-> kernel, finishes |-> finishes \cup {refused}]
  BY <1>2, <1>4, <1>5 DEF refused
<1>6. CASE e = [kernel |-> started, finishes |-> finishes]
  BY <1>3, <1>4, <1>6 DEF started
<1> QED
  BY <1>1, <1>5, <1>6 DEF refused, started

(* The send at the end of an operation whose record is already saved.      *)
LEMMA SavedThenSent ==
  ASSUME NEW b, NEW r, IncomingKeeps(b, r), NEW connected, NEW elapsed
  PROVE  trySendPendingForRecord(Start(r, r), connected, elapsed) \subseteq HostOutcomes(b)
<1>1. Start(r, r) \in HostOutcomes(b)
  BY HostStarts
<1> QED
  BY <1>1, SendPendingKeeps

(* Starting an execution, first or resumed.                                *)
LEMMA StartExecutionOK ==
  ASSUME StatusInv, incoming.stored, NEW r, IncomingKeeps(incoming, r),
         NEW connected \in BOOLEAN, StartExecution(r, connected)
  PROVE  StepOK
<1>1. /\ TypeOK /\ handle.epoch + 1 \in Nat /\ prepareHandle(handle) \in Handle
      /\ kernel \in Kernel /\ finishes \in SUBSET Finish /\ incoming \in Incoming
  BY HandleTypes DEF StatusInv, TypeOK
<1>2. ASSUME NEW e \in executeOutcomes(handle.epoch + 1),
             HostEnds(trySendPendingForRecord(Start(r, r), connected, FALSE),
                      prepareHandle(handle), e.kernel, e.finishes)
      PROVE  StepOK
  <2>1. e.kernel \in Kernel /\ e.finishes \in SUBSET Finish
    BY <1>1, ExecuteTypes
  <2>2. trySendPendingForRecord(Start(r, r), connected, FALSE) \subseteq HostOutcomes(incoming)
    BY SavedThenSent
  <2> QED
    BY <1>1, <1>2, <2>1, <2>2, HostEndsOK
<1> DEFINE died == [Start(r, incoming) EXCEPT !.on = "crash", !.failures = 1]
<1>3. ASSUME HostEnds({died}, prepareHandle(handle), kernel, finishes)
      PROVE  StepOK
  <2>1. IncomingKeeps(incoming, incoming) /\ r \in Incoming
    BY <1>1, IncomingKeepsItself DEF IncomingKeeps
  <2>2. /\ died \in Outcome(Incoming) /\ died.rec = r /\ died.disk = incoming
        /\ died.sent = {}
    BY <1>1, <2>1 DEF Start, Outcome
  <2>3. died \in HostOutcomes(incoming)
    <3> HIDE DEF died
    <3> QED
      BY <2>1, <2>2 DEF HostOutcomes
  <2> HIDE DEF died
  <2> QED
    BY <1>1, <1>3, <2>3, HostEndsOK
<1> HIDE DEF died
<1>4. \/ \E e \in executeOutcomes(handle.epoch + 1) :
           HostEnds(trySendPendingForRecord(Start(r, r), connected, FALSE),
                    prepareHandle(handle), e.kernel, e.finishes)
      \/ HostEnds({died}, prepareHandle(handle), kernel, finishes)
  BY DEF StartExecution, died
<1> QED
  BY <1>2, <1>3, <1>4

(* The host user's operations and the end of a run.                        *)
LEMMA HostOperationsOK ==
  ASSUME StatusInv, NEW connected \in BOOLEAN,
         \/ Approve(connected) \/ Resume(connected) \/ Reject(connected)
         \/ HostCancel(connected)
  PROVE  StepOK
<1>1. /\ TypeOK /\ incoming \in Incoming /\ handle \in Handle /\ kernel \in Kernel
      /\ finishes \in SUBSET Finish /\ cancelExecution(handle) \in Handle
  BY HandleTypes DEF StatusInv, TypeOK
<1>2. CASE Approve(connected)
  <2>1. incoming.stored /\ ~isTerminalTaskState(incoming.state)
    BY <1>2 DEF Approve, requireMutableIncomingTask, isTerminalTaskState, Terminal
  <2>2. IncomingKeeps(incoming, startIncoming(incoming))
    BY <1>1, <2>1, HostStepKeeps
  <2> QED
    BY <1>2, <2>1, <2>2, StartExecutionOK DEF Approve
<1>3. CASE Resume(connected)
  <2>1. incoming.stored /\ ~isTerminalTaskState(incoming.state)
    BY <1>3 DEF Resume, isTerminalTaskState, Terminal
  <2>2. IncomingKeeps(incoming, resumeIncoming(incoming))
    BY <1>1, <2>1, HostStepKeeps
  <2> QED
    BY <1>3, <2>1, <2>2, StartExecutionOK DEF Resume
<1>4. CASE Reject(connected)
  <2> DEFINE r == rejectIncoming(incoming)
  <2>1. incoming.stored /\ ~isTerminalTaskState(incoming.state)
    BY <1>4 DEF Reject, requireMutableIncomingTask, isTerminalTaskState, Terminal
  <2>2. IncomingKeeps(incoming, r)
    BY <1>1, <2>1, HostStepKeeps
  <2>3. trySendPendingForRecord(Start(r, r), connected, FALSE) \subseteq HostOutcomes(incoming)
    BY <2>2, SavedThenSent
  <2> QED
    BY <1>1, <1>4, <2>1, <2>3, HostEndsOK DEF Reject
<1>5. CASE HostCancel(connected)
  <2> DEFINE r == cancelIncoming(incoming, FALSE)
  <2>1. incoming.stored /\ ~isTerminalTaskState(incoming.state)
    BY <1>5 DEF HostCancel
  <2>2. IncomingKeeps(incoming, r)
    BY <1>1, <2>1, HostStepKeeps
  <2>3. trySendPendingForRecord(Start(r, r), connected, FALSE) \subseteq HostOutcomes(incoming)
    BY <2>2, SavedThenSent
  <2> QED
    BY <1>1, <1>5, <2>1, <2>3, HostEndsOK DEF HostCancel
<1> QED
  BY <1>2, <1>3, <1>4, <1>5

(* finishExecution: ignored, or the outcome of the current epoch.          *)
LEMMA FinishExecutionOK ==
  ASSUME StatusInv, NEW connected \in BOOLEAN, NEW f \in finishes,
         FinishExecution(f, connected)
  PROVE  StepOK
<1>1. /\ TypeOK /\ incoming \in Incoming /\ handle \in Handle /\ kernel \in Kernel
      /\ finishes \ {f} \in SUBSET Finish /\ f.epoch \in Nat
  BY DEF StatusInv, TypeOK, Finish
<1>2. IncomingKeeps(incoming, incoming)
  BY <1>1, IncomingKeepsItself
<1>3. ASSUME incoming.stored, ~isTerminalTaskState(incoming.state),
             LET r == finishSingleStageExecution(incoming, f.result, handle, f.epoch)
             IN  HostEnds(trySendPendingForRecord(Start(r, r), connected, FALSE),
                          handle, kernel, finishes \ {f})
      PROVE  StepOK
  <2> DEFINE r == finishSingleStageExecution(incoming, f.result, handle, f.epoch)
  <2>1. IncomingKeeps(incoming, r)
    BY <1>1, <1>3, HostStepKeeps
  <2> HIDE DEF r
  <2>2. trySendPendingForRecord(Start(r, r), connected, FALSE) \subseteq HostOutcomes(incoming)
    BY <2>1, SavedThenSent
  <2>3. HostEnds(trySendPendingForRecord(Start(r, r), connected, FALSE),
                 handle, kernel, finishes \ {f})
    BY <1>3 DEF r
  <2> QED
    BY <1>1, <1>3, <2>2, <2>3, HostEndsOK
<1>4. ASSUME HostEnds({Start(incoming, incoming)}, handle, kernel, finishes \ {f})
      PROVE  StepOK
  <2>1. /\ Start(incoming, incoming).rec = incoming /\ Start(incoming, incoming).disk = incoming
        /\ Start(incoming, incoming).sent = {} /\ Start(incoming, incoming).failures = 0
    BY DEF Start
  <2>2. /\ incoming' = incoming /\ net' = net /\ requesterUnchanged
        /\ kernel' \in Kernel /\ finishes' \in SUBSET Finish
    BY <1>1, <1>4, <2>1, KeptOutcome, HostMemoryTypes DEF HostEnds
  <2>3. TypeOK'
    BY <1>1, <1>4, <2>1, <2>2 DEF HostEnds, TypeOK, Survives, requesterUnchanged, Node
  <2> QED
    BY <1>2, <2>2, <2>3, HostStepOK
<1> QED
  BY <1>3, <1>4 DEF FinishExecution

(* Reconciling interrupted executions keeps ended Tasks and acknowledgements. *)
LEMMA ReconcileKeeps ==
  ASSUME TypeOK, NEW h \in Handle, NEW connected \in BOOLEAN, NEW elapsed \in BOOLEAN
  PROVE  reconcileInterruptedExecutions(h, connected, elapsed) \subseteq HostOutcomes(incoming)
<1>1. incoming \in Incoming /\ h.epoch \in Nat /\ IncomingKeeps(incoming, incoming)
  BY IncomingKeepsItself DEF TypeOK, Handle
<1>2. Start(incoming, incoming) \in HostOutcomes(incoming)
  BY <1>1, HostStarts
<1>3. CASE ~incoming.stored \/ incoming.state # "working" \/ kernel.task = "working"
  BY <1>2, <1>3 DEF reconcileInterruptedExecutions
<1>4. CASE ~(~incoming.stored \/ incoming.state # "working" \/ kernel.task = "working")
  <2>1. ~isTerminalTaskState(incoming.state)
    BY <1>4 DEF isTerminalTaskState, Terminal
  <2> DEFINE i == interruptIncoming(incoming, h)
             r == finishSingleStageExecution(incoming, kernel.task, h, h.epoch)
             S == trySendPendingForRecord(Start(r, r), connected, elapsed)
  <2>2. IncomingKeeps(incoming, i) /\ IncomingKeeps(incoming, r)
    BY <1>1, <2>1, HostStepKeeps
  <2>3. CASE kernel.task = "none"
    <3>1. Start(i, incoming) \in HostOutcomes(incoming)
      BY <1>1, <2>2, HostStarts
    <3> QED
      BY <1>4, <2>3, <3>1 DEF reconcileInterruptedExecutions
  <2>4. CASE kernel.task # "none"
    <3>1. S \subseteq HostOutcomes(incoming)
      BY <2>2, SavedThenSent
    <3> HIDE DEF S
    <3>2. ASSUME NEW o \in S
          PROVE  [o EXCEPT !.on = IF @ = "return" THEN "run" ELSE @] \in HostOutcomes(incoming)
      <4>1. o \in HostOutcomes(incoming)
        BY <3>1
      <4>2. (IF o.on = "return" THEN "run" ELSE o.on) \in {"run", "return", "crash"}
        BY <4>1 DEF HostOutcomes, Outcome
      <4> QED
        BY <1>1, <4>1, <4>2, HostSaves
    <3>3. reconcileInterruptedExecutions(h, connected, elapsed) =
            {[o EXCEPT !.on = IF @ = "return" THEN "run" ELSE @] : o \in S}
      BY <1>4, <2>4 DEF reconcileInterruptedExecutions, S
    <3> QED
      BY <3>2, <3>3
  <2> QED
    BY <2>3, <2>4
<1> QED
  BY <1>3, <1>4

(* The flush of the host.                                                  *)
LEMMA HostFlushOK ==
  ASSUME StatusInv, NEW connected \in BOOLEAN, NEW elapsed \in BOOLEAN,
         HostFlush(connected, elapsed)
  PROVE  StepOK
<1> DEFINE h == reconcileHandle(handle, kernel)
           S1 == reconcileInterruptedExecutions(h, connected, elapsed)
           S2 == {[o EXCEPT !.rec = IF o.on = "run" THEN expireDueIncoming(@, due[Host])
                                    ELSE @] : o \in S1}
           S3 == Then(S2, LAMBDA p : sendReceipt(p, connected))
           S4 == Then(S3, LAMBDA p : sendControlReceipt(p, connected))
           S5 == Then(S4, LAMBDA p : trySendPendingForRecord(p, connected, elapsed))
<1>1. /\ TypeOK /\ h \in Handle /\ kernel \in Kernel /\ finishes \in SUBSET Finish
      /\ incoming \in Incoming /\ due[Host] \in BOOLEAN /\ incoming.statusRevision \in Nat
  BY HandleTypes, TypeFacts DEF StatusInv, TypeOK, Node
<1>2. HostEnds(S5, h, kernel, finishes) /\ incoming.stored
  BY DEF HostFlush
<1> HIDE DEF h
<1>3. S1 \subseteq HostOutcomes(incoming)
  BY <1>1, ReconcileKeeps
<1> HIDE DEF S1
<1>4. S2 \subseteq HostOutcomes(incoming)
  <2>1. ASSUME NEW o \in S1
        PROVE  [o EXCEPT !.rec = IF o.on = "run" THEN expireDueIncoming(@, due[Host])
                                 ELSE @] \in HostOutcomes(incoming)
    <3> DEFINE r == IF o.on = "run" THEN expireDueIncoming(o.rec, due[Host]) ELSE o.rec
    <3>1. o \in HostOutcomes(incoming) /\ o.rec \in Incoming /\ IncomingKeeps(incoming, o.rec)
      BY <1>3 DEF HostOutcomes, Outcome
    <3>2. IncomingKeeps(incoming, r)
      BY <1>1, <3>1, ExpireDueIncomingKeeps
    <3> HIDE DEF r
    <3>3. [o EXCEPT !.rec = r] \in HostOutcomes(incoming)
      BY <3>1, <3>2, HostSaves
    <3> QED
      BY <3>3 DEF r
  <2> QED
    BY <2>1
<1> HIDE DEF S2
<1>5. S3 \subseteq HostOutcomes(incoming)
  <2>1. \A p \in HostOutcomes(incoming) : sendReceipt(p, connected) \subseteq HostOutcomes(incoming)
    BY SendReceiptKeeps
  <2> QED
    BY <1>4, <2>1 DEF Then
<1> HIDE DEF S3
<1>6. S4 \subseteq HostOutcomes(incoming)
  <2>1. \A p \in HostOutcomes(incoming) :
          sendControlReceipt(p, connected) \subseteq HostOutcomes(incoming)
    BY SendControlReceiptKeeps
  <2> QED
    BY <1>5, <2>1 DEF Then
<1> HIDE DEF S4
<1>7. S5 \subseteq HostOutcomes(incoming)
  <2>1. \A p \in HostOutcomes(incoming) :
          trySendPendingForRecord(p, connected, elapsed) \subseteq HostOutcomes(incoming)
    BY SendPendingKeeps
  <2> QED
    BY <1>6, <2>1 DEF Then
<1> HIDE DEF S5
<1> QED
  BY <1>1, <1>2, <1>7, HostEndsOK

(* Steps of the executor and of the host that touch no message.            *)
LEMMA HostQuietStepsOK ==
  ASSUME StatusInv,
         \/ \E result \in Results : Settle(result)
         \/ CaptureCheckpoint \/ SettleHandle \/ ResumeRefused
         \/ HostExpireDue \/ HostStart \/ \E orderly \in BOOLEAN : HostCrash(orderly)
  PROVE  StepOK
<1>1. TypeOK /\ incoming \in Incoming /\ due[Host] \in BOOLEAN /\ incoming.statusRevision \in Nat
  BY TypeFacts DEF StatusInv, TypeOK, Node
<1>2. IncomingKeeps(incoming, incoming)
  BY <1>1, IncomingKeepsItself
<1>3. ASSUME NEW r \in Incoming, IncomingKeeps(incoming, r)
      PROVE  IncomingKeeps(incoming, expireDueIncoming(r, due[Host]))
  BY <1>1, <1>3, ExpireDueIncomingKeeps
<1>4. CASE \E result \in Results : Settle(result)
  <2>1. TypeOK'
    BY <1>1, <1>4, ResultsAssumption DEF TypeOK, Settle, Kernel, Result, requesterUnchanged
  <2> QED
    BY <1>2, <1>4, <2>1, HostStepOK DEF Settle
<1>5. CASE CaptureCheckpoint
  <2>1. TypeOK'
    BY <1>1, <1>5 DEF TypeOK, CaptureCheckpoint, Handle, requesterUnchanged
  <2> QED
    BY <1>2, <1>5, <2>1, HostStepOK DEF CaptureCheckpoint
<1>6. CASE SettleHandle
  <2>1. handle' \in Handle /\ kernel' \in Kernel
    BY <1>1, <1>6 DEF TypeOK, SettleHandle, Handle, Kernel, Progress, Result
  <2>2. finishes' \subseteq Finish
    BY <1>1, <1>6 DEF TypeOK, SettleHandle, Handle, Kernel, Finish
  <2>3. TypeOK'
    BY <1>1, <1>6, <2>1, <2>2 DEF TypeOK, SettleHandle, requesterUnchanged
  <2> QED
    BY <1>2, <1>6, <2>3, HostStepOK DEF SettleHandle
<1>7. CASE ResumeRefused
  <2>1. TypeOK'
    BY <1>1, <1>7 DEF TypeOK, ResumeRefused, Handle, requesterUnchanged
  <2> QED
    BY <1>2, <1>7, <2>1, HostStepOK DEF ResumeRefused
<1>8. CASE HostExpireDue
  <2>1. IncomingKeeps(incoming, incoming')
    BY <1>1, <1>2, <1>3, <1>8 DEF HostExpireDue
  <2>2. TypeOK'
    BY <1>1, <1>8, <2>1 DEF TypeOK, HostExpireDue, IncomingKeeps, requesterUnchanged
  <2> QED
    BY <1>8, <2>1, <2>2, HostStepOK DEF HostExpireDue
<1>9. CASE HostStart
  <2> DEFINE h == reconcileHandle(handle, kernel)
             r == IF incoming.stored /\ incoming.state = "working"
                  THEN interruptIncoming(incoming, h) ELSE incoming
  <2>1. IncomingKeeps(incoming, r)
    <3>1. CASE incoming.state = "working"
      <4>1. ~isTerminalTaskState(incoming.state)
        BY <3>1 DEF isTerminalTaskState, Terminal
      <4> QED
        BY <1>1, <1>2, <4>1, HostStepKeeps
    <3>2. CASE incoming.state # "working"
      BY <1>2, <3>2
    <3> QED
      BY <3>1, <3>2
  <2>2. r \in Incoming
    BY <2>1 DEF IncomingKeeps
  <2> HIDE DEF r
  <2>3. IncomingKeeps(incoming, incoming')
    BY <1>3, <1>9, <2>1, <2>2 DEF HostStart, r
  <2>4. TypeOK'
    BY <1>1, <1>9, <2>3, HandleTypes
    DEF TypeOK, HostStart, IncomingKeeps, requesterUnchanged, Node
  <2> QED
    BY <1>9, <2>3, <2>4, HostStepOK DEF HostStart
<1>10. CASE \E orderly \in BOOLEAN : HostCrash(orderly)
  <2>1. TypeOK'
    <3>1. handle' \in Handle
      BY <1>1, <1>10, HandleTypes DEF HostCrash, TypeOK
    <3>2. kernel' \in Kernel
      BY <1>10 DEF HostCrash, Kernel, Result
    <3> QED
      BY <1>1, <1>10, <3>1, <3>2 DEF TypeOK, HostCrash, requesterUnchanged, Node
  <2> QED
    BY <1>2, <1>10, <2>1, HostStepOK DEF HostCrash
<1> QED
  BY <1>4, <1>5, <1>6, <1>7, <1>8, <1>9, <1>10

-----------------------------------------------------------------------------
(* Messages at the host.                                                    *)

(* A newly stored request has acknowledged nothing.                        *)
LEMMA IncomingRecordType ==
  ASSUME NEW delivery \in {"received", "expired", "rejected"}
  PROVE  incomingRecord(delivery) \in Incoming /\ incomingRecord(delivery).acknowledgedRevision = 0
<1>1. NoIncoming \in Incoming /\ NoIncoming.acknowledgedRevision = 0
  BY NewRecords DEF NoIncoming
<1>2. (CASE delivery = "received" -> "pending"
         [] delivery = "expired" -> "expired"
         [] delivery = "rejected" -> "rejected") \in {"pending", "consumed", "rejected", "expired"}
  OBVIOUS
<1> QED
  BY <1>1, <1>2 DEF incomingRecord, Incoming, TaskState, SafeErrorCode

(* A stored request is answered duplicate, a new one is not.               *)
LEMMA ReceiptStatusType ==
  ASSUME TypeOK, NEW admission
  PROVE  /\ incoming.stored => receiptStatus(admission) = "duplicate"
         /\ ~incoming.stored => receiptStatus(admission) \in {"received", "expired", "rejected"}
<1>1. incoming.stored \in BOOLEAN /\ due[Host] \in BOOLEAN
  BY DEF TypeOK, Incoming, Node
<1>2. CASE incoming.stored
  BY <1>2 DEF receiptStatus
<1>3. CASE ~incoming.stored /\ due[Host]
  BY <1>3 DEF receiptStatus
<1>4. CASE ~incoming.stored /\ ~due[Host]
  BY <1>4 DEF receiptStatus
<1> QED
  BY <1>1, <1>2, <1>3, <1>4

(* A request reaching the host.                                            *)
LEMMA ReceiveRequestOK ==
  ASSUME StatusInv, NEW m \in net, NEW admission, ReceiveRequest(m, admission)
  PROVE  StepOK
<1> DEFINE status == receiptStatus(admission)
           receipt == [status |-> status, receivedAt |-> m.copy]
           known == IF incoming.stored THEN expireDueIncoming(incoming, due[Host])
                    ELSE IF admission = "full" THEN NoIncoming ELSE incomingRecord(status)
           r == IF known.stored THEN [known EXCEPT !.receipt = receipt, !.receiptPending = TRUE]
                ELSE known
           receipted == [r EXCEPT !.receiptPending = FALSE]
           Fresh(x) == x \in Incoming /\ x.acknowledgedRevision = 0
           Good(x) == IF incoming.stored THEN IncomingKeeps(incoming, x) ELSE Fresh(x)
<1>1. /\ TypeOK /\ incoming \in Incoming /\ incoming.stored \in BOOLEAN /\ m \in Message
      /\ m.type = "request" /\ due[Host] \in BOOLEAN /\ incoming.statusRevision \in Nat
      /\ kernel \in Kernel /\ finishes \in SUBSET Finish /\ requesterUnchanged
  BY TypeFacts DEF StatusInv, TypeOK, Incoming, Node, ReceiveRequest
<1>2. receipt \in Receipt
  <2>1. status \in ReceiptStatus
    BY <1>1, ReceiptStatusType DEF ReceiptStatus
  <2>2. m.copy \in Nat
    BY <1>1 DEF Message
  <2> QED
    BY <2>1, <2>2 DEF Receipt
<1>3. PICK o \in SendThenSave(Start(r, r), RequestReceipt(receipt), receipted, r, "run") :
             /\ incoming' = Kept(o)
             /\ Consume(m, o.sent, o.on = "crash")
             /\ HostMemory(o, kernel, finishes)
             /\ Survives(Host, o)
  BY DEF ReceiveRequest
<1> HIDE DEF receipt
<1>4. Good(known)
  <2>1. CASE incoming.stored
    BY <1>1, <2>1, IncomingKeepsItself, ExpireDueIncomingKeeps
  <2>2. CASE ~incoming.stored
    <3>1. status \in {"received", "expired", "rejected"}
      BY <1>1, <2>2, ReceiptStatusType
    <3>2. Fresh(NoIncoming)
      BY NewRecords DEF NoIncoming
    <3>3. Fresh(incomingRecord(status))
      BY <3>1, IncomingRecordType
    <3> QED
      BY <2>2, <3>2, <3>3
  <2> QED
    BY <1>1, <2>1, <2>2
<1> HIDE DEF known
<1>5. known \in Incoming
  BY <1>4 DEF IncomingKeeps
<1>6. Good([known EXCEPT !.receipt = receipt, !.receiptPending = TRUE])
  BY <1>2, <1>4, <1>5 DEF IncomingKeeps, Incoming
<1>7. Good(r)
  BY <1>4, <1>6
<1> HIDE DEF r
<1>8. r \in Incoming
  BY <1>7 DEF IncomingKeeps
<1>9. Good(receipted)
  BY <1>7, <1>8 DEF IncomingKeeps, Incoming
<1> HIDE DEF receipted
<1>10. receipted \in Incoming
  BY <1>9 DEF IncomingKeeps
<1>11. Start(r, r) \in Outcome(Incoming) /\ Start(r, r).rec = r /\ Start(r, r).disk = r
         /\ Start(r, r).sent = {}
  BY <1>8 DEF Start, Outcome
<1>12. RequestReceipt(receipt) \in Message /\ RequestReceipt(receipt).type = "receipt"
  BY <1>2, HostMessages
<1>13. /\ o \in Outcome(Incoming) /\ o.rec \in {r, receipted} /\ o.disk \in {r, receipted}
       /\ o.sent \subseteq {RequestReceipt(receipt)}
  BY <1>3, <1>8, <1>10, <1>11, <1>12, SendThenSaveOutcomes
<1>14. Good(incoming')
  BY <1>3, <1>7, <1>9, <1>13, KeptOutcome
<1>15. net' \subseteq net \cup {RequestReceipt(receipt)}
  BY <1>3, <1>13, ConsumeNet
<1>16. TypeOK'
  <2>1. o.failures \in Nat
    BY <1>13 DEF Outcome
  <2>2. kernel' \in Kernel /\ finishes' \in SUBSET Finish
    BY <1>1, <1>3, HostMemoryTypes
  <2>3. incoming' \in Incoming
    BY <1>14 DEF IncomingKeeps
  <2> QED
    BY <1>1, <1>3, <1>12, <1>15, <2>1, <2>2, <2>3
    DEF ReceiveRequest, TypeOK, Survives, requesterUnchanged, Node
<1>17. copies # 0
  BY <1>1 DEF StatusInv, NothingBeforeFirstRequest
<1>18. \A x \in net' : x \in net \/ (x.type # "status_receipt" /\ copies # 0)
  BY <1>12, <1>15, <1>17
<1>19. CASE incoming.stored
  BY <1>1, <1>14, <1>16, <1>18, <1>19, HostStepOK
<1>20. CASE ~incoming.stored
  <2>1. incoming'.acknowledgedRevision = 0 /\ outgoing' = outgoing /\ copies' = copies
    BY <1>1, <1>14, <1>20 DEF requesterUnchanged
  <2>2. QueuedReceiptsWereSeen' /\ ReceiptsInFlightWereSeen'
    BY <1>18, <2>1 DEF StatusInv, QueuedReceiptsWereSeen, ReceiptsInFlightWereSeen, Seen
  <2>3. AcknowledgedStatusWasSeen'
    BY <1>1, <2>1, TypeFacts DEF AcknowledgedStatusWasSeen
  <2> QED
    BY <1>16, <1>17, <1>20, <2>1, <2>2, <2>3, TypeFacts
    DEF StepOK, StatusInv, NothingBeforeFirstRequest, RevisionStep, HostEndStep
<1> QED
  BY <1>1, <1>19, <1>20

(* A cancel reaching the host.                                             *)
LEMMA ReceiveCancelOK ==
  ASSUME StatusInv, NEW m \in net, ReceiveCancel(m)
  PROVE  StepOK
<1> DEFINE ended == isTerminalTaskState(incoming.state)
           c == IF ended THEN incoming ELSE cancelIncoming(incoming, TRUE)
           r == [c EXCEPT !.controlReceiptQueued = TRUE]
           sent == [r EXCEPT !.controlReceiptQueued = FALSE]
<1>1. /\ TypeOK /\ incoming \in Incoming /\ incoming.stored /\ requesterUnchanged
      /\ kernel \in Kernel /\ finishes \in SUBSET Finish /\ handle' \in Handle
  BY HandleTypes DEF StatusInv, TypeOK, ReceiveCancel
<1>2. IncomingKeeps(incoming, c)
  BY <1>1, IncomingKeepsItself, HostStepKeeps
<1>3. PICK o \in SendThenSave(Start(r, r), ControlReceipt, sent, r, "run") :
             /\ incoming' = Kept(o)
             /\ Consume(m, o.sent, o.on = "crash")
             /\ HostMemory(o, kernel, finishes)
             /\ Survives(Host, o)
  BY DEF ReceiveCancel
<1> HIDE DEF c
<1>4. IncomingKeeps(incoming, r)
  BY <1>2 DEF IncomingKeeps, Incoming
<1> HIDE DEF r
<1>5. IncomingKeeps(incoming, sent)
  BY <1>4 DEF IncomingKeeps, Incoming
<1> HIDE DEF sent
<1>6. o \in HostOutcomes(incoming)
  <2>1. Start(r, r) \in HostOutcomes(incoming)
    BY <1>4, HostStarts
  <2> QED
    BY <1>3, <1>4, <1>5, <2>1, HostMessages, HostSend
<1>7. /\ o \in Outcome(Incoming) /\ IncomingKeeps(incoming, o.rec)
      /\ IncomingKeeps(incoming, o.disk) /\ \A x \in o.sent : x.type # "status_receipt"
  BY <1>6 DEF HostOutcomes
<1>8. IncomingKeeps(incoming, incoming')
  BY <1>3, <1>7, KeptOutcome
<1>9. net' \subseteq net \cup o.sent
  BY <1>3, ConsumeNet
<1>10. TypeOK'
  <2>1. o.failures \in Nat /\ o.sent \subseteq Message
    BY <1>7 DEF Outcome
  <2>2. kernel' \in Kernel /\ finishes' \in SUBSET Finish
    BY <1>1, <1>3, HostMemoryTypes
  <2> QED
    BY <1>1, <1>3, <1>8, <1>9, <2>1, <2>2
    DEF ReceiveCancel, TypeOK, IncomingKeeps, Survives, requesterUnchanged, Node
<1>11. copies # 0
  BY <1>1 DEF StatusInv, NothingBeforeFirstRequest
<1> QED
  BY <1>1, <1>7, <1>8, <1>9, <1>10, <1>11, HostStepOK

(* receiveApplicationReceipt: the receipt in flight was seen, so the       *)
(* revision it makes the host count as acknowledged was seen.              *)
LEMMA ReceiveStatusReceiptOK ==
  ASSUME StatusInv, NEW m \in net, ReceiveStatusReceipt(m)
  PROVE  StepOK
<1> DEFINE r == acknowledgeStatus(incoming, m.revision)
<1>1. /\ TypeOK /\ incoming \in Incoming /\ m \in Message /\ m.type = "status_receipt"
      /\ m.revision \in Nat /\ requesterUnchanged /\ net' \subseteq net
      /\ incoming' = r /\ outgoing' = outgoing /\ copies' = copies
  BY TypeFacts DEF StatusInv, TypeOK, ReceiveStatusReceipt, Consume, requesterUnchanged
<1>2. Seen(m.revision) /\ (incoming.stored => Seen(incoming.acknowledgedRevision))
  BY <1>1 DEF StatusInv, ReceiptsInFlightWereSeen, AcknowledgedStatusWasSeen, Seen
<1>3. /\ incoming.acknowledgedRevision \in Nat /\ incoming.statusRevision \in Nat
      /\ incoming.attemptRevision \in Nat /\ incoming.failureRevision \in Nat
  BY <1>1 DEF Incoming
<1>4. /\ r \in Incoming
      /\ r.stored = incoming.stored
      /\ r.statusRevision = incoming.statusRevision
      /\ r.state = incoming.state
      /\ r.acknowledgedRevision \in {incoming.acknowledgedRevision, m.revision}
      /\ r.acknowledgedRevision >= incoming.acknowledgedRevision
  <2>1. CASE incoming.stored /\ hasApplicationDeliveryReference(incoming, m.revision)
    <3> DEFINE acked == IF m.revision > incoming.acknowledgedRevision THEN m.revision
                        ELSE incoming.acknowledgedRevision
               s == [incoming EXCEPT
                       !.acknowledgedRevision = acked,
                       !.statusPending = acked < incoming.statusRevision,
                       !.attemptRevision = IF @ = m.revision THEN 0 ELSE @,
                       !.failureRevision = IF @ <= m.revision THEN 0 ELSE @]
    <3>1. /\ acked \in {incoming.acknowledgedRevision, m.revision}
          /\ acked >= incoming.acknowledgedRevision /\ acked \in Nat
      BY <1>1, <1>3
    <3>2. r = s
      BY <2>1 DEF acknowledgeStatus
    <3> HIDE DEF acked, r
    <3>3. (acked < incoming.statusRevision) \in BOOLEAN
      OBVIOUS
    <3>4. /\ s \in Incoming /\ s.stored = incoming.stored /\ s.state = incoming.state
          /\ s.statusRevision = incoming.statusRevision /\ s.acknowledgedRevision = acked
      BY <1>1, <1>3, <3>1, <3>3 DEF Incoming
    <3> QED
      BY <3>1, <3>2, <3>4
  <2>2. CASE ~(incoming.stored /\ hasApplicationDeliveryReference(incoming, m.revision))
    BY <1>1, <1>3, <2>2 DEF acknowledgeStatus
  <2> QED
    BY <2>1, <2>2
<1> HIDE DEF r
<1>5. TypeOK'
  BY <1>1, <1>4 DEF TypeOK, ReceiveStatusReceipt, requesterUnchanged
<1>6. QueuedReceiptsWereSeen' /\ ReceiptsInFlightWereSeen'
  BY <1>1 DEF StatusInv, QueuedReceiptsWereSeen, ReceiptsInFlightWereSeen, Seen
<1>7. AcknowledgedStatusWasSeen'
  BY <1>1, <1>2, <1>4 DEF AcknowledgedStatusWasSeen, Seen
<1>8. NothingBeforeFirstRequest'
  BY <1>1, <1>4 DEF StatusInv, NothingBeforeFirstRequest
<1>9. RevisionStep /\ HostEndStep
  BY <1>1, <1>3, <1>4, TypeFacts DEF RevisionStep, HostEndStep
<1> QED
  BY <1>5, <1>6, <1>7, <1>8, <1>9 DEF StepOK, StatusInv

(* A result receipt reaching the host.                                     *)
LEMMA ReceiveArtifactReceiptOK ==
  ASSUME StatusInv, NEW m \in net, ReceiveArtifactReceipt(m)
  PROVE  StepOK
<1>1. TypeOK /\ incoming \in Incoming /\ net' \subseteq net /\ requesterUnchanged
  BY DEF StatusInv, TypeOK, ReceiveArtifactReceipt, Consume
<1>2. IncomingKeeps(incoming, acknowledgeArtifact(incoming))
  BY <1>1, IncomingKeepsItself DEF acknowledgeArtifact, IncomingKeeps, Incoming
<1>3. IncomingKeeps(incoming, incoming')
  BY <1>2 DEF ReceiveArtifactReceipt
<1>4. TypeOK'
  BY <1>1, <1>3 DEF TypeOK, ReceiveArtifactReceipt, IncomingKeeps, requesterUnchanged
<1> QED
  BY <1>1, <1>3, <1>4, HostStepOK

-----------------------------------------------------------------------------
(* Time, storage pressure, crashes, loss.                                   *)

(* Evictions by a full store.                                              *)
LEMMA EvictionsOK ==
  ASSUME StatusInv, EvictOutgoing \/ EvictIncoming
  PROVE  StepOK
<1>1. TypeOK /\ outgoing \in Outgoing /\ incoming \in Incoming
  BY DEF StatusInv, TypeOK
<1>2. CASE EvictOutgoing
  <2>1. TypeOK'
    BY <1>1, <1>2, NewRecords DEF TypeOK, EvictOutgoing, hostUnchanged
  <2>2. /\ ~outgoing'.stored /\ outgoing'.receiptOutbox = {} /\ incoming' = incoming
        /\ net' = net /\ copies' = copies
    BY <1>2, NewRecords DEF EvictOutgoing, hostUnchanged
  <2> QED
    BY <1>1, <2>1, <2>2, TypeFacts
    DEF StepOK, StatusInv, QueuedReceiptsWereSeen, ReceiptsInFlightWereSeen, Seen,
        AcknowledgedStatusWasSeen, NothingBeforeFirstRequest, RevisionStep, HostEndStep
<1>3. CASE EvictIncoming
  <2>1. TypeOK'
    BY <1>1, <1>3, NewRecords DEF TypeOK, EvictIncoming, requesterUnchanged
  <2>2. /\ ~incoming'.stored /\ outgoing' = outgoing /\ net' = net /\ copies' = copies
    BY <1>3, NewRecords DEF EvictIncoming, requesterUnchanged
  <2> QED
    BY <1>1, <2>1, <2>2, TypeFacts
    DEF StepOK, StatusInv, QueuedReceiptsWereSeen, ReceiptsInFlightWereSeen, Seen,
        AcknowledgedStatusWasSeen, NothingBeforeFirstRequest, RevisionStep, HostEndStep
<1> QED
  BY <1>2, <1>3

(* Clocks, losses, crashes and restarts of the requester.                  *)
LEMMA EnvironmentOK ==
  ASSUME StatusInv,
         \/ RequesterExpireDue \/ RequesterCrash \/ RequesterStart
         \/ \E n \in Node : ClockPassesExpiry(n)
         \/ \E m \in net : Lose(m)
  PROVE  StepOK
<1>1. TypeOK /\ outgoing \in Outgoing
  BY DEF StatusInv, TypeOK
<1>2. OutgoingKeeps(outgoing, outgoing)
  BY <1>1, OutgoingKeepsItself
<1>3. OutgoingKeeps(outgoing, expireDueOutgoing(outgoing, due[Requester]))
  BY <1>1, <1>2, ExpireDueOutgoingKeeps
<1>4. CASE RequesterExpireDue
  <2>1. OutgoingKeeps(outgoing, outgoing')
    BY <1>3, <1>4 DEF RequesterExpireDue
  <2>2. TypeOK'
    BY <1>1, <1>4, <2>1 DEF TypeOK, RequesterExpireDue, OutgoingKeeps, hostUnchanged
  <2> QED
    BY <1>4, <2>1, <2>2, RequesterStepOK DEF RequesterExpireDue
<1>5. CASE RequesterCrash
  <2>1. TypeOK'
    BY <1>1, <1>5 DEF TypeOK, RequesterCrash, requesterUnchanged, hostUnchanged, Node
  <2> QED
    BY <1>2, <1>5, <2>1, RequesterStepOK DEF RequesterCrash, requesterUnchanged
<1>6. CASE RequesterStart
  <2>1. OutgoingKeeps(outgoing, outgoing')
    BY <1>2, <1>3, <1>6 DEF RequesterStart
  <2>2. TypeOK'
    BY <1>1, <1>6, <2>1 DEF TypeOK, RequesterStart, OutgoingKeeps, hostUnchanged, Node
  <2> QED
    BY <1>6, <2>1, <2>2, RequesterStepOK DEF RequesterStart
<1>7. CASE \E n \in Node : ClockPassesExpiry(n)
  <2>1. TypeOK'
    BY <1>1, <1>7 DEF TypeOK, ClockPassesExpiry, requesterUnchanged, hostUnchanged
  <2> QED
    BY <1>2, <1>7, <2>1, RequesterStepOK DEF ClockPassesExpiry, requesterUnchanged
<1>8. CASE \E m \in net : Lose(m)
  <2>1. TypeOK'
    BY <1>1, <1>8 DEF TypeOK, Lose, requesterUnchanged, hostUnchanged
  <2> QED
    BY <1>2, <1>8, <2>1, RequesterStepOK DEF Lose, requesterUnchanged
<1> QED
  BY <1>4, <1>5, <1>6, <1>7, <1>8

-----------------------------------------------------------------------------
(* The theorems.                                                            *)

(* Every step keeps the invariant, advances revisions and leaves an ended  *)
(* Task of the host alone.                                                 *)
LEMMA NextOK ==
  ASSUME StatusInv, [Next]_vars
  PROVE  StepOK
<1>1. CASE UNCHANGED vars
  <2>1. outgoing' = outgoing /\ incoming' = incoming /\ net' = net /\ copies' = copies
    BY <1>1 DEF vars
  <2>2. TypeOK'
    BY <1>1 DEF vars, StatusInv, TypeOK
  <2> QED
    BY <2>1, <2>2, TypeFacts
    DEF StepOK, StatusInv, QueuedReceiptsWereSeen, ReceiptsInFlightWereSeen, Seen,
        AcknowledgedStatusWasSeen, NothingBeforeFirstRequest, RevisionStep, HostEndStep
<1>2. ASSUME NEW connected \in Connectivity
      PROVE  connected \in BOOLEAN
  BY DEF Connectivity
<1>3. CASE \E connected \in Connectivity, elapsed \in BOOLEAN :
             \/ RequestCancel(connected, elapsed)
             \/ RequesterFlush(connected, elapsed)
             \/ HostFlush(connected, elapsed)
  BY <1>2, <1>3, RequesterOperationsOK, HostFlushOK
<1>4. CASE \E connected \in Connectivity : Send(connected)
  BY <1>2, <1>4, SendOK
<1>5. CASE \E connected \in Connectivity : Retry(connected)
  BY <1>2, <1>5, RequesterOperationsOK
<1>6. CASE \E connected \in Connectivity :
             \/ Approve(connected) \/ Resume(connected) \/ Reject(connected)
             \/ HostCancel(connected)
  BY <1>2, <1>6, HostOperationsOK
<1>7. CASE \E connected \in Connectivity : \E f \in finishes : FinishExecution(f, connected)
  BY <1>2, <1>7, FinishExecutionOK
<1>8. CASE \E m \in net : Receive(m)
  BY <1>8, RequesterReceivesOK, ReceiveStatusOK, ReceiveRequestOK, ReceiveCancelOK,
     ReceiveStatusReceiptOK, ReceiveArtifactReceiptOK
  DEF Receive
<1>9. CASE \E m \in net : Lose(m)
  BY <1>9, EnvironmentOK
<1>10. CASE \/ \E result \in Results : Settle(result)
            \/ CaptureCheckpoint \/ SettleHandle \/ ResumeRefused
            \/ HostExpireDue \/ HostStart \/ \E orderly \in BOOLEAN : HostCrash(orderly)
  BY <1>10, HostQuietStepsOK
<1>11. CASE RequesterExpireDue \/ RequesterCrash \/ RequesterStart
              \/ \E n \in Node : ClockPassesExpiry(n)
  BY <1>11, EnvironmentOK
<1>12. CASE EvictOutgoing \/ EvictIncoming
  BY <1>12, EvictionsOK
<1> QED
  BY <1>1, <1>3, <1>4, <1>5, <1>6, <1>7, <1>8, <1>9, <1>10, <1>11, <1>12 DEF Next

(* The inductive invariant holds of the specification.                     *)
THEOREM StatusInvariance == Spec => []StatusInv
<1>1. StatusInv /\ [Next]_vars => StatusInv'
  BY NextOK DEF StepOK
<1> QED
  BY <1>1, InitStatusInv, PTL DEF Spec

(* Every record, message and handle keeps the shape the store and the      *)
(* envelope validation accept, for any number of transmissions, epochs and *)
(* failures.                                                               *)
THEOREM TypeCorrectness == Spec => []TypeOK
<1>1. StatusInv => TypeOK
  BY DEF StatusInv
<1> QED
  BY <1>1, StatusInvariance, PTL

(* A status revision the host counts as acknowledged was seen by the       *)
(* requester (receiveApplicationReceipt, receiveStatus).                   *)
THEOREM AcknowledgedStatusesWereSeen == Spec => []AcknowledgedStatusWasSeen
<1>1. StatusInv => AcknowledgedStatusWasSeen
  BY DEF StatusInv
<1> QED
  BY <1>1, StatusInvariance, PTL

(* No late result, cancel, expiry or restart changes the state of a Task   *)
(* that ended at the host.                                                 *)
THEOREM HostEndsAreFinal == Spec => HostEndIsFinal
<1>1. StatusInv /\ [Next]_vars => [HostEndStep]_vars
  BY NextOK DEF StepOK
<1> QED
  BY <1>1, StatusInvariance, PTL DEF Spec, HostEndIsFinal

(* Applied and acknowledged revisions never go back.                       *)
THEOREM RevisionsOnlyAdvance == Spec => RevisionsAdvance
<1>1. StatusInv /\ [Next]_vars => [RevisionStep]_vars
  BY NextOK DEF StepOK
<1> QED
  BY <1>1, StatusInvariance, PTL DEF Spec, RevisionsAdvance

(* Neither an end nor a revision is taken back.                            *)
THEOREM NothingTakenBack == Spec => NothingIsTakenBack
BY HostEndsAreFinal, RevisionsOnlyAdvance DEF NothingIsTakenBack
=============================================================================
