-------------------------- MODULE TaskClaimsProofs --------------------------
(***************************************************************************)
(* Proofs about TaskTransport, continued: what the executor and the host's *)
(* record say of each other (RunsMatchTasks), what each side may conclude  *)
(* from an acknowledgement (ClaimsAreTrue), and that an accepted result    *)
(* outranks an expiry (AcceptedResultNeverExpires).                        *)
(*                                                                         *)
(* The host sends some changes before it saves them (flushOutbox), so its  *)
(* stored record alone does not say what the requester may have heard.     *)
(* The proofs speak of the record the host WILL have: the one in memory,   *)
(* or, while the process is down, the one its next start makes.            *)
(***************************************************************************)
EXTENDS TaskTransportProofs

-----------------------------------------------------------------------------
(* What an operation of the host leaves and says.                           *)

(* Records r and t tell the same of the Task; only what was attempted and  *)
(* which receipts are still queued may differ.                             *)
SameTask(r, t) ==
  /\ r.stored = t.stored /\ r.state = t.state
  /\ r.statusRevision = t.statusRevision /\ r.statusPending = t.statusPending
  /\ r.acknowledgedRevision = t.acknowledgedRevision
  /\ r.artifactEpoch = t.artifactEpoch /\ r.artifactAcknowledged = t.artifactAcknowledged
  /\ r.controlReceiptQueued => t.controlReceiptQueued

(* The result, the end of a cancel and the acknowledgement agree with the  *)
(* state, within one record of the host.                                   *)
Sound(r) ==
  /\ r.controlReceiptQueued => isTerminalTaskState(r.state)
  /\ (r.state = "completed") <=> (r.artifactEpoch > 0)
  /\ ~r.statusPending => r.acknowledgedRevision >= r.statusRevision
  /\ r.state = "submitted" => r.statusRevision = 0

(* A status is one that the record r has announced or will announce.       *)
Announces(r, m) ==
  /\ 0 < m.revision /\ m.revision <= r.statusRevision
  /\ m.revision = r.statusRevision /\ isTerminalTaskState(r.state) => isTerminalTaskState(m.state)
  /\ isTerminalTaskState(m.state) => /\ isTerminalTaskState(r.state)
                                     /\ (m.state = "completed") <=> (r.state = "completed")

(* What a host with record r may send.                                     *)
Says(r, m) ==
  /\ m.type \in {"receipt", "status", "artifact", "control_receipt"}
  /\ m.type = "status" => Announces(r, m)
  /\ m.type = "artifact" => r.artifactEpoch > 0
  /\ m.type = "control_receipt" => r.controlReceiptQueued

(* The outcomes with the Task of t in memory, that of a record of D on     *)
(* disk, and nothing sent that t does not say.                             *)
HostSays(t, D) ==
  {o \in Outcome(Incoming) :
     /\ o.on # "crash" => SameTask(o.rec, t)
     /\ \E d \in D : SameTask(o.disk, d)
     /\ \A m \in o.sent : Says(t, m)}

(* A record tells of itself.                                               *)
LEMMA SameAsItself ==
  ASSUME NEW r
  PROVE  SameTask(r, r)
BY DEF SameTask

(* Soundness is about the Task only.                                       *)
LEMMA SameSound ==
  ASSUME NEW r, NEW t, SameTask(r, t), Sound(t)
  PROVE  Sound(r)
BY DEF SameTask, Sound

(* A record that is saved when its operation starts.                       *)
LEMMA HostSaysStarts ==
  ASSUME NEW r \in Incoming, NEW d \in Incoming, NEW D, d \in D
  PROVE  Start(r, d) \in HostSays(r, D) /\ Start(r, d).on = "run"
<1> DEFINE o == Start(r, d)
<1>1. o \in Outcome(Incoming) /\ o.rec = r /\ o.disk = d /\ o.sent = {} /\ o.on = "run"
  BY DEF Start, Outcome
<1>2. SameTask(r, r) /\ SameTask(d, d)
  BY SameAsItself
<1> HIDE DEF o
<1>3. o \in HostSays(r, D)
  BY <1>1, <1>2 DEF HostSays
<1> QED
  BY <1>1, <1>3 DEF o

(* A send within an operation of the host.                                 *)
LEMMA HostSaysSend ==
  ASSUME NEW t, NEW D, t \in D, NEW o \in HostSays(t, D), o.on # "crash",
         NEW m \in Message, Says(t, m),
         NEW okay \in Incoming, NEW failed \in Incoming,
         SameTask(okay, t), SameTask(failed, t),
         NEW after \in {"run", "return"}
  PROVE  SendThenSave(o, m, okay, failed, after) \subseteq HostSays(t, D)
<1>1. SUFFICES ASSUME NEW p \in SendThenSave(o, m, okay, failed, after)
               PROVE  p \in HostSays(t, D)
  OBVIOUS
<1>2. o \in Outcome(Incoming)
  BY DEF HostSays
<1>3. /\ p \in Outcome(Incoming)
      /\ p.rec \in {o.rec, okay, failed}
      /\ p.disk \in {o.disk, okay, failed}
      /\ p.sent \subseteq o.sent \cup {m}
  BY <1>2, SendThenSaveOutcomes
<1>4. SameTask(p.rec, t)
  BY <1>3 DEF HostSays
<1>5. \E d \in D : SameTask(p.disk, d)
  BY <1>3 DEF HostSays
<1>6. \A x \in p.sent : Says(t, x)
  BY <1>3 DEF HostSays
<1> QED
  BY <1>3, <1>4, <1>5, <1>6 DEF HostSays

(* Sending a request receipt.                                              *)
LEMMA SendReceiptSays ==
  ASSUME NEW t, NEW D, t \in D, NEW o \in HostSays(t, D), o.on = "run", NEW connected
  PROVE  sendReceipt(o, connected) \subseteq HostSays(t, D)
<1> DEFINE okay == [o.rec EXCEPT !.receiptPending = FALSE]
           gave == [o EXCEPT !.on = "return"]
<1>1. o \in Outcome(Incoming) /\ o.rec \in Incoming /\ SameTask(o.rec, t)
        /\ o.rec.receipt \in Receipt
  BY DEF HostSays, Outcome, Incoming
<1>2. okay \in Incoming /\ SameTask(okay, o.rec)
  BY <1>1 DEF SameTask, Incoming
<1>3. SameTask(okay, t)
  BY <1>1, <1>2 DEF SameTask
<1> DEFINE m == RequestReceipt(o.rec.receipt)
<1>4. m \in Message /\ m.type = "receipt"
  BY <1>1, HostMessages
<1>5. Says(t, m)
  BY <1>4 DEF Says
<1> HIDE DEF okay, m
<1>6. SendThenSave(o, m, okay, o.rec, "run") \subseteq HostSays(t, D)
  BY <1>1, <1>2, <1>3, <1>4, <1>5, HostSaysSend
<1>7. gave \in HostSays(t, D)
  <2>1. gave \in Outcome(Incoming) /\ gave.rec = o.rec /\ gave.disk = o.disk /\ gave.sent = o.sent
    BY <1>1 DEF Outcome
  <2> HIDE DEF gave
  <2> QED
    BY <1>1, <2>1 DEF HostSays
<1> HIDE DEF gave
<1>8. sendReceipt(o, connected) \in {{o}, {gave}, SendThenSave(o, m, okay, o.rec, "run")}
  BY DEF sendReceipt, okay, gave, m
<1> QED
  BY <1>6, <1>7, <1>8

(* Sending a control receipt.                                              *)
LEMMA SendControlReceiptSays ==
  ASSUME NEW t, NEW D, t \in D, NEW o \in HostSays(t, D), o.on = "run", NEW connected
  PROVE  sendControlReceipt(o, connected) \subseteq HostSays(t, D)
<1> DEFINE okay == [o.rec EXCEPT !.controlReceiptQueued = FALSE]
<1>1. o.rec \in Incoming /\ SameTask(o.rec, t)
  BY DEF HostSays, Outcome
<1>2. okay \in Incoming /\ SameTask(okay, o.rec)
  BY <1>1 DEF SameTask, Incoming
<1>3. SameTask(okay, t)
  BY <1>1, <1>2 DEF SameTask
<1>4. ControlReceipt \in Message /\ ControlReceipt.type = "control_receipt"
  BY HostMessages
<1> HIDE DEF okay
<1>5. CASE ~o.rec.controlReceiptQueued \/ ~connected
  BY <1>5 DEF sendControlReceipt
<1>6. CASE ~(~o.rec.controlReceiptQueued \/ ~connected)
  <2>1. t.controlReceiptQueued
    BY <1>1, <1>6 DEF SameTask
  <2>2. Says(t, ControlReceipt)
    BY <1>4, <2>1 DEF Says
  <2>3. SendThenSave(o, ControlReceipt, okay, o.rec, "run") \subseteq HostSays(t, D)
    BY <1>1, <1>2, <1>3, <1>4, <2>2, HostSaysSend
  <2> QED
    BY <1>6, <2>3 DEF sendControlReceipt, okay
<1> QED
  BY <1>5, <1>6

(* Sending the result.                                                     *)
LEMMA SendArtifactSays ==
  ASSUME NEW t, NEW D, t \in D, NEW o \in HostSays(t, D), o.on = "run",
         NEW connected, NEW elapsed
  PROVE  sendArtifact(o, connected, elapsed) \subseteq HostSays(t, D)
<1> DEFINE okay == [o.rec EXCEPT !.artifactAttempted = TRUE]
<1>1. o.rec \in Incoming /\ SameTask(o.rec, t)
  BY DEF HostSays, Outcome
<1>2. okay \in Incoming /\ SameTask(okay, o.rec)
  BY <1>1 DEF SameTask, Incoming
<1>3. SameTask(okay, t)
  BY <1>1, <1>2 DEF SameTask
<1>4. Artifact \in Message /\ Artifact.type = "artifact"
  BY HostMessages
<1> HIDE DEF okay
<1>5. CASE ~connected \/ ~shouldSendArtifact(o.rec, elapsed)
  BY <1>5 DEF sendArtifact
<1>6. CASE ~(~connected \/ ~shouldSendArtifact(o.rec, elapsed))
  <2>1. t.artifactEpoch > 0
    BY <1>1, <1>6 DEF SameTask, shouldSendArtifact
  <2>2. Says(t, Artifact)
    BY <1>4, <2>1 DEF Says
  <2>3. SendThenSave(o, Artifact, okay, o.rec, "return") \subseteq HostSays(t, D)
    BY <1>1, <1>2, <1>3, <1>4, <2>2, HostSaysSend
  <2> QED
    BY <1>6, <2>3 DEF sendArtifact, okay
<1> QED
  BY <1>5, <1>6

(* Sending the status.                                                     *)
LEMMA SendStatusSays ==
  ASSUME NEW t \in Incoming, Sound(t), NEW D, t \in D, NEW o \in HostSays(t, D),
         o.on = "run", NEW connected, NEW elapsed
  PROVE  sendStatus(o, connected, elapsed) \subseteq HostSays(t, D)
<1> DEFINE attempted == [o.rec EXCEPT !.attemptRevision = o.rec.statusRevision]
           failed(r) == [r EXCEPT !.failureRevision = o.rec.statusRevision]
           saved == [o EXCEPT !.rec = failed(o.rec), !.disk = failed(o.rec)]
<1>1. o \in Outcome(Incoming) /\ o.rec \in Incoming /\ SameTask(o.rec, t)
        /\ o.rec.statusRevision \in Nat
  BY DEF HostSays, Outcome, Incoming
<1>2. attempted \in Incoming /\ SameTask(attempted, o.rec)
  BY <1>1 DEF SameTask, Incoming
<1>3. ASSUME NEW r \in Incoming, SameTask(r, t)
      PROVE  failed(r) \in Incoming /\ SameTask(failed(r), t)
  BY <1>1, <1>3 DEF SameTask, Incoming
<1>4. SameTask(attempted, t)
  BY <1>1, <1>2 DEF SameTask
<1>5. /\ failed(o.rec) \in Incoming /\ SameTask(failed(o.rec), t)
      /\ failed(attempted) \in Incoming /\ SameTask(failed(attempted), t)
  BY <1>1, <1>2, <1>3, <1>4
<1> DEFINE m == Status(o.rec)
<1>6. m \in Message /\ m.type = "status"
  BY <1>1, HostMessages
<1>7. m.revision = t.statusRevision /\ m.state = networkTaskState(t.state)
  BY <1>1 DEF Status, SameTask
<1> HIDE DEF attempted, failed, m
<1>8. saved \in HostSays(t, D)
  <2>1. /\ saved \in Outcome(Incoming) /\ saved.rec = failed(o.rec)
        /\ saved.disk = failed(o.rec) /\ saved.sent = o.sent
    BY <1>1, <1>5 DEF Outcome
  <2> HIDE DEF saved
  <2> QED
    BY <1>5, <2>1 DEF HostSays
<1> HIDE DEF saved
<1>9. CASE ~connected \/ ~shouldSendStatus(o.rec, elapsed)
  <2>1. sendStatus(o, connected, elapsed) \in {{o}, {saved}}
    BY <1>9 DEF sendStatus, saved, failed
  <2> QED
    BY <1>8, <2>1
<1>10. CASE ~(~connected \/ ~shouldSendStatus(o.rec, elapsed))
  <2>1. t.state # "submitted"
    <3>1. t.statusRevision > 0
      BY <1>1, <1>10 DEF shouldSendStatus, SameTask
    <3> QED
      BY <3>1 DEF Sound
  <2>2. m.state = t.state /\ t.statusRevision \in Nat /\ t.statusRevision > 0
    BY <1>1, <1>7, <1>10, <2>1 DEF networkTaskState, Incoming, shouldSendStatus, SameTask
  <2>3. Says(t, m)
    BY <1>6, <1>7, <2>2 DEF Says, Announces
  <2>4. SendThenSave(o, m, attempted, failed(attempted), "return") \subseteq HostSays(t, D)
    BY <1>1, <1>2, <1>4, <1>5, <1>6, <2>3, HostSaysSend
  <2> QED
    BY <1>10, <2>4 DEF sendStatus, attempted, failed, m
<1> QED
  BY <1>9, <1>10

(* Sending whatever is pending.                                            *)
LEMMA SendPendingSays ==
  ASSUME NEW t \in Incoming, Sound(t), NEW D, t \in D, NEW o \in HostSays(t, D),
         o.on = "run", NEW connected, NEW elapsed
  PROVE  trySendPendingForRecord(o, connected, elapsed) \subseteq HostSays(t, D)
<1>1. sendArtifact(o, connected, elapsed) \subseteq HostSays(t, D)
  BY SendArtifactSays
<1>2. \A p \in HostSays(t, D) :
        p.on = "run" => sendStatus(p, connected, elapsed) \subseteq HostSays(t, D)
  BY SendStatusSays
<1> QED
  BY <1>1, <1>2 DEF trySendPendingForRecord, Then

(* The send at the end of an operation whose record is already saved.      *)
LEMMA SavedThenSays ==
  ASSUME NEW r \in Incoming, Sound(r), NEW connected, NEW elapsed
  PROVE  trySendPendingForRecord(Start(r, r), connected, elapsed) \subseteq HostSays(r, {r})
BY HostSaysStarts, SendPendingSays

-----------------------------------------------------------------------------
(* How the record of the host advances.                                     *)

(* Record r is b, or a later one: a change of state has a revision of its  *)
(* own, and an end stays.                                                  *)
Supersedes(b, r) ==
  /\ r.stored = b.stored
  /\ r.statusRevision >= b.statusRevision
  /\ r.statusRevision = b.statusRevision \/ isTerminalTaskState(b.state)
       => r.state = b.state /\ r.artifactEpoch = b.artifactEpoch

(* And an end is announced once; the requester's receipts are not touched. *)
Later(b, r) ==
  /\ Supersedes(b, r)
  /\ r.artifactAcknowledged = b.artifactAcknowledged
  /\ isTerminalTaskState(b.state) => r.statusRevision = b.statusRevision

(* A step of a Task that has not ended: one new revision.                  *)
Advances(b, r) ==
  /\ r \in Incoming /\ Sound(r) /\ r.stored = b.stored
  /\ r.statusRevision = b.statusRevision + 1
  /\ r.artifactAcknowledged = b.artifactAcknowledged
  /\ r.controlReceiptQueued = b.controlReceiptQueued

(* A record is later than itself, and later records follow each other.     *)
LEMMA LaterChain ==
  /\ \A r \in Incoming : Later(r, r) /\ Supersedes(r, r)
  /\ \A a, b, c \in Incoming : Later(a, b) /\ Later(b, c) => Later(a, c)
  /\ \A a, b, c \in Incoming : SameTask(b, a) /\ Later(b, c) => Later(a, c)
  /\ \A a, b, c \in Incoming : Later(a, b) /\ SameTask(c, b) => Later(a, c)
  /\ \A a, b, c \in Incoming : SameTask(b, a) /\ Supersedes(b, c) => Supersedes(a, c)
<1>1. \A r \in Incoming : r.statusRevision \in Nat
  BY DEF Incoming
<1>2. ASSUME NEW a \in Incoming, NEW b \in Incoming, NEW c \in Incoming
      PROVE  /\ Later(a, b) /\ Later(b, c) => Later(a, c)
             /\ SameTask(b, a) /\ Later(b, c) => Later(a, c)
             /\ Later(a, b) /\ SameTask(c, b) => Later(a, c)
             /\ SameTask(b, a) /\ Supersedes(b, c) => Supersedes(a, c)
  <2>1. a.statusRevision \in Nat /\ b.statusRevision \in Nat /\ c.statusRevision \in Nat
    BY <1>1
  <2>2. Later(a, b) /\ Later(b, c) => Later(a, c)
    BY <2>1 DEF Later, Supersedes
  <2>3. /\ SameTask(b, a) /\ Later(b, c) => Later(a, c)
        /\ Later(a, b) /\ SameTask(c, b) => Later(a, c)
        /\ SameTask(b, a) /\ Supersedes(b, c) => Supersedes(a, c)
    BY <2>1 DEF Later, Supersedes, SameTask
  <2> QED
    BY <2>2, <2>3
<1>3. \A r \in Incoming : Later(r, r) /\ Supersedes(r, r)
  BY <1>1 DEF Later, Supersedes
<1> QED
  BY <1>2, <1>3

(* What a record announces, the later one has announced too.               *)
LEMMA AnnouncesLater ==
  ASSUME NEW b \in Incoming, NEW r \in Incoming, Supersedes(b, r), Sound(b)
  PROVE  /\ \A m \in Message : m.type = "status" /\ Announces(b, m) => Announces(r, m)
         /\ b.artifactEpoch > 0 => r.artifactEpoch > 0
<1>1. b.statusRevision \in Nat /\ r.statusRevision \in Nat /\ b.artifactEpoch \in Nat
  BY DEF Incoming
<1>2. ASSUME NEW m \in Message, m.type = "status", Announces(b, m)
      PROVE  Announces(r, m)
  <2>1. m.revision \in Nat
    BY <1>2 DEF Message
  <2>2. m.revision <= r.statusRevision
    BY <1>1, <1>2, <2>1 DEF Announces, Supersedes
  <2>3. m.revision = r.statusRevision => r.statusRevision = b.statusRevision
    BY <1>1, <1>2, <2>1 DEF Announces, Supersedes
  <2> QED
    BY <1>2, <2>1, <2>2, <2>3 DEF Announces, Supersedes
<1>3. b.artifactEpoch > 0 => r.artifactEpoch > 0
  BY <1>1 DEF Sound, Supersedes, isTerminalTaskState, Terminal
<1> QED
  BY <1>2, <1>3

(* A Task that has not ended advances by every operation of the host.      *)
LEMMA HostStepAdvances ==
  ASSUME NEW r \in Incoming, Sound(r), ~isTerminalTaskState(r.state)
  PROVE  /\ Advances(r, startIncoming(r))
         /\ Advances(r, resumeIncoming(r))
         /\ Advances(r, rejectIncoming(r))
         /\ \A byRequester \in BOOLEAN : Advances(r, cancelIncoming(r, byRequester))
         /\ Advances(r, expireIncoming(r))
         /\ \A h : Advances(r, interruptIncoming(r, h))
         /\ \A result, h : \A epoch \in Nat : epoch > 0 =>
              Advances(r, finishSingleStageExecution(r, result, h, epoch))
<1> DEFINE s == nextRevision(r)
<1>1. /\ s \in Incoming /\ s.stored = r.stored
      /\ s.statusRevision = r.statusRevision + 1 /\ s.statusRevision > 0
      /\ s.statusPending /\ ~s.controlReceiptQueued /\ s.artifactEpoch = 0
      /\ s.artifactAcknowledged = r.artifactAcknowledged
      /\ s.controlReceiptQueued = r.controlReceiptQueued
  <2>1. r.statusRevision \in Nat /\ r.artifactEpoch \in Nat
    BY DEF Incoming
  <2>2. ~r.controlReceiptQueued /\ r.artifactEpoch = 0
    BY <2>1 DEF Sound, isTerminalTaskState, Terminal
  <2>3. /\ s.statusPending /\ s.controlReceiptQueued = r.controlReceiptQueued
        /\ s.artifactEpoch = r.artifactEpoch
        /\ s.artifactAcknowledged = r.artifactAcknowledged
    BY DEF nextRevision, Incoming
  <2> HIDE DEF s
  <2>4. /\ s \in Incoming /\ s.stored = r.stored
        /\ s.statusRevision = r.statusRevision + 1
    BY NextRevisionKeeps DEF s
  <2> QED
    BY <2>1, <2>2, <2>3, <2>4
<1>2. ASSUME NEW t \in Incoming, t.stored = s.stored, t.statusRevision = s.statusRevision,
             t.statusPending = s.statusPending, t.state # "submitted",
             t.controlReceiptQueued = s.controlReceiptQueued,
             t.artifactAcknowledged = s.artifactAcknowledged,
             \/ t.artifactEpoch = s.artifactEpoch /\ t.state # "completed"
             \/ t.artifactEpoch > 0 /\ t.state = "completed"
      PROVE  Advances(r, t)
  BY <1>1, <1>2 DEF Advances, Sound
<1> DEFINE Derived(t) ==
             /\ t \in Incoming /\ t.stored = s.stored /\ t.statusRevision = s.statusRevision
             /\ t.statusPending = s.statusPending /\ t.state # "submitted"
             /\ t.controlReceiptQueued = s.controlReceiptQueued
             /\ t.artifactAcknowledged = s.artifactAcknowledged
<1> HIDE DEF s
<1>3. Advances(r, startIncoming(r))
  <2> DEFINE t == startIncoming(r)
  <2>1. Derived(t) /\ t.artifactEpoch = s.artifactEpoch /\ t.state # "completed"
    BY <1>1 DEF startIncoming, s, Incoming, TaskState, SafeErrorCode
  <2> QED
    BY <2>1, <1>2
<1>4. Advances(r, resumeIncoming(r))
  <2> DEFINE t == resumeIncoming(r)
  <2>1. Derived(t) /\ t.artifactEpoch = s.artifactEpoch /\ t.state # "completed"
    BY <1>1 DEF resumeIncoming, s, Incoming, TaskState, SafeErrorCode
  <2> QED
    BY <2>1, <1>2
<1>5. Advances(r, rejectIncoming(r))
  <2> DEFINE t == rejectIncoming(r)
  <2>1. Derived(t) /\ t.artifactEpoch = s.artifactEpoch /\ t.state # "completed"
    BY <1>1 DEF rejectIncoming, s, Incoming, TaskState, SafeErrorCode
  <2> QED
    BY <2>1, <1>2
<1>6. ASSUME NEW byRequester \in BOOLEAN
      PROVE  Advances(r, cancelIncoming(r, byRequester))
  <2> DEFINE t == cancelIncoming(r, byRequester)
  <2>1. Derived(t) /\ t.artifactEpoch = s.artifactEpoch /\ t.state # "completed"
    BY <1>1 DEF cancelIncoming, s, Incoming, TaskState, SafeErrorCode
  <2> QED
    BY <2>1, <1>2
<1>7. Advances(r, expireIncoming(r))
  <2> DEFINE t == expireIncoming(r)
  <2>1. Derived(t) /\ t.artifactEpoch = s.artifactEpoch /\ t.state # "completed"
    BY <1>1 DEF expireIncoming, s, Incoming, TaskState, SafeErrorCode
  <2> QED
    BY <2>1, <1>2
<1>8. ASSUME NEW h
      PROVE  Advances(r, interruptIncoming(r, h))
  <2> DEFINE t == interruptIncoming(r, h)
  <2>1. Derived(t) /\ t.artifactEpoch = s.artifactEpoch /\ t.state # "completed"
    BY <1>1 DEF interruptIncoming, s, Incoming, TaskState, SafeErrorCode
  <2> QED
    BY <2>1, <1>2
<1>9. ASSUME NEW result, NEW h, NEW epoch \in Nat, epoch > 0
      PROVE  Advances(r, finishSingleStageExecution(r, result, h, epoch))
  <2> DEFINE t == finishSingleStageExecution(r, result, h, epoch)
  <2>1. CASE result = "completed"
    <3>1. Derived(t) /\ t.artifactEpoch = epoch /\ t.state = "completed"
      BY <1>1, <2>1 DEF finishSingleStageExecution, s, Incoming, TaskState, SafeErrorCode
    <3> QED
      BY <3>1, <1>2, <1>9
  <2>2. CASE result = "auth_required"
    <3>1. t = [s EXCEPT !.state = "auth_required", !.approval = "pending",
                        !.safeErrorCode = "other"]
      BY <2>2 DEF finishSingleStageExecution, s
    <3> HIDE DEF t
    <3>2. Derived(t) /\ t.artifactEpoch = s.artifactEpoch /\ t.state # "completed"
      BY <1>1, <3>1 DEF Incoming, TaskState, SafeErrorCode
    <3> QED
      BY <3>2, <1>2 DEF t
  <2>3. CASE result \notin {"completed", "auth_required"}
    <3>1. Derived(t) /\ t.artifactEpoch = s.artifactEpoch /\ t.state # "completed"
      BY <1>1, <2>3 DEF finishSingleStageExecution, s, Incoming, TaskState, SafeErrorCode
    <3> QED
      BY <3>1, <1>2
  <2> QED
    BY <2>1, <2>2, <2>3
<1> QED
  BY <1>3, <1>4, <1>5, <1>6, <1>7, <1>8, <1>9

(* A step of a Task that has not ended makes a later record.               *)
LEMMA AdvancedIsLater ==
  ASSUME NEW b \in Incoming, ~isTerminalTaskState(b.state), NEW r, Advances(b, r)
  PROVE  Later(b, r)
BY DEF Advances, Later, Supersedes, Incoming

(* The expiry sweep of the host.                                           *)
LEMMA ExpiryAdvances ==
  ASSUME NEW r \in Incoming, Sound(r), NEW d \in BOOLEAN
  PROVE  LET e == expireDueIncoming(r, d)
         IN  /\ e \in Incoming /\ Sound(e) /\ Later(r, e) /\ Supersedes(r, e)
             /\ e = r \/ (~isTerminalTaskState(r.state) /\ e.state = "rejected")
             /\ d /\ r.stored => isTerminalTaskState(e.state)
             /\ e.controlReceiptQueued = r.controlReceiptQueued
<1>1. CASE r.stored /\ d /\ ~isTerminalTaskState(r.state)
  <2>1. Advances(r, expireIncoming(r))
    BY <1>1, HostStepAdvances
  <2>2. expireDueIncoming(r, d) = expireIncoming(r)
    BY <1>1 DEF expireDueIncoming
  <2>3. Later(r, expireIncoming(r))
    BY <1>1, <2>1, AdvancedIsLater
  <2>4. expireIncoming(r).state = "rejected"
    BY DEF expireIncoming, nextRevision, Incoming
  <2> QED
    BY <1>1, <2>1, <2>2, <2>3, <2>4 DEF Advances, Later, isTerminalTaskState, Terminal
<1>2. CASE ~(r.stored /\ d /\ ~isTerminalTaskState(r.state))
  <2>1. expireDueIncoming(r, d) = r
    BY <1>2 DEF expireDueIncoming
  <2>2. Later(r, r) /\ Supersedes(r, r)
    BY LaterChain
  <2>3. d /\ r.stored => isTerminalTaskState(r.state)
    BY <1>2
  <2> QED
    BY <2>1, <2>2, <2>3
<1> QED
  BY <1>1, <1>2

(* The sweep sees the Task only.                                           *)
LEMMA ExpirySame ==
  ASSUME NEW r \in Incoming, NEW t \in Incoming, SameTask(r, t), NEW d
  PROVE  SameTask(expireDueIncoming(r, d), expireDueIncoming(t, d))
BY DEF SameTask, expireDueIncoming, expireIncoming, nextRevision, Incoming

-----------------------------------------------------------------------------
(* The executor.                                                            *)

Idle == [task |-> "none", active |-> FALSE]

(* Runs k, results f, handle h and record t agree: a run and a result      *)
(* belong to an epoch of the handle, the result of the current epoch means *)
(* that its run is over, a run has a Task in progress, cancelled or        *)
(* expired, and a run whose record a full store dropped is past its expiry. *)
RunsAgree(t, h, k, f, d) ==
  /\ k.task = "none" => ~k.active
  /\ k.task # "none" => h.epoch > 0
  /\ \A e \in f : /\ 0 < e.epoch /\ e.epoch <= h.epoch
                  /\ e.epoch = h.epoch => k.task # "working"
  /\ k.task = "working" => t.stored \/ d
  /\ k.task = "working" /\ t.stored => t.state \in {"working", "canceled", "rejected"}

(* A Task in progress has a run or a result on its way.                    *)
HasRun(t, h, k, f) ==
  t.stored /\ t.state = "working" =>
    k.task # "none" \/ [epoch |-> h.epoch, result |-> "none"] \in f

RunsInv ==
  /\ ~up[Host] => kernel = Idle /\ finishes = {}
  /\ RunsAgree(incoming, handle, kernel, finishes, due[Host])
  /\ up[Host] => HasRun(incoming, handle, kernel, finishes)

(* A stopped process runs nothing, and nothing it had under way survives.  *)
LEMMA StoppedAgrees ==
  ASSUME NEW t, NEW h, NEW d
  PROVE  RunsAgree(t, h, Idle, {}, d)
BY DEF RunsAgree, Idle

(* An operation of the host that leaves the Task of t, with the executor's *)
(* state h, k and f.                                                       *)
LEMMA HostEndsRuns ==
  ASSUME TypeOK, up[Host], NEW t, NEW D, NEW S \in SUBSET HostSays(t, D), NEW h, NEW k, NEW f,
         HostEnds(S, h, k, f), RunsAgree(t, h, k, f, due[Host]), HasRun(t, h, k, f)
  PROVE  RunsInv'
<1>1. PICK o \in S : /\ incoming' = Kept(o)
                     /\ handle' = h
                     /\ HostMemory(o, k, f)
                     /\ Survives(Host, o)
                     /\ UNCHANGED due
  BY DEF HostEnds
<1>2. up' = [up EXCEPT ![Host] = o.on # "crash"] /\ Host \in Node
  BY <1>1 DEF Survives, Node
<1>3. CASE o.on = "crash"
  <2>1. kernel' = Idle /\ finishes' = {} /\ ~up'[Host]
    BY <1>1, <1>2, <1>3 DEF HostMemory, Idle, TypeOK
  <2>2. RunsAgree(incoming', handle', kernel', finishes', due'[Host])
    BY <2>1, StoppedAgrees
  <2> QED
    BY <2>1, <2>2 DEF RunsInv, Idle, RunsAgree, HasRun
<1>4. CASE o.on # "crash"
  <2>1. kernel' = k /\ finishes' = f /\ up'[Host] /\ incoming' = o.rec
    BY <1>1, <1>2, <1>4 DEF HostMemory, Kept, TypeOK
  <2>2. SameTask(o.rec, t)
    BY <1>4 DEF HostSays
  <2> QED
    BY <1>1, <2>1, <2>2 DEF RunsInv, SameTask, RunsAgree, HasRun
<1> QED
  BY <1>3, <1>4

(* The states each operation leads to.                                     *)
LEMMA StatesReached ==
  ASSUME NEW r \in Incoming
  PROVE  /\ startIncoming(r).state = "working" /\ resumeIncoming(r).state = "working"
         /\ rejectIncoming(r).state = "rejected"
         /\ \A b : cancelIncoming(r, b).state = "canceled"
         /\ \A h : interruptIncoming(r, h).state \in {"input_required", "failed"}
         /\ \A result, h, epoch : finishSingleStageExecution(r, result, h, epoch).state \in
              {"completed", "auth_required", "input_required", "canceled", "failed"}
<1> DEFINE s == nextRevision(r)
<1>1. /\ startIncoming(r).state = "working" /\ resumeIncoming(r).state = "working"
      /\ rejectIncoming(r).state = "rejected"
      /\ \A b : cancelIncoming(r, b).state = "canceled"
      /\ \A h : interruptIncoming(r, h).state \in {"input_required", "failed"}
  BY DEF startIncoming, resumeIncoming, rejectIncoming, cancelIncoming, interruptIncoming,
         nextRevision, Incoming
<1>2. s \in Incoming
  BY NextRevisionKeeps
<1> HIDE DEF s
<1>3. ASSUME NEW result, NEW h, NEW epoch
      PROVE  finishSingleStageExecution(r, result, h, epoch).state \in
               {"completed", "auth_required", "input_required", "canceled", "failed"}
  <2>1. CASE result = "completed"
    BY <1>2, <2>1 DEF finishSingleStageExecution, Incoming, s
  <2>2. CASE result = "auth_required"
    <3>1. finishSingleStageExecution(r, result, h, epoch) =
            [s EXCEPT !.state = "auth_required", !.approval = "pending",
                      !.safeErrorCode = "other"]
      BY <2>2 DEF finishSingleStageExecution, s
    <3> QED
      BY <1>2, <3>1 DEF Incoming
  <2>3. CASE result \notin {"completed", "auth_required"}
    BY <1>2, <2>3 DEF finishSingleStageExecution, Incoming, s
  <2> QED
    BY <2>1, <2>2, <2>3
<1> QED
  BY <1>1, <1>3

(* A new execution: no run is alive, and none of an older epoch counts.    *)
LEMMA StartExecutionRuns ==
  ASSUME TypeOK, RunsInv, up[Host], NEW r \in Incoming, Sound(r), r.stored,
         r.state = "working", kernel.task # "working",
         NEW connected, StartExecution(r, connected)
  PROVE  RunsInv'
<1> DEFINE n == handle.epoch + 1
           h == prepareHandle(handle)
           told == [epoch |-> n, result |-> "none"]
           run == [task |-> "working", active |-> TRUE]
           died == [Start(r, incoming) EXCEPT !.on = "crash", !.failures = 1]
           S == trySendPendingForRecord(Start(r, r), connected, FALSE)
<1>1. /\ handle.epoch \in Nat /\ n \in Nat /\ n > 0 /\ h.epoch = n /\ incoming \in Incoming
      /\ \A e \in finishes : e.epoch \in Nat /\ e.epoch < n
  BY DEF TypeOK, Handle, Finish, prepareHandle, RunsInv, RunsAgree
<1>2. S \subseteq HostSays(r, {r})
  BY SavedThenSays
<1>3. RunsAgree(r, h, kernel, finishes \cup {told}, due[Host])
  <2>1. kernel.task = "none" => ~kernel.active
    BY DEF RunsInv, RunsAgree
  <2>2. \A e \in finishes \cup {told} : 0 < e.epoch /\ e.epoch <= n
    BY <1>1 DEF RunsInv, RunsAgree
  <2> QED
    BY <1>1, <2>1, <2>2 DEF RunsAgree
<1>4. HasRun(r, h, kernel, finishes \cup {told})
  BY <1>1 DEF HasRun
<1>5. RunsAgree(r, h, run, finishes, due[Host]) /\ HasRun(r, h, run, finishes)
  <2>1. \A e \in finishes : 0 < e.epoch /\ e.epoch <= n /\ e.epoch # n
    BY <1>1 DEF RunsInv, RunsAgree
  <2> QED
    BY <1>1, <2>1 DEF RunsAgree, HasRun
<1> HIDE DEF h, S
<1>6. ASSUME HostEnds(S, h, kernel, finishes \cup {told})
      PROVE  RunsInv'
  BY <1>2, <1>3, <1>4, <1>6, HostEndsRuns
<1>7. ASSUME HostEnds(S, h, run, finishes)
      PROVE  RunsInv'
  BY <1>2, <1>5, <1>7, HostEndsRuns
<1>8. ASSUME HostEnds({died}, h, kernel, finishes)
      PROVE  RunsInv'
  <2>1. /\ died \in Outcome(Incoming) /\ died.disk = incoming
        /\ died.sent = {} /\ died.on = "crash"
    BY <1>1 DEF Start, Outcome
  <2> HIDE DEF died
  <2>2. PICK o \in {died} : /\ incoming' = Kept(o) /\ handle' = h
                            /\ HostMemory(o, kernel, finishes) /\ Survives(Host, o)
    BY <1>8 DEF HostEnds
  <2>3. kernel' = Idle /\ finishes' = {} /\ ~up'[Host]
    BY <2>1, <2>2 DEF HostMemory, Idle, TypeOK, Survives, Node
  <2>4. RunsAgree(incoming', handle', kernel', finishes', due'[Host])
    BY <2>3, StoppedAgrees
  <2> QED
    BY <2>3, <2>4 DEF RunsInv, Idle, RunsAgree, HasRun
<1>9. \/ \E e \in executeOutcomes(n) : HostEnds(S, h, e.kernel, e.finishes)
      \/ HostEnds({died}, h, kernel, finishes)
  BY DEF StartExecution, h, S
<1>10. ASSUME NEW e \in executeOutcomes(n)
       PROVE  \/ e.kernel = kernel /\ e.finishes = finishes \cup {told}
              \/ e.kernel = run /\ e.finishes = finishes
  <2>1. \/ e = [kernel |-> kernel, finishes |-> finishes \cup {told}]
        \/ e = [kernel |-> run, finishes |-> finishes]
    BY DEF executeOutcomes
  <2> HIDE DEF told, run
  <2> QED
    BY <2>1
<1> QED
  BY <1>6, <1>7, <1>8, <1>9, <1>10

(* The host user's operations.                                             *)
LEMMA HostOperationsRun ==
  ASSUME TypeOK, RunsInv, Sound(incoming), NEW connected,
         \/ Approve(connected) \/ Resume(connected) \/ Reject(connected)
         \/ HostCancel(connected)
  PROVE  RunsInv'
<1>1. /\ incoming \in Incoming /\ handle.epoch \in Nat
      /\ RunsAgree(incoming, handle, kernel, finishes, due[Host])
  BY DEF TypeOK, Handle, RunsInv
<1>2. ASSUME NEW r, ~isTerminalTaskState(incoming.state), Advances(incoming, r), incoming.stored
      PROVE  r \in Incoming /\ Sound(r) /\ r.stored
  BY <1>2 DEF Advances
<1>3. CASE Approve(connected)
  <2>1. incoming.stored /\ ~isTerminalTaskState(incoming.state) /\ kernel.task # "working"
    BY <1>1, <1>3
    DEF Approve, requireMutableIncomingTask, isTerminalTaskState, Terminal, RunsAgree
  <2>2. Advances(incoming, startIncoming(incoming)) /\ startIncoming(incoming).state = "working"
    BY <1>1, <2>1, HostStepAdvances, StatesReached
  <2> QED
    BY <1>2, <1>3, <2>1, <2>2, StartExecutionRuns DEF Approve
<1>4. CASE Resume(connected)
  <2>1. incoming.stored /\ ~isTerminalTaskState(incoming.state) /\ kernel.task # "working"
    BY <1>1, <1>4 DEF Resume, isTerminalTaskState, Terminal, RunsAgree
  <2>2. Advances(incoming, resumeIncoming(incoming)) /\ resumeIncoming(incoming).state = "working"
    BY <1>1, <2>1, HostStepAdvances, StatesReached
  <2> QED
    BY <1>2, <1>4, <2>1, <2>2, StartExecutionRuns DEF Resume
<1>5. CASE Reject(connected)
  <2> DEFINE r == rejectIncoming(incoming)
             S == trySendPendingForRecord(Start(r, r), connected, FALSE)
  <2>1. /\ incoming.stored /\ ~isTerminalTaskState(incoming.state) /\ up[Host]
        /\ HostEnds(S, handle, kernel, finishes)
    BY <1>5 DEF Reject, requireMutableIncomingTask, isTerminalTaskState, Terminal
  <2>2. Advances(incoming, r) /\ r.state = "rejected"
    BY <1>1, <2>1, HostStepAdvances, StatesReached
  <2> HIDE DEF r
  <2>3. r \in Incoming /\ Sound(r) /\ r.stored
    BY <1>2, <2>1, <2>2
  <2>4. S \subseteq HostSays(r, {r})
    BY <2>3, SavedThenSays
  <2>5. RunsAgree(r, handle, kernel, finishes, due[Host]) /\ HasRun(r, handle, kernel, finishes)
    BY <1>1, <2>2, <2>3 DEF RunsAgree, HasRun
  <2> HIDE DEF S
  <2> QED
    BY <2>1, <2>4, <2>5, HostEndsRuns
<1>6. CASE HostCancel(connected)
  <2> DEFINE r == cancelIncoming(incoming, FALSE)
             h == cancelExecution(handle)
             S == trySendPendingForRecord(Start(r, r), connected, FALSE)
  <2>1. /\ incoming.stored /\ ~isTerminalTaskState(incoming.state) /\ up[Host]
        /\ HostEnds(S, h, kernel, finishes)
    BY <1>6 DEF HostCancel
  <2>2. Advances(incoming, r) /\ r.state = "canceled"
    BY <1>1, <2>1, HostStepAdvances, StatesReached
  <2>3. h.epoch = handle.epoch
    BY DEF cancelExecution, TypeOK, Handle
  <2> HIDE DEF r, h
  <2>4. r \in Incoming /\ Sound(r) /\ r.stored
    BY <1>2, <2>1, <2>2
  <2>5. S \subseteq HostSays(r, {r})
    BY <2>4, SavedThenSays
  <2>6. RunsAgree(r, h, kernel, finishes, due[Host]) /\ HasRun(r, h, kernel, finishes)
    BY <1>1, <2>2, <2>3, <2>4 DEF RunsAgree, HasRun
  <2> HIDE DEF S
  <2> QED
    BY <2>1, <2>5, <2>6, HostEndsRuns
<1> QED
  BY <1>3, <1>4, <1>5, <1>6

(* finishExecution: the result of the current epoch, or one that is over.  *)
LEMMA FinishExecutionRuns ==
  ASSUME TypeOK, RunsInv, Sound(incoming), NEW connected, NEW f \in finishes,
         FinishExecution(f, connected)
  PROVE  RunsInv'
<1>1. /\ incoming \in Incoming /\ handle.epoch \in Nat /\ f.epoch \in Nat /\ up[Host]
      /\ f.epoch > 0
      /\ RunsAgree(incoming, handle, kernel, finishes, due[Host])
      /\ HasRun(incoming, handle, kernel, finishes)
  BY DEF TypeOK, Handle, RunsInv, Finish, FinishExecution, RunsAgree
<1>2. CASE ~incoming.stored \/ isTerminalTaskState(incoming.state) \/ handle.epoch # f.epoch
  <2>1. HostEnds({Start(incoming, incoming)}, handle, kernel, finishes \ {f})
    BY <1>2 DEF FinishExecution
  <2>2. {Start(incoming, incoming)} \subseteq HostSays(incoming, {incoming})
    BY <1>1, HostSaysStarts
  <2>3. RunsAgree(incoming, handle, kernel, finishes \ {f}, due[Host])
    BY <1>1 DEF RunsAgree
  <2>4. HasRun(incoming, handle, kernel, finishes \ {f})
    BY <1>1, <1>2 DEF HasRun, isTerminalTaskState, Terminal
  <2> QED
    BY <1>1, <2>1, <2>2, <2>3, <2>4, HostEndsRuns
<1>3. CASE ~(~incoming.stored \/ isTerminalTaskState(incoming.state) \/ handle.epoch # f.epoch)
  <2> DEFINE r == finishSingleStageExecution(incoming, f.result, handle, f.epoch)
             S == trySendPendingForRecord(Start(r, r), connected, FALSE)
  <2>1. HostEnds(S, handle, kernel, finishes \ {f})
    BY <1>3 DEF FinishExecution
  <2>2. Advances(incoming, r)
    BY <1>1, <1>3, HostStepAdvances
  <2>3. r.state # "working"
    BY <1>1, StatesReached
  <2> HIDE DEF r
  <2>4. r \in Incoming /\ Sound(r) /\ r.stored
    BY <1>3, <2>2 DEF Advances
  <2>5. S \subseteq HostSays(r, {r})
    BY <2>4, SavedThenSays
  <2>6. kernel.task # "working"
    BY <1>1, <1>3 DEF RunsAgree
  <2>7. RunsAgree(r, handle, kernel, finishes \ {f}, due[Host])
          /\ HasRun(r, handle, kernel, finishes \ {f})
    BY <1>1, <2>3, <2>6 DEF RunsAgree, HasRun
  <2> HIDE DEF S
  <2> QED
    BY <1>1, <2>1, <2>5, <2>7, HostEndsRuns
<1> QED
  BY <1>2, <1>3

-----------------------------------------------------------------------------
(* The flush of the host.                                                   *)

(* What the reconciliation makes of the record, before the expiry sweep.   *)
Settled == incoming.state = "working" /\ kernel.task \notin {"none", "working"}

reconciled(h) ==
  IF incoming.state # "working" \/ kernel.task = "working" THEN incoming
  ELSE IF kernel.task = "none" THEN interruptIncoming(incoming, h)
  ELSE finishSingleStageExecution(incoming, kernel.task, h, h.epoch)

flushed(h) == expireDueIncoming(reconciled(h), due[Host])

(* Only the outcome of a settled run is saved before something is sent.    *)
Disks(h) == {IF Settled THEN reconciled(h) ELSE incoming, flushed(h)}

(* The reconciled and the flushed record follow the stored one.            *)
LEMMA FlushedRecords ==
  ASSUME TypeOK, RunsInv, Sound(incoming), incoming.stored,
         NEW h \in Handle, h.epoch = handle.epoch
  PROVE  /\ reconciled(h) \in Incoming /\ Sound(reconciled(h)) /\ reconciled(h).stored
         /\ Later(incoming, reconciled(h))
         /\ reconciled(h).state = "working" => kernel.task = "working"
         /\ flushed(h) \in Incoming /\ Sound(flushed(h)) /\ flushed(h).stored
         /\ Later(incoming, flushed(h)) /\ Supersedes(reconciled(h), flushed(h))
         /\ flushed(h) = reconciled(h) \/ flushed(h).state = "rejected"
         /\ flushed(h).controlReceiptQueued = reconciled(h).controlReceiptQueued
         /\ reconciled(h).controlReceiptQueued = incoming.controlReceiptQueued
<1>1. incoming \in Incoming /\ h.epoch \in Nat /\ due[Host] \in BOOLEAN
  BY DEF TypeOK, Handle, Node
<1>2. /\ reconciled(h) \in Incoming /\ Sound(reconciled(h)) /\ reconciled(h).stored
      /\ Later(incoming, reconciled(h))
      /\ reconciled(h).state = "working" => kernel.task = "working"
      /\ reconciled(h).controlReceiptQueued = incoming.controlReceiptQueued
  <2>1. CASE incoming.state # "working" \/ kernel.task = "working"
    BY <1>1, <2>1, LaterChain DEF reconciled
  <2>2. CASE incoming.state = "working" /\ kernel.task = "none"
    <3>1. reconciled(h) = interruptIncoming(incoming, h)
      BY <2>2 DEF reconciled
    <3>2. ~isTerminalTaskState(incoming.state)
      BY <2>2 DEF isTerminalTaskState, Terminal
    <3>3. Advances(incoming, reconciled(h)) /\ reconciled(h).state # "working"
      BY <1>1, <3>1, <3>2, HostStepAdvances, StatesReached
    <3> QED
      BY <1>1, <3>2, <3>3, AdvancedIsLater DEF Advances
  <2>3. CASE Settled
    <3>1. reconciled(h) = finishSingleStageExecution(incoming, kernel.task, h, h.epoch)
      BY <2>3 DEF reconciled, Settled
    <3>2. ~isTerminalTaskState(incoming.state) /\ h.epoch > 0
      BY <2>3 DEF Settled, isTerminalTaskState, Terminal, RunsInv, RunsAgree
    <3>3. Advances(incoming, reconciled(h)) /\ reconciled(h).state # "working"
      BY <1>1, <3>1, <3>2, HostStepAdvances, StatesReached
    <3> QED
      BY <1>1, <3>2, <3>3, AdvancedIsLater DEF Advances
  <2> QED
    BY <2>1, <2>2, <2>3 DEF Settled
<1>3. /\ flushed(h) \in Incoming /\ Sound(flushed(h)) /\ Later(reconciled(h), flushed(h))
      /\ Supersedes(reconciled(h), flushed(h))
      /\ flushed(h) = reconciled(h) \/ flushed(h).state = "rejected"
      /\ flushed(h).controlReceiptQueued = reconciled(h).controlReceiptQueued
  BY <1>1, <1>2, ExpiryAdvances DEF flushed
<1>4. Later(incoming, flushed(h)) /\ flushed(h).stored
  BY <1>1, <1>2, <1>3, LaterChain DEF Later, Supersedes
<1> QED
  BY <1>2, <1>3, <1>4

(* The reconciliation says the reconciled record.                          *)
LEMMA ReconcileSays ==
  ASSUME TypeOK, RunsInv, Sound(incoming), incoming.stored,
         NEW h \in Handle, h.epoch = handle.epoch, NEW connected, NEW elapsed,
         NEW o \in reconcileInterruptedExecutions(h, connected, elapsed)
  PROVE  /\ o.on \in {"run", "crash"}
         /\ o \in HostSays(reconciled(h), {IF Settled THEN reconciled(h) ELSE incoming})
<1> DEFINE r == reconciled(h)
<1>1. incoming \in Incoming /\ r \in Incoming /\ Sound(r)
  BY FlushedRecords DEF TypeOK
<1>2. CASE ~Settled
  <2>1. o = Start(r, incoming)
    BY <1>2 DEF reconcileInterruptedExecutions, reconciled, Settled
  <2> HIDE DEF r
  <2>2. o \in HostSays(r, {incoming}) /\ o.on = "run"
    BY <1>1, <2>1, HostSaysStarts
  <2> QED
    BY <1>2, <2>2 DEF r
<1>3. CASE Settled
  <2> DEFINE S == trySendPendingForRecord(Start(r, r), connected, elapsed)
  <2>1. S \subseteq HostSays(r, {r})
    BY <1>1, SavedThenSays
  <2>2. reconcileInterruptedExecutions(h, connected, elapsed) =
          {[p EXCEPT !.on = IF @ = "return" THEN "run" ELSE @] : p \in S}
    BY <1>3 DEF reconcileInterruptedExecutions, reconciled, Settled
  <2> HIDE DEF S, r
  <2>3. PICK p \in S : o = [p EXCEPT !.on = IF @ = "return" THEN "run" ELSE @]
    BY <2>2
  <2>4. p \in Outcome(Incoming)
    BY <2>1 DEF HostSays
  <2>5. /\ o \in Outcome(Incoming) /\ o.rec = p.rec /\ o.disk = p.disk /\ o.sent = p.sent
        /\ o.on \in {"run", "crash"} /\ (o.on = "crash" => p.on = "crash")
        /\ (p.on = "crash" => o.on = "crash")
    BY <2>3, <2>4 DEF Outcome
  <2>6. o \in HostSays(r, {r})
    BY <2>1, <2>5 DEF HostSays
  <2> QED
    BY <1>3, <2>5, <2>6 DEF r
<1> QED
  BY <1>2, <1>3

(* The flush says the flushed record.                                      *)
LEMMA FlushSays ==
  ASSUME TypeOK, RunsInv, Sound(incoming), NEW connected, NEW elapsed,
         HostFlush(connected, elapsed)
  PROVE  LET h == reconcileHandle(handle, kernel)
         IN  /\ up[Host] /\ incoming.stored /\ h \in Handle /\ h.epoch = handle.epoch
             /\ \E S \in SUBSET HostSays(flushed(h), Disks(h)) :
                  HostEnds(S, h, kernel, finishes)
<1> DEFINE h == reconcileHandle(handle, kernel)
           t == flushed(h)
           D == Disks(h)
           S1 == reconcileInterruptedExecutions(h, connected, elapsed)
           S2 == {[o EXCEPT !.rec = IF o.on = "run" THEN expireDueIncoming(@, due[Host])
                                    ELSE @] : o \in S1}
           S3 == Then(S2, LAMBDA p : sendReceipt(p, connected))
           S4 == Then(S3, LAMBDA p : sendControlReceipt(p, connected))
           S5 == Then(S4, LAMBDA p : trySendPendingForRecord(p, connected, elapsed))
<1>1. /\ up[Host] /\ incoming.stored /\ HostEnds(S5, h, kernel, finishes)
  BY DEF HostFlush
<1>2. h \in Handle /\ h.epoch = handle.epoch /\ due[Host] \in BOOLEAN
  BY HandleTypes DEF reconcileHandle, TypeOK, Handle, Node
<1> HIDE DEF h
<1>3. /\ reconciled(h) \in Incoming /\ Sound(reconciled(h))
      /\ t \in Incoming /\ Sound(t) /\ Supersedes(reconciled(h), t)
      /\ t.controlReceiptQueued = reconciled(h).controlReceiptQueued
  BY <1>1, <1>2, FlushedRecords
<1>4. /\ t \in D /\ {IF Settled THEN reconciled(h) ELSE incoming} \subseteq D
  BY DEF Disks
<1>5. \A o \in S1 :
        /\ o.on \in {"run", "crash"}
        /\ o \in HostSays(reconciled(h), {IF Settled THEN reconciled(h) ELSE incoming})
  BY <1>1, <1>2, ReconcileSays
<1> HIDE DEF S1, D
<1>6. S2 \subseteq HostSays(t, D)
  <2>1. SUFFICES ASSUME NEW o \in S1
                 PROVE  [o EXCEPT !.rec = IF o.on = "run" THEN expireDueIncoming(@, due[Host])
                                          ELSE @] \in HostSays(t, D)
    OBVIOUS
  <2> DEFINE e == IF o.on = "run" THEN expireDueIncoming(o.rec, due[Host]) ELSE o.rec
             p == [o EXCEPT !.rec = e]
  <2>2. /\ o \in Outcome(Incoming) /\ o.rec \in Incoming /\ o.on \in {"run", "crash"}
        /\ (o.on # "crash" => SameTask(o.rec, reconciled(h)))
        /\ (\E d \in D : SameTask(o.disk, d))
        /\ (\A m \in o.sent : m \in Message /\ Says(reconciled(h), m))
    BY <1>4, <1>5 DEF HostSays, Outcome
  <2>3. e \in Incoming /\ (o.on = "run" => SameTask(e, t))
    <3>1. CASE o.on = "run"
      <4>1. SameTask(o.rec, reconciled(h)) /\ Sound(o.rec)
        BY <1>3, <2>2, <3>1, SameSound
      <4>2. expireDueIncoming(o.rec, due[Host]) \in Incoming
        BY <1>2, <2>2, <4>1, ExpiryAdvances
      <4> QED
        BY <1>3, <2>2, <3>1, <4>1, <4>2, ExpirySame DEF flushed
    <3>2. CASE o.on # "run"
      BY <2>2, <3>2
    <3> QED
      BY <3>1, <3>2
  <2> HIDE DEF e
  <2>4. /\ p \in Outcome(Incoming) /\ p.rec = e /\ p.disk = o.disk /\ p.sent = o.sent
        /\ p.on = o.on
    BY <2>2, <2>3 DEF Outcome
  <2> HIDE DEF p, t
  <2>5. \A m \in o.sent : Says(t, m)
    BY <1>3, <2>2, AnnouncesLater DEF Says
  <2>6. p \in HostSays(t, D)
    BY <2>2, <2>3, <2>4, <2>5 DEF HostSays
  <2> QED
    BY <2>6 DEF p, e
<1> HIDE DEF S2, t
<1>7. S3 \subseteq HostSays(t, D)
  <2>1. \A p \in HostSays(t, D) : p.on = "run" => sendReceipt(p, connected) \subseteq HostSays(t, D)
    BY <1>4, SendReceiptSays
  <2> QED
    BY <1>6, <2>1 DEF Then
<1> HIDE DEF S3
<1>8. S4 \subseteq HostSays(t, D)
  <2>1. \A p \in HostSays(t, D) :
          p.on = "run" => sendControlReceipt(p, connected) \subseteq HostSays(t, D)
    BY <1>3, <1>4, SendControlReceiptSays
  <2> QED
    BY <1>7, <2>1 DEF Then
<1> HIDE DEF S4
<1>9. S5 \subseteq HostSays(t, D)
  <2>1. \A p \in HostSays(t, D) :
          p.on = "run" => trySendPendingForRecord(p, connected, elapsed) \subseteq HostSays(t, D)
    BY <1>3, <1>4, SendPendingSays
  <2> QED
    BY <1>8, <2>1 DEF Then
<1> HIDE DEF S5
<1> QED
  BY <1>1, <1>2, <1>9 DEF h, t, D

(* The flush and the runs.                                                 *)
LEMMA HostFlushRuns ==
  ASSUME TypeOK, RunsInv, Sound(incoming), NEW connected, NEW elapsed,
         HostFlush(connected, elapsed)
  PROVE  RunsInv'
<1> DEFINE h == reconcileHandle(handle, kernel)
           t == flushed(h)
<1>1. up[Host] /\ incoming.stored /\ h \in Handle /\ h.epoch = handle.epoch
  BY FlushSays
<1>2. PICK S \in SUBSET HostSays(t, Disks(h)) : HostEnds(S, h, kernel, finishes)
  BY FlushSays
<1> HIDE DEF h
<1>3. /\ Later(incoming, reconciled(h)) /\ t.stored /\ reconciled(h).stored
      /\ t = reconciled(h) \/ t.state = "rejected"
      /\ reconciled(h).state = "working" => kernel.task = "working"
  BY <1>1, FlushedRecords
<1>4. RunsAgree(incoming, handle, kernel, finishes, due[Host])
  BY DEF RunsInv
<1>5. kernel.task = "working" => t = incoming \/ t.state = "rejected"
  BY <1>3 DEF reconciled
<1>6. RunsAgree(t, h, kernel, finishes, due[Host])
  BY <1>1, <1>3, <1>4, <1>5 DEF RunsAgree
<1>7. HasRun(t, h, kernel, finishes)
  BY <1>3 DEF HasRun
<1> QED
  BY <1>1, <1>2, <1>6, <1>7, HostEndsRuns

(* Messages at the host and the runs: a new record for a living request    *)
(* has no run, because the run of a dropped record is past its expiry.     *)
LEMMA HostReceivesRuns ==
  ASSUME TypeOK, RunsInv, Sound(incoming), NEW m \in net,
         \/ \E admission \in Admission : ReceiveRequest(m, admission)
         \/ ReceiveCancel(m)
         \/ ReceiveStatusReceipt(m) \/ ReceiveArtifactReceipt(m)
  PROVE  RunsInv'
<1>1. /\ incoming \in Incoming /\ incoming.stored \in BOOLEAN /\ due[Host] \in BOOLEAN
      /\ RunsAgree(incoming, handle, kernel, finishes, due[Host])
      /\ up[Host] => HasRun(incoming, handle, kernel, finishes)
      /\ Host \in Node /\ up \in [Node -> BOOLEAN]
  BY DEF TypeOK, RunsInv, Incoming, Node
<1>2. ASSUME NEW r, NEW R, NEW o \in R, NEW h,
             \A x \in R : x.rec.stored = r.stored /\ x.rec.state = r.state,
             incoming' = Kept(o), HostMemory(o, kernel, finishes), Survives(Host, o),
             handle' = h, due' = due,
             RunsAgree(r, h, kernel, finishes, due[Host]), HasRun(r, h, kernel, finishes)
      PROVE  RunsInv'
  <2>1. CASE o.on = "crash"
    <3>1. kernel' = Idle /\ finishes' = {} /\ ~up'[Host]
      BY <1>1, <1>2, <2>1 DEF HostMemory, Idle, Survives
    <3>2. RunsAgree(incoming', handle', kernel', finishes', due'[Host])
      BY <3>1, StoppedAgrees
    <3> QED
      BY <3>1, <3>2 DEF RunsInv, Idle, RunsAgree, HasRun
  <2>2. CASE o.on # "crash"
    <3>1. kernel' = kernel /\ finishes' = finishes /\ up'[Host] /\ incoming' = o.rec
      BY <1>1, <1>2, <2>2 DEF HostMemory, Survives, Kept
    <3> QED
      BY <1>2, <3>1 DEF RunsInv, RunsAgree, HasRun
  <2> QED
    BY <2>1, <2>2
<1>3. ASSUME NEW r, NEW msg, NEW okay, okay.stored = r.stored, okay.state = r.state,
             NEW x \in SendThenSave(Start(r, r), msg, okay, r, "run")
      PROVE  x.rec.stored = r.stored /\ x.rec.state = r.state
  BY <1>3 DEF SendThenSave, Start
<1>4. ASSUME NEW admission \in Admission, ReceiveRequest(m, admission)
      PROVE  RunsInv'
  <2> DEFINE status == receiptStatus(admission)
             receipt == [status |-> status, receivedAt |-> m.copy]
             known == IF incoming.stored THEN expireDueIncoming(incoming, due[Host])
                      ELSE IF admission = "full" THEN NoIncoming ELSE incomingRecord(status)
             r == IF known.stored THEN [known EXCEPT !.receipt = receipt, !.receiptPending = TRUE]
                  ELSE known
             receipted == [r EXCEPT !.receiptPending = FALSE]
             R == SendThenSave(Start(r, r), RequestReceipt(receipt), receipted, r, "run")
  <2>1. /\ up[Host] /\ due' = due /\ handle' = handle
        /\ \E o \in R : /\ incoming' = Kept(o) /\ HostMemory(o, kernel, finishes)
                        /\ Survives(Host, o)
    BY <1>4 DEF ReceiveRequest
  <2>2. /\ known \in Incoming /\ (incoming.stored => known.stored)
        /\ \/ known = incoming \/ ~known.stored \/ known.state = "rejected"
           \/ known.state = "submitted" /\ ~incoming.stored /\ ~due[Host]
    <3>1. CASE incoming.stored
      BY <1>1, <3>1, ExpiryAdvances DEF Later, Supersedes
    <3>2. CASE ~incoming.stored /\ admission = "full"
      BY <3>2, NewRecords
    <3>3. CASE ~incoming.stored /\ admission # "full"
      <4>1. /\ status \in {"received", "expired", "rejected"}
            /\ status = "received" => ~due[Host]
        BY <1>1, <3>3, ReceiptStatusType DEF receiptStatus
      <4>2. incomingRecord(status) \in Incoming
        BY <4>1, IncomingRecordType
      <4>3. incomingRecord(status).state = IF status = "received" THEN "submitted" ELSE "rejected"
        BY <4>1, NewRecords DEF incomingRecord, NoIncoming
      <4> QED
        BY <3>3, <4>1, <4>2, <4>3
    <3> QED
      BY <3>1, <3>2, <3>3
  <2> HIDE DEF known, receipt
  <2>3. /\ r.stored = known.stored /\ r.state = known.state
        /\ receipted.stored = known.stored /\ receipted.state = known.state
    BY <2>2 DEF Incoming
  <2> HIDE DEF r, receipted
  <2>4. \A x \in R : x.rec.stored = r.stored /\ x.rec.state = r.state
    BY <1>3, <2>3
  <2>5. RunsAgree(r, handle, kernel, finishes, due[Host]) /\ HasRun(r, handle, kernel, finishes)
    BY <1>1, <2>1, <2>2, <2>3 DEF RunsAgree, HasRun
  <2> HIDE DEF R
  <2> QED
    BY <1>2, <2>1, <2>4, <2>5
<1>5. CASE ReceiveCancel(m)
  <2> DEFINE ended == isTerminalTaskState(incoming.state)
             c == IF ended THEN incoming ELSE cancelIncoming(incoming, TRUE)
             r == [c EXCEPT !.controlReceiptQueued = TRUE]
             sent == [r EXCEPT !.controlReceiptQueued = FALSE]
             h == IF ended THEN handle ELSE cancelExecution(handle)
             R == SendThenSave(Start(r, r), ControlReceipt, sent, r, "run")
  <2>1. /\ up[Host] /\ due' = due /\ handle' = h /\ incoming.stored
        /\ \E o \in R : /\ incoming' = Kept(o) /\ HostMemory(o, kernel, finishes)
                        /\ Survives(Host, o)
    BY <1>5 DEF ReceiveCancel
  <2>2. h.epoch = handle.epoch
    BY DEF cancelExecution, TypeOK, Handle
  <2>3. /\ c \in Incoming /\ c.stored
        /\ c.state # "working" /\ (c = incoming \/ c.state = "canceled")
    <3>1. CASE ended
      BY <1>1, <2>1, <3>1 DEF isTerminalTaskState, Terminal
    <3>2. CASE ~ended
      <4>1. Advances(incoming, cancelIncoming(incoming, TRUE))
        BY <1>1, <3>2, HostStepAdvances
      <4>2. cancelIncoming(incoming, TRUE).state = "canceled"
        BY <1>1, StatesReached
      <4> QED
        BY <2>1, <3>2, <4>1, <4>2 DEF Advances
    <3> QED
      BY <3>1, <3>2
  <2> HIDE DEF c, h
  <2>4. /\ r.stored = c.stored /\ r.state = c.state /\ sent.stored = c.stored
        /\ sent.state = c.state
    BY <2>3 DEF Incoming
  <2> HIDE DEF r, sent
  <2>5. \A x \in R : x.rec.stored = r.stored /\ x.rec.state = r.state
    BY <1>3, <2>4
  <2>6. RunsAgree(r, h, kernel, finishes, due[Host]) /\ HasRun(r, h, kernel, finishes)
    BY <1>1, <2>1, <2>2, <2>3, <2>4 DEF RunsAgree, HasRun
  <2> HIDE DEF R
  <2> QED
    BY <1>2, <2>1, <2>5, <2>6
<1>6. CASE ReceiveStatusReceipt(m) \/ ReceiveArtifactReceipt(m)
  <2>1. incoming'.stored = incoming.stored /\ incoming'.state = incoming.state
    BY <1>1, <1>6
    DEF ReceiveStatusReceipt, ReceiveArtifactReceipt, acknowledgeStatus, acknowledgeArtifact,
        Incoming
  <2>2. UNCHANGED <<up, due, handle, kernel, finishes>>
    BY <1>6 DEF ReceiveStatusReceipt, ReceiveArtifactReceipt
  <2> QED
    BY <2>1, <2>2 DEF RunsInv, RunsAgree, HasRun
<1> QED
  BY <1>4, <1>5, <1>6

(* Steps of the executor, the expiry sweep, and the end and the start of   *)
(* the process.                                                            *)
LEMMA HostQuietStepsRun ==
  ASSUME TypeOK, RunsInv, Sound(incoming),
         \/ \E result \in Results : Settle(result)
         \/ CaptureCheckpoint \/ SettleHandle \/ ResumeRefused
         \/ HostExpireDue \/ HostStart \/ EvictIncoming
         \/ \E orderly \in BOOLEAN : HostCrash(orderly)
  PROVE  RunsInv'
<1>1. /\ incoming \in Incoming /\ due[Host] \in BOOLEAN /\ handle.epoch \in Nat
      /\ RunsAgree(incoming, handle, kernel, finishes, due[Host])
      /\ up[Host] => HasRun(incoming, handle, kernel, finishes)
      /\ ~up[Host] => kernel = Idle /\ finishes = {}
      /\ Host \in Node /\ up \in [Node -> BOOLEAN] /\ kernel \in Kernel /\ handle \in Handle
  BY DEF TypeOK, RunsInv, Node, Handle
<1>2. CASE \E result \in Results : Settle(result)
  <2>1. PICK result \in Results : Settle(result)
    BY <1>2
  <2>2. /\ kernel'.task = result /\ kernel.task = "working" /\ kernel'.active = kernel.active
        /\ UNCHANGED <<incoming, due, up, handle, finishes>>
    BY <1>1, <2>1 DEF Settle, Kernel
  <2>3. result \notin {"none", "working"} /\ up[Host]
    BY <1>1, <2>2, ResultsAssumption DEF Idle
  <2> QED
    BY <1>1, <2>2, <2>3 DEF RunsInv, RunsAgree, HasRun
<1>3. CASE CaptureCheckpoint
  <2>1. handle'.epoch = handle.epoch /\ UNCHANGED <<incoming, due, up, kernel, finishes>>
    BY <1>1, <1>3 DEF CaptureCheckpoint, Handle
  <2> QED
    BY <1>1, <2>1 DEF RunsInv, RunsAgree, HasRun
<1>4. CASE SettleHandle
  <2> DEFINE f == [epoch |-> handle.epoch, result |-> kernel.task]
  <2>1. /\ handle'.epoch = handle.epoch /\ kernel.active /\ kernel.task # "working"
        /\ kernel'.task = kernel.task /\ kernel'.active = FALSE
        /\ finishes' = finishes \cup {f} /\ UNCHANGED <<incoming, due, up>>
    BY <1>1, <1>4 DEF SettleHandle, Handle, Kernel
  <2>2. kernel.task # "none" /\ handle.epoch > 0 /\ up[Host]
    BY <1>1, <2>1 DEF RunsAgree, Idle
  <2>3. \A e \in finishes' : 0 < e.epoch /\ e.epoch <= handle.epoch
    BY <1>1, <2>1, <2>2 DEF RunsAgree
  <2> HIDE DEF f
  <2>4. RunsAgree(incoming', handle', kernel', finishes', due'[Host])
    BY <1>1, <2>1, <2>2, <2>3 DEF RunsAgree
  <2> QED
    BY <2>1, <2>2, <2>4 DEF RunsInv, RunsAgree, HasRun
<1>5. CASE ResumeRefused
  <2>1. handle'.epoch = handle.epoch /\ UNCHANGED <<incoming, due, up, kernel, finishes>>
    BY <1>1, <1>5 DEF ResumeRefused, Handle
  <2> QED
    BY <1>1, <2>1 DEF RunsInv, RunsAgree, HasRun
<1>6. CASE HostExpireDue
  <2>1. /\ UNCHANGED <<handle, due, up, kernel, finishes>> /\ up[Host]
        /\ incoming' = expireDueIncoming(incoming, due[Host])
    BY <1>6 DEF HostExpireDue
  <2>2. /\ incoming'.stored = incoming.stored
        /\ incoming' = incoming \/ incoming'.state = "rejected"
    BY <1>1, <2>1, ExpiryAdvances DEF Later, Supersedes
  <2> QED
    BY <1>1, <2>1, <2>2 DEF RunsInv, RunsAgree, HasRun
<1>7. CASE HostStart
  <2>1. /\ kernel' = Idle /\ finishes' = {} /\ up'[Host]
        /\ incoming'.stored => incoming'.state # "working"
    <3> DEFINE h == reconcileHandle(handle, kernel)
               r == IF incoming.stored /\ incoming.state = "working"
                    THEN interruptIncoming(incoming, h) ELSE incoming
    <3>1. /\ incoming' = expireDueIncoming(r, due[Host]) /\ UNCHANGED <<kernel, finishes>>
          /\ ~up[Host] /\ up'[Host]
      BY <1>1, <1>7 DEF HostStart
    <3>2. r \in Incoming /\ Sound(r) /\ (r.stored => r.state # "working")
      <4>1. CASE incoming.stored /\ incoming.state = "working"
        BY <1>1, <4>1, HostStepAdvances, StatesReached
        DEF Advances, isTerminalTaskState, Terminal
      <4>2. CASE ~(incoming.stored /\ incoming.state = "working")
        BY <1>1, <4>2
      <4> QED
        BY <4>1, <4>2
    <3> HIDE DEF r
    <3>3. incoming' = r \/ incoming'.state = "rejected"
      BY <1>1, <3>1, <3>2, ExpiryAdvances
    <3> QED
      BY <1>1, <3>1, <3>2, <3>3
  <2>2. RunsAgree(incoming', handle', kernel', finishes', due'[Host])
    BY <2>1, StoppedAgrees
  <2> QED
    BY <2>1, <2>2 DEF RunsInv, HasRun, RunsAgree
<1>8. CASE EvictIncoming
  <2>1. /\ incoming' = NoIncoming /\ due[Host] /\ up[Host]
        /\ UNCHANGED <<handle, due, up, kernel, finishes>>
    BY <1>8 DEF EvictIncoming
  <2>2. ~incoming'.stored
    BY <2>1, NewRecords
  <2> QED
    BY <1>1, <2>1, <2>2 DEF RunsInv, RunsAgree, HasRun
<1>9. CASE \E orderly \in BOOLEAN : HostCrash(orderly)
  <2>1. kernel' = Idle /\ finishes' = {} /\ ~up'[Host]
    BY <1>1, <1>9 DEF HostCrash, Idle
  <2>2. RunsAgree(incoming', handle', kernel', finishes', due'[Host])
    BY <2>1, StoppedAgrees
  <2> QED
    BY <2>1, <2>2 DEF RunsInv, HasRun
<1> QED
  BY <1>2, <1>3, <1>4, <1>5, <1>6, <1>7, <1>8, <1>9

-----------------------------------------------------------------------------
(* The record the host will have.                                           *)

(* What HostStart makes of record r, handle h, runs k and clock d.         *)
restarted(r, h, k, d) ==
  expireDueIncoming(IF r.stored /\ r.state = "working"
                    THEN interruptIncoming(r, reconcileHandle(h, k)) ELSE r, d)

Coming == IF up[Host] THEN incoming ELSE restarted(incoming, handle, kernel, due[Host])

(* The record of a request that came again after a full store dropped the  *)
(* first one, or was refused: it is ended and announces nothing.           *)
Refused == Coming.stored /\ Coming.statusRevision = 0 /\ isTerminalTaskState(Coming.state)

(* The host has no result and will have none.                              *)
NoResultToCome ==
  /\ ~produced
  /\ \/ ~incoming.stored /\ due[Host]
     \/ incoming.stored /\ Coming.state \in Terminal \ {"completed"}

Unsent == {"queued", "send_failed"}

(* What the requester, or a message, can have only from a stored request.  *)
HeardOfIt(m) ==
  \/ m.type \in {"status", "artifact", "artifact_receipt", "control_receipt"}
  \/ m.type = "receipt" /\ m.status \in {"received", "duplicate"}

(* The requester knows of the request only what the host has stored, as    *)
(* long as the request is alive.                                           *)
NothingHeard ==
  /\ \A m \in net : ~HeardOfIt(m)
  /\ outgoing.statusRevision = 0 /\ ~outgoing.artifact
  /\ outgoing.delivery # "acknowledged" /\ outgoing.cancel # "acknowledged"

RequestIsKnown == incoming.stored \/ due[Host] \/ NothingHeard

(* What was announced, and what the requester has taken from it.           *)
StatusesAreAnnounced ==
  incoming.stored /\ ~Refused =>
    /\ \A m \in net : m.type = "status" => Announces(Coming, m)
    /\ outgoing.stored =>
         /\ outgoing.statusRevision <= Coming.statusRevision
         /\ (/\ outgoing.statusRevision = Coming.statusRevision
             /\ isTerminalTaskState(Coming.state) /\ Coming.statusRevision > 0)
              => isTerminalTaskState(outgoing.state)

(* A result that is held, sent or told of is one.                          *)
TellsOfResult(m) ==
  \/ m.type \in {"artifact", "artifact_receipt"}
  \/ m.type = "status" /\ m.state = "completed"

ResultsAreProduced ==
  /\ incoming.artifactEpoch > 0 => produced
  /\ outgoing.artifact \/ outgoing.state = "completed" => produced
  /\ \A m \in net : TellsOfResult(m) => produced
  /\ produced => \/ incoming.stored /\ incoming.state = "completed"
                 \/ Refused
                 \/ ~incoming.stored /\ due[Host]

(* An end without a result excludes one for ever.                          *)
EndsWithout(s) == s \in Terminal \ {"completed"}

(* A stored result outranks an expiry, and every end before the request    *)
(* was sent.                                                               *)
Outranks(r) ==
  r.artifact =>
    \/ r.state = "completed"
    \/ /\ r.delivery \notin Unsent
       /\ r.state \in Terminal
       /\ r.state = "rejected" => r.safeErrorCode # "TASK_EXPIRED"

EndsExcludeResults ==
  /\ \A m \in net : m.type = "status" /\ EndsWithout(m.state) => NoResultToCome
  /\ EndsWithout(outgoing.state) /\ outgoing.delivery \in Unsent => NoResultToCome
  /\ Outranks(outgoing)

ResultReceiptsAreTrue ==
  (/\ outgoing.stored
   /\ \/ \E m \in net : m.type = "artifact_receipt"
      \/ incoming.stored /\ incoming.artifactAcknowledged)
    => outgoing.artifact

CancelReceiptsAreTrue ==
  (/\ incoming.stored
   /\ \/ \E m \in net : m.type = "control_receipt"
      \/ outgoing.cancel = "acknowledged")
    => isTerminalTaskState(incoming.state)

ClaimsInv ==
  /\ RunsInv
  /\ Sound(incoming)
  /\ RequestIsKnown
  /\ StatusesAreAnnounced
  /\ ResultsAreProduced
  /\ EndsExcludeResults
  /\ ResultReceiptsAreTrue
  /\ CancelReceiptsAreTrue

(* What a start of the host makes of its record.                           *)
LEMMA RestartAdvances ==
  ASSUME NEW r \in Incoming, Sound(r), NEW h, NEW k, NEW d \in BOOLEAN
  PROVE  LET c == restarted(r, h, k, d)
         IN  /\ c \in Incoming /\ Sound(c) /\ Later(r, c) /\ c.stored = r.stored
             /\ (c.state = "completed") <=> (r.state = "completed")
             /\ isTerminalTaskState(r.state) => c = r
<1> DEFINE i == IF r.stored /\ r.state = "working"
                THEN interruptIncoming(r, reconcileHandle(h, k)) ELSE r
           c == restarted(r, h, k, d)
<1>1. /\ i \in Incoming /\ Sound(i) /\ Later(r, i)
      /\ (i.state = "completed") <=> (r.state = "completed")
      /\ isTerminalTaskState(r.state) => i = r
  <2>1. CASE r.stored /\ r.state = "working"
    <3>1. ~isTerminalTaskState(r.state)
      BY <2>1 DEF isTerminalTaskState, Terminal
    <3>2. Advances(r, interruptIncoming(r, reconcileHandle(h, k)))
      BY <3>1, HostStepAdvances
    <3>3. interruptIncoming(r, reconcileHandle(h, k)).state \in {"input_required", "failed"}
      BY StatesReached
    <3>4. Later(r, interruptIncoming(r, reconcileHandle(h, k)))
      BY <3>1, <3>2, AdvancedIsLater
    <3> QED
      BY <2>1, <3>1, <3>2, <3>3, <3>4 DEF Advances
  <2>2. CASE ~(r.stored /\ r.state = "working")
    <3>1. i = r
      BY <2>2
    <3> QED
      BY <3>1, LaterChain
  <2> QED
    BY <2>1, <2>2
<1>2. c = expireDueIncoming(i, d)
  BY DEF restarted
<1> HIDE DEF i, c
<1>3. /\ c \in Incoming /\ Sound(c) /\ Later(i, c)
      /\ c = i \/ (~isTerminalTaskState(i.state) /\ c.state = "rejected")
  BY <1>1, <1>2, ExpiryAdvances
<1>4. Later(r, c) /\ c.stored = r.stored
  BY <1>1, <1>3, LaterChain DEF Later, Supersedes
<1>5. /\ (c.state = "completed") <=> (r.state = "completed")
      /\ isTerminalTaskState(r.state) => c = r
  BY <1>1, <1>3 DEF isTerminalTaskState, Terminal
<1> QED
  BY <1>3, <1>4, <1>5 DEF c

(* A start sees the Task only.                                             *)
LEMMA RestartSame ==
  ASSUME NEW r \in Incoming, NEW t \in Incoming, SameTask(r, t), NEW h, NEW k, NEW d
  PROVE  SameTask(restarted(r, h, k, d), restarted(t, h, k, d))
<1> DEFINE i(x) == IF x.stored /\ x.state = "working"
                   THEN interruptIncoming(x, reconcileHandle(h, k)) ELSE x
<1>1. SameTask(interruptIncoming(r, reconcileHandle(h, k)),
               interruptIncoming(t, reconcileHandle(h, k)))
  BY DEF SameTask, interruptIncoming, nextRevision, Incoming
<1>2. ASSUME NEW x \in Incoming
      PROVE  i(x) \in Incoming
  <2>1. CASE x.state = "working"
    <3>1. ~isTerminalTaskState(x.state)
      BY <2>1 DEF isTerminalTaskState, Terminal
    <3> QED
      BY <3>1, HostStepKeeps DEF IncomingKeeps
  <2>2. CASE x.state # "working"
    BY <2>2
  <2> QED
    BY <2>1, <2>2
<1>3. SameTask(i(r), i(t))
  BY <1>1 DEF SameTask
<1>4. restarted(r, h, k, d) = expireDueIncoming(i(r), d)
        /\ restarted(t, h, k, d) = expireDueIncoming(i(t), d)
  BY DEF restarted
<1>5. i(r) \in Incoming /\ i(t) \in Incoming
  BY <1>2
<1> HIDE DEF i
<1> QED
  BY <1>3, <1>4, <1>5, ExpirySame

(* The record the host will have follows the one it has.                   *)
LEMMA ComingFacts ==
  ASSUME TypeOK, Sound(incoming)
  PROVE  /\ Coming \in Incoming /\ Sound(Coming) /\ Later(incoming, Coming)
         /\ Coming.stored = incoming.stored
         /\ (Coming.state = "completed") <=> (incoming.state = "completed")
         /\ isTerminalTaskState(incoming.state) => Coming = incoming
         /\ up[Host] => Coming = incoming
         /\ Coming.statusRevision \in Nat /\ Coming.artifactEpoch \in Nat
<1>1. incoming \in Incoming /\ due[Host] \in BOOLEAN
  BY DEF TypeOK, Node
<1>2. \A r \in Incoming : r.statusRevision \in Nat /\ r.artifactEpoch \in Nat
  BY DEF Incoming
<1>3. CASE up[Host]
  BY <1>1, <1>2, <1>3, LaterChain DEF Coming
<1>4. CASE ~up[Host]
  <2>1. Coming = restarted(incoming, handle, kernel, due[Host])
    BY <1>4 DEF Coming
  <2> QED
    BY <1>1, <1>2, <1>4, <2>1, RestartAdvances
<1> QED
  BY <1>3, <1>4

(* And after the step.                                                     *)
LEMMA ComingFactsNext ==
  ASSUME TypeOK', Sound(incoming')
  PROVE  /\ Coming' \in Incoming /\ Sound(Coming')
         /\ Coming'.stored = incoming'.stored
         /\ (Coming'.state = "completed") <=> (incoming'.state = "completed")
         /\ isTerminalTaskState(incoming'.state) => Coming' = incoming'
         /\ up'[Host] => Coming' = incoming'
         /\ Coming'.statusRevision \in Nat /\ Coming'.artifactEpoch \in Nat
<1>1. incoming' \in Incoming /\ due'[Host] \in BOOLEAN
  BY DEF TypeOK, Node
<1>2. \A r \in Incoming : r.statusRevision \in Nat /\ r.artifactEpoch \in Nat
  BY DEF Incoming
<1>3. CASE up'[Host]
  BY <1>1, <1>2, <1>3 DEF Coming
<1>4. CASE ~up'[Host]
  <2>1. Coming' = restarted(incoming', handle', kernel', due'[Host])
    BY <1>4 DEF Coming
  <2> QED
    BY <1>1, <1>2, <1>4, <2>1, RestartAdvances
<1> QED
  BY <1>3, <1>4

-----------------------------------------------------------------------------
(* Steps of the host.                                                       *)

(* A step with a record of the Task at the host: the coming record follows *)
(* the one before, and what the step sends is told by it.                  *)
HostTells ==
  /\ UNCHANGED outgoing
  /\ incoming.stored /\ Sound(incoming')
  /\ Supersedes(Coming, Coming')
  /\ isTerminalTaskState(Coming.state) => Coming'.statusRevision = Coming.statusRevision
  /\ \A m \in net' : m \notin net =>
       /\ m.type \in {"receipt", "status", "artifact", "control_receipt"}
       /\ m.type = "status" => Announces(Coming', m)
       /\ m.type = "artifact" => Coming'.artifactEpoch > 0
       /\ m.type = "control_receipt" => isTerminalTaskState(incoming'.state)
  /\ produced => produced'
  /\ incoming'.artifactEpoch > 0 => produced'
  /\ produced' => produced \/ incoming'.artifactEpoch > 0
  /\ incoming'.artifactAcknowledged =>
       incoming.artifactAcknowledged \/ \E m \in net : m.type = "artifact_receipt"

(* A step without one.                                                     *)
HostIsSilent ==
  /\ UNCHANGED <<outgoing, incoming, produced>>
  /\ ~incoming.stored
  /\ net' \subseteq net
  /\ due[Host] => due'[Host]

(* Such a step keeps every claim.                                          *)
LEMMA HostTellsClaims ==
  ASSUME TypeOK, TypeOK', ClaimsInv, RunsInv', HostEndStep, HostTells
  PROVE  ClaimsInv'
<1>1. /\ Coming \in Incoming /\ Sound(Coming) /\ Coming.stored = incoming.stored
      /\ (Coming.state = "completed") <=> (incoming.state = "completed")
      /\ isTerminalTaskState(incoming.state) => Coming = incoming
      /\ Coming.statusRevision \in Nat /\ Coming.artifactEpoch \in Nat
  BY ComingFacts DEF ClaimsInv
<1>2. /\ Coming' \in Incoming /\ Sound(Coming') /\ Coming'.stored = incoming'.stored
      /\ (Coming'.state = "completed") <=> (incoming'.state = "completed")
      /\ isTerminalTaskState(incoming'.state) => Coming' = incoming'
      /\ Coming'.statusRevision \in Nat /\ Coming'.artifactEpoch \in Nat
  BY ComingFactsNext DEF HostTells
<1>3. /\ Sound(incoming) /\ incoming.stored /\ incoming'.stored /\ outgoing' = outgoing
      /\ net \subseteq Message /\ net' \subseteq Message /\ outgoing \in Outgoing
      /\ incoming.artifactEpoch \in Nat /\ incoming'.artifactEpoch \in Nat
      /\ outgoing.statusRevision \in Nat
  BY <1>1, <1>2 DEF HostTells, Supersedes, TypeOK, ClaimsInv, Incoming, Outgoing
<1>4. /\ Coming'.stored /\ Coming.stored
      /\ isTerminalTaskState(Coming.state) => Coming'.state = Coming.state
      /\ Coming'.statusRevision >= Coming.statusRevision
  BY <1>1, <1>2, <1>3 DEF HostTells, Supersedes
<1>5. Refused => Refused'
  BY <1>4 DEF Refused, HostTells
<1>6. (incoming'.artifactEpoch > 0) <=> (incoming'.state = "completed")
  BY DEF HostTells, Sound
<1>7. RequestIsKnown'
  BY <1>3 DEF RequestIsKnown
<1>8. StatusesAreAnnounced'
  <2>1. SUFFICES ASSUME ~Refused'
                 PROVE  /\ \A m \in net' : m.type = "status" => Announces(Coming', m)
                        /\ outgoing.stored =>
                             /\ outgoing.statusRevision <= Coming'.statusRevision
                             /\ (/\ outgoing.statusRevision = Coming'.statusRevision
                                 /\ isTerminalTaskState(Coming'.state)
                                 /\ Coming'.statusRevision > 0)
                                  => isTerminalTaskState(outgoing.state)
    BY <1>3 DEF StatusesAreAnnounced
  <2>2. ~Refused
    BY <1>5, <2>1
  <2>3. \A m \in Message : m.type = "status" /\ Announces(Coming, m) => Announces(Coming', m)
    BY <1>1, <1>2, AnnouncesLater DEF HostTells
  <2>4. \A m \in net' : m.type = "status" => Announces(Coming', m)
    BY <1>3, <2>2, <2>3 DEF HostTells, ClaimsInv, StatusesAreAnnounced
  <2>5. outgoing.stored =>
          /\ outgoing.statusRevision <= Coming.statusRevision
          /\ (/\ outgoing.statusRevision = Coming.statusRevision
              /\ isTerminalTaskState(Coming.state) /\ Coming.statusRevision > 0)
               => isTerminalTaskState(outgoing.state)
    BY <1>3, <2>2 DEF ClaimsInv, StatusesAreAnnounced
  <2>6. Coming'.statusRevision = Coming.statusRevision => Coming'.state = Coming.state
    BY DEF HostTells, Supersedes
  <2> QED
    BY <1>1, <1>2, <1>3, <1>4, <2>4, <2>5, <2>6
<1>9. ResultsAreProduced'
  <2>1. incoming'.artifactEpoch > 0 => produced'
    BY DEF HostTells
  <2>2. outgoing'.artifact \/ outgoing'.state = "completed" => produced'
    BY <1>3 DEF HostTells, ClaimsInv, ResultsAreProduced
  <2>3. ASSUME NEW m \in net', TellsOfResult(m)
        PROVE  produced'
    <3>1. CASE m \in net
      BY <2>3, <3>1 DEF HostTells, ClaimsInv, ResultsAreProduced
    <3>2. CASE m \notin net
      <4>1. m.type = "artifact" \/ (m.type = "status" /\ m.state = "completed")
        BY <2>3, <3>2 DEF HostTells, TellsOfResult
      <4>2. Coming'.state = "completed"
        <5>1. CASE m.type = "artifact"
          BY <1>2, <3>2, <5>1 DEF HostTells, Sound
        <5>2. CASE m.type = "status" /\ m.state = "completed"
          BY <1>2, <3>2, <5>2 DEF HostTells, Announces, isTerminalTaskState, Terminal
        <5> QED
          BY <4>1, <5>1, <5>2
      <4> QED
        BY <1>2, <1>6, <2>1, <4>2
    <3> QED
      BY <3>1, <3>2
  <2>4. produced' => (incoming'.stored /\ incoming'.state = "completed") \/ Refused'
    <3>1. CASE incoming'.artifactEpoch > 0
      BY <1>3, <1>6, <3>1
    <3>2. CASE produced
      <4>1. incoming.state = "completed" \/ Refused
        BY <1>3, <3>2 DEF ClaimsInv, ResultsAreProduced
      <4> QED
        BY <1>1, <1>2, <1>3, <1>4, <1>5, <4>1 DEF isTerminalTaskState, Terminal
    <3> QED
      BY <3>1, <3>2 DEF HostTells
  <2> QED
    BY <2>1, <2>2, <2>3, <2>4 DEF ResultsAreProduced
<1>10. EndsExcludeResults'
  <2>1. NoResultToCome => NoResultToCome'
    <3>1. SUFFICES ASSUME NoResultToCome
                   PROVE  NoResultToCome'
      OBVIOUS
    <3>2. ~produced /\ Coming.state \in Terminal \ {"completed"}
      BY <1>3, <3>1 DEF NoResultToCome
    <3>3. Coming'.state = Coming.state
      BY <1>4, <3>2 DEF isTerminalTaskState
    <3>4. ~produced'
      BY <1>2, <1>6, <3>2, <3>3 DEF HostTells
    <3> QED
      BY <1>3, <3>2, <3>3, <3>4 DEF NoResultToCome
  <2>2. ASSUME NEW m \in net', m.type = "status", EndsWithout(m.state)
        PROVE  NoResultToCome'
    <3>1. CASE m \in net
      BY <2>1, <2>2, <3>1 DEF ClaimsInv, EndsExcludeResults
    <3>2. CASE m \notin net
      <4>1. Announces(Coming', m) /\ m.revision \in Nat
        BY <1>3, <2>2, <3>2 DEF HostTells, Message
      <4>2. Coming'.state \in Terminal \ {"completed"} /\ Coming'.statusRevision # 0
        BY <1>2, <2>2, <4>1 DEF Announces, EndsWithout, isTerminalTaskState
      <4>3. ~produced'
        BY <1>2, <1>3, <1>9, <4>2 DEF ResultsAreProduced, Refused
      <4> QED
        BY <1>3, <4>2, <4>3 DEF NoResultToCome
    <3> QED
      BY <3>1, <3>2
  <2>3. EndsWithout(outgoing'.state) /\ outgoing'.delivery \in Unsent => NoResultToCome'
    BY <1>3, <2>1 DEF ClaimsInv, EndsExcludeResults
  <2>4. Outranks(outgoing')
    BY <1>3 DEF ClaimsInv, EndsExcludeResults
  <2> QED
    BY <2>2, <2>3, <2>4 DEF EndsExcludeResults
<1>11. ResultReceiptsAreTrue'
  <2>1. (\E m \in net' : m.type = "artifact_receipt") => \E m \in net : m.type = "artifact_receipt"
    BY DEF HostTells
  <2> QED
    BY <1>3, <2>1 DEF HostTells, ClaimsInv, ResultReceiptsAreTrue
<1>12. CancelReceiptsAreTrue'
  <2>1. isTerminalTaskState(incoming.state) => incoming'.state = incoming.state
    BY <1>3 DEF HostEndStep
  <2>2. ASSUME NEW m \in net', m.type = "control_receipt"
        PROVE  isTerminalTaskState(incoming'.state)
    BY <1>3, <2>1, <2>2 DEF HostTells, ClaimsInv, CancelReceiptsAreTrue
  <2> QED
    BY <1>3, <2>1, <2>2 DEF ClaimsInv, CancelReceiptsAreTrue
<1> QED
  BY <1>7, <1>8, <1>9, <1>10, <1>11, <1>12 DEF ClaimsInv, HostTells

(* So does a step without a record.                                        *)
LEMMA HostIsSilentClaims ==
  ASSUME TypeOK, TypeOK', ClaimsInv, RunsInv', HostIsSilent
  PROVE  ClaimsInv'
<1>1. /\ ~incoming.stored /\ incoming' = incoming /\ ~Coming.stored /\ ~Coming'.stored
      /\ outgoing' = outgoing /\ net' \subseteq net /\ produced' = produced
      /\ (due[Host] => due'[Host]) /\ Sound(incoming')
  BY ComingFacts, ComingFactsNext DEF HostIsSilent, ClaimsInv
<1>2. ~Refused
  BY <1>1 DEF Refused
<1>3. RequestIsKnown'
  BY <1>1 DEF ClaimsInv, RequestIsKnown, NothingHeard
<1>4. StatusesAreAnnounced' /\ CancelReceiptsAreTrue'
  BY <1>1 DEF StatusesAreAnnounced, CancelReceiptsAreTrue
<1>5. ResultsAreProduced'
  BY <1>1, <1>2 DEF ClaimsInv, ResultsAreProduced
<1>6. EndsExcludeResults'
  BY <1>1 DEF ClaimsInv, EndsExcludeResults, NoResultToCome
<1>7. ResultReceiptsAreTrue'
  BY <1>1 DEF ClaimsInv, ResultReceiptsAreTrue
<1> QED
  BY <1>1, <1>3, <1>4, <1>5, <1>6, <1>7 DEF ClaimsInv

(* What record t announces, c announces too.                               *)
Foretells(t, c) ==
  /\ \A m \in Message : m.type = "status" /\ Announces(t, m) => Announces(c, m)
  /\ t.artifactEpoch > 0 => c.artifactEpoch > 0

(* An operation that leaves the Task of t in memory and that of a record   *)
(* of D on disk: if the process dies, the next start makes of the record   *)
(* on disk one that announces what t has announced.                        *)
LEMMA HostOutcomeTells ==
  ASSUME TypeOK, TypeOK', Sound(incoming), incoming.stored, up[Host],
         NEW t \in Incoming, Sound(t), Later(incoming, t), NEW D, NEW h, NEW k, NEW f,
         \A d \in D : /\ d \in Incoming /\ Sound(d) /\ Later(incoming, d)
                      /\ Foretells(t, restarted(d, h, Idle, due[Host]))
                      /\ t.controlReceiptQueued => isTerminalTaskState(d.state),
         NEW o \in HostSays(t, D),
         incoming' = Kept(o), net' \subseteq net \cup o.sent, outgoing' = outgoing,
         due' = due, handle' = h, HostMemory(o, k, f), Survives(Host, o),
         produced => produced', Kept(o).artifactEpoch > 0 => produced',
         produced' => produced \/ Kept(o).artifactEpoch > 0
  PROVE  HostTells
<1>1. /\ incoming \in Incoming /\ due[Host] \in BOOLEAN /\ Coming = incoming
      /\ incoming'.artifactEpoch > 0 => produced'
      /\ produced' => produced \/ incoming'.artifactEpoch > 0
      /\ Host \in Node /\ up \in [Node -> BOOLEAN]
  BY DEF TypeOK, Node, Coming
<1>2. o \in Outcome(Incoming) /\ o.rec \in Incoming /\ o.disk \in Incoming
        /\ \A m \in o.sent : m \in Message /\ Says(t, m)
  BY DEF HostSays, Outcome
<1>3. ASSUME NEW c \in Incoming, Later(incoming, c), Foretells(t, c), SameTask(Coming', c),
             Coming' \in Incoming, Sound(incoming'),
             incoming'.artifactAcknowledged = incoming.artifactAcknowledged,
             t.controlReceiptQueued => isTerminalTaskState(incoming'.state)
      PROVE  HostTells
  <2>1. Supersedes(Coming, Coming')
    BY <1>1, <1>3 DEF Supersedes, SameTask, Later
  <2>2. isTerminalTaskState(Coming.state) => Coming'.statusRevision = Coming.statusRevision
    BY <1>1, <1>3 DEF SameTask, Later
  <2>3. ASSUME NEW m \in net', m \notin net
        PROVE  /\ m.type \in {"receipt", "status", "artifact", "control_receipt"}
               /\ m.type = "status" => Announces(Coming', m)
               /\ m.type = "artifact" => Coming'.artifactEpoch > 0
               /\ m.type = "control_receipt" => isTerminalTaskState(incoming'.state)
    <3>1. m \in Message /\ Says(t, m)
      BY <1>2, <2>3
    <3>2. m.type = "status" => Announces(c, m)
      BY <1>3, <3>1 DEF Foretells, Says
    <3>3. m.type = "status" => Announces(Coming', m)
      BY <1>3, <3>2 DEF SameTask, Announces
    <3>4. m.type = "artifact" => Coming'.artifactEpoch > 0
      BY <1>3, <3>1 DEF Foretells, Says, SameTask
    <3> QED
      BY <1>3, <3>1, <3>3, <3>4 DEF Says
  <2> QED
    BY <1>1, <1>3, <2>1, <2>2, <2>3 DEF HostTells
<1>4. CASE o.on = "crash"
  <2>1. PICK d \in D : SameTask(o.disk, d)
    BY DEF HostSays
  <2>2. d \in Incoming /\ Sound(d) /\ Later(incoming, d)
    BY <2>1
  <2>3. incoming' = o.disk /\ kernel' = Idle /\ ~up'[Host]
    BY <1>1, <1>4 DEF Kept, HostMemory, Survives, Idle
  <2> DEFINE c == restarted(d, h, Idle, due[Host])
  <2>4. Coming' = restarted(o.disk, h, Idle, due[Host])
    BY <2>3 DEF Coming
  <2>5. SameTask(Coming', c)
    BY <1>2, <2>1, <2>2, <2>4, RestartSame
  <2>6. c \in Incoming /\ Later(d, c)
    BY <1>1, <2>2, RestartAdvances
  <2>7. Foretells(t, c)
    BY <2>1
  <2> HIDE DEF c
  <2>8. Later(incoming, c)
    BY <1>1, <2>2, <2>6, LaterChain
  <2>9. Sound(incoming')
    BY <2>1, <2>2, <2>3, SameSound
  <2>10. Coming' \in Incoming
    BY <2>9, ComingFactsNext
  <2>11. incoming'.artifactAcknowledged = incoming.artifactAcknowledged
    BY <2>1, <2>2, <2>3 DEF SameTask, Later
  <2>12. t.controlReceiptQueued => isTerminalTaskState(incoming'.state)
    BY <2>1, <2>3 DEF SameTask
  <2> QED
    BY <1>3, <2>5, <2>6, <2>7, <2>8, <2>9, <2>10, <2>11, <2>12
<1>5. CASE o.on # "crash"
  <2>1. incoming' = o.rec /\ up'[Host] /\ SameTask(o.rec, t)
    BY <1>1, <1>5 DEF Kept, Survives, HostSays
  <2>2. Coming' = o.rec
    BY <2>1 DEF Coming
  <2>3. Foretells(t, t)
    BY DEF Foretells
  <2>4. Sound(incoming')
    BY <2>1, SameSound
  <2>5. incoming'.artifactAcknowledged = incoming.artifactAcknowledged
    BY <2>1 DEF SameTask, Later
  <2>6. t.controlReceiptQueued => isTerminalTaskState(incoming'.state)
    BY <2>1 DEF SameTask, Sound
  <2> QED
    BY <1>2, <1>3, <2>1, <2>2, <2>3, <2>4, <2>5, <2>6
<1> QED
  BY <1>4, <1>5

(* An operation of the host whose outcomes all tell of one Task.           *)
LEMMA HostEndsTells ==
  ASSUME TypeOK, TypeOK', Sound(incoming), incoming.stored, up[Host],
         NEW t \in Incoming, Sound(t), Later(incoming, t), NEW D, NEW h, NEW k, NEW f,
         \A d \in D : /\ d \in Incoming /\ Sound(d) /\ Later(incoming, d)
                      /\ Foretells(t, restarted(d, h, Idle, due[Host]))
                      /\ t.controlReceiptQueued => isTerminalTaskState(d.state),
         NEW S \in SUBSET HostSays(t, D), HostEnds(S, h, k, f)
  PROVE  HostTells
<1>1. PICK o \in S : /\ incoming' = Kept(o)
                     /\ net' = net \cup o.sent
                     /\ produced' = (produced \/ Kept(o).artifactEpoch > 0)
                     /\ handle' = h
                     /\ HostMemory(o, k, f)
                     /\ Survives(Host, o)
                     /\ UNCHANGED due
                     /\ requesterUnchanged
  BY DEF HostEnds
<1>2. o \in HostSays(t, D) /\ outgoing' = outgoing /\ due' = due /\ net' \subseteq net \cup o.sent
  BY <1>1 DEF requesterUnchanged
<1>3. /\ produced => produced' /\ (Kept(o).artifactEpoch > 0 => produced')
      /\ produced' => produced \/ Kept(o).artifactEpoch > 0
  BY <1>1
<1> QED
  BY <1>1, <1>2, <1>3, HostOutcomeTells

(* A later record foretells.                                               *)
LEMMA LaterForetells ==
  ASSUME NEW t \in Incoming, Sound(t), NEW c \in Incoming, Later(t, c)
  PROVE  Foretells(t, c)
BY AnnouncesLater DEF Foretells, Later

(* The record is saved before anything is sent.                            *)
LEMMA SavedDisk ==
  ASSUME NEW b, NEW t \in Incoming, Sound(t), Later(b, t), NEW h, NEW d \in BOOLEAN
  PROVE  \A x \in {t} : /\ x \in Incoming /\ Sound(x) /\ Later(b, x)
                        /\ Foretells(t, restarted(x, h, Idle, d))
                        /\ t.controlReceiptQueued => isTerminalTaskState(x.state)
<1>1. restarted(t, h, Idle, d) \in Incoming /\ Later(t, restarted(t, h, Idle, d))
  BY RestartAdvances
<1>2. Foretells(t, restarted(t, h, Idle, d))
  BY <1>1, LaterForetells
<1> QED
  BY <1>2 DEF Sound

(* An operation that saves its record before it sends.                     *)
LEMMA SavedTells ==
  ASSUME TypeOK, TypeOK', Sound(incoming), incoming.stored, up[Host],
         NEW t \in Incoming, Sound(t), Later(incoming, t), NEW h, NEW k, NEW f,
         NEW S \in SUBSET HostSays(t, {t}), HostEnds(S, h, k, f)
  PROVE  HostTells
<1>1. due[Host] \in BOOLEAN
  BY DEF TypeOK, Node
<1>2. \A x \in {t} : /\ x \in Incoming /\ Sound(x) /\ Later(incoming, x)
                     /\ Foretells(t, restarted(x, h, Idle, due[Host]))
                     /\ t.controlReceiptQueued => isTerminalTaskState(x.state)
  BY <1>1, SavedDisk
<1> QED
  BY <1>2, HostEndsTells

(* The users' operations at the host, and the result of a run.             *)
LEMMA HostOperationsTell ==
  ASSUME TypeOK, TypeOK', RunsInv, Sound(incoming), NEW connected,
         Approve(connected) \/ Resume(connected) \/ Reject(connected) \/ HostCancel(connected)
  PROVE  HostTells
<1>1. incoming \in Incoming /\ Later(incoming, incoming)
  BY LaterChain DEF TypeOK
<1>2. ASSUME NEW r, Advances(incoming, r), ~isTerminalTaskState(incoming.state)
      PROVE  /\ r \in Incoming /\ Sound(r) /\ Later(incoming, r)
             /\ trySendPendingForRecord(Start(r, r), connected, FALSE) \subseteq HostSays(r, {r})
  <2>1. r \in Incoming /\ Sound(r)
    BY <1>2 DEF Advances
  <2>2. Later(incoming, r)
    BY <1>1, <1>2, AdvancedIsLater
  <2> QED
    BY <2>1, <2>2, SavedThenSays
<1>3. ASSUME NEW r, Advances(incoming, r), ~isTerminalTaskState(incoming.state), incoming.stored,
             up[Host], StartExecution(r, connected)
      PROVE  HostTells
  <2> DEFINE S == trySendPendingForRecord(Start(r, r), connected, FALSE)
             died == [Start(r, incoming) EXCEPT !.on = "crash", !.failures = 1]
             h == prepareHandle(handle)
  <2>1. S \in SUBSET HostSays(r, {r}) /\ r \in Incoming /\ Sound(r) /\ Later(incoming, r)
    BY <1>2, <1>3
  <2>2. {died} \in SUBSET HostSays(incoming, {incoming})
    <3>1. /\ died \in Outcome(Incoming) /\ died.on = "crash" /\ died.disk = incoming
          /\ died.sent = {}
      BY <1>1, <2>1 DEF Start, Outcome
    <3>2. SameTask(incoming, incoming)
      BY SameAsItself
    <3> HIDE DEF died
    <3> QED
      BY <3>1, <3>2 DEF HostSays
  <2>3. \/ \E e \in executeOutcomes(handle.epoch + 1) : HostEnds(S, h, e.kernel, e.finishes)
        \/ HostEnds({died}, h, kernel, finishes)
    BY <1>3 DEF StartExecution
  <2> HIDE DEF S, died, h
  <2>4. CASE HostEnds({died}, h, kernel, finishes)
    BY <1>1, <1>3, <2>2, <2>4, SavedTells
  <2>5. ASSUME NEW e, HostEnds(S, h, e.kernel, e.finishes)
        PROVE  HostTells
    BY <1>3, <2>1, <2>5, SavedTells
  <2> QED
    BY <2>3, <2>4, <2>5
<1>4. CASE Approve(connected)
  <2>1. /\ up[Host] /\ incoming.stored /\ ~isTerminalTaskState(incoming.state)
        /\ StartExecution(startIncoming(incoming), connected)
    BY <1>4 DEF Approve, requireMutableIncomingTask, isTerminalTaskState, Terminal
  <2>2. Advances(incoming, startIncoming(incoming))
    BY <1>1, <2>1, HostStepAdvances
  <2> QED
    BY <1>3, <2>1, <2>2
<1>5. CASE Resume(connected)
  <2>1. /\ up[Host] /\ incoming.stored /\ ~isTerminalTaskState(incoming.state)
        /\ StartExecution(resumeIncoming(incoming), connected)
    BY <1>5 DEF Resume, isTerminalTaskState, Terminal
  <2>2. Advances(incoming, resumeIncoming(incoming))
    BY <1>1, <2>1, HostStepAdvances
  <2> QED
    BY <1>3, <2>1, <2>2
<1>6. CASE Reject(connected)
  <2> DEFINE r == rejectIncoming(incoming)
             S == trySendPendingForRecord(Start(r, r), connected, FALSE)
  <2>1. /\ up[Host] /\ incoming.stored /\ ~isTerminalTaskState(incoming.state)
        /\ HostEnds(S, handle, kernel, finishes)
    BY <1>6 DEF Reject, requireMutableIncomingTask, isTerminalTaskState, Terminal
  <2>2. Advances(incoming, r)
    BY <1>1, <2>1, HostStepAdvances
  <2>3. S \in SUBSET HostSays(r, {r}) /\ r \in Incoming /\ Sound(r) /\ Later(incoming, r)
    BY <1>2, <2>1, <2>2
  <2> HIDE DEF S, r
  <2> QED
    BY <2>1, <2>3, SavedTells
<1>7. CASE HostCancel(connected)
  <2> DEFINE r == cancelIncoming(incoming, FALSE)
             S == trySendPendingForRecord(Start(r, r), connected, FALSE)
             h == cancelExecution(handle)
  <2>1. /\ up[Host] /\ incoming.stored /\ ~isTerminalTaskState(incoming.state)
        /\ HostEnds(S, h, kernel, finishes)
    BY <1>7 DEF HostCancel
  <2>2. Advances(incoming, r)
    BY <1>1, <2>1, HostStepAdvances
  <2>3. S \in SUBSET HostSays(r, {r}) /\ r \in Incoming /\ Sound(r) /\ Later(incoming, r)
    BY <1>2, <2>1, <2>2
  <2> HIDE DEF S, r, h
  <2> QED
    BY <2>1, <2>3, SavedTells
<1> QED
  BY <1>4, <1>5, <1>6, <1>7

(* The result of a run.                                                    *)
LEMMA FinishExecutionClaims ==
  ASSUME TypeOK, TypeOK', ClaimsInv, RunsInv', HostEndStep, NEW f \in finishes, NEW connected,
         FinishExecution(f, connected)
  PROVE  ClaimsInv'
<1>1. /\ incoming \in Incoming /\ Later(incoming, incoming) /\ Sound(incoming) /\ up[Host]
      /\ f.epoch \in Nat /\ f.epoch > 0 /\ up \in [Node -> BOOLEAN] /\ Host \in Node
  BY LaterChain DEF TypeOK, ClaimsInv, FinishExecution, RunsInv, RunsAgree, Finish, Node
<1> DEFINE old == ~incoming.stored \/ isTerminalTaskState(incoming.state) \/ handle.epoch # f.epoch
           o == Start(incoming, incoming)
           r == finishSingleStageExecution(incoming, f.result, handle, f.epoch)
           S == trySendPendingForRecord(Start(r, r), connected, FALSE)
           g == finishes \ {f}
<1>2. IF old THEN HostEnds({o}, handle, kernel, g) ELSE HostEnds(S, handle, kernel, g)
  BY DEF FinishExecution
<1>3. CASE old /\ ~incoming.stored
  <2>1. HostEnds({o}, handle, kernel, g)
    BY <1>2, <1>3
  <2> HIDE DEF g
  <2>2. /\ incoming' = incoming /\ net' = net /\ due' = due /\ outgoing' = outgoing
        /\ produced' = (produced \/ incoming.artifactEpoch > 0)
    BY <2>1 DEF HostEnds, Start, Kept, requesterUnchanged
  <2>3. produced' = produced
    BY <1>1, <2>2 DEF ClaimsInv, ResultsAreProduced, TypeOK
  <2>4. HostIsSilent
    BY <1>3, <2>2, <2>3 DEF HostIsSilent
  <2> QED
    BY <2>4, HostIsSilentClaims
<1>4. CASE old /\ incoming.stored
  <2>1. HostEnds({o}, handle, kernel, g)
    BY <1>2, <1>4
  <2>2. {o} \in SUBSET HostSays(incoming, {incoming})
    BY <1>1, HostSaysStarts
  <2> HIDE DEF g, o
  <2>3. HostTells
    BY <1>1, <1>4, <2>1, <2>2, SavedTells
  <2> QED
    BY <2>3, HostTellsClaims
<1>5. CASE ~old
  <2>1. HostEnds(S, handle, kernel, g) /\ incoming.stored /\ ~isTerminalTaskState(incoming.state)
    BY <1>2, <1>5
  <2>2. Advances(incoming, r)
    BY <1>1, <2>1, HostStepAdvances
  <2> HIDE DEF g, r
  <2>3. r \in Incoming /\ Sound(r) /\ Later(incoming, r)
    <3>1. Later(incoming, r)
      BY <1>1, <2>1, <2>2, AdvancedIsLater
    <3> QED
      BY <2>2, <3>1 DEF Advances
  <2>4. S \in SUBSET HostSays(r, {r})
    BY <2>3, SavedThenSays
  <2> HIDE DEF S
  <2>5. HostTells
    BY <1>1, <2>1, <2>3, <2>4, SavedTells
  <2> QED
    BY <2>5, HostTellsClaims
<1> QED
  BY <1>3, <1>4, <1>5

-----------------------------------------------------------------------------
(* The flush, and the messages at the host.                                 *)

(* What the flush announces before it saves, the next start announces if   *)
(* the process dies: it reconciles and expires the stored record again,    *)
(* and reaches the same revision.                                          *)
LEMMA FlushedDisks ==
  ASSUME TypeOK, RunsInv, Sound(incoming), incoming.stored,
         NEW h, h = reconcileHandle(handle, kernel), NEW d \in Disks(h)
  PROVE  /\ d \in Incoming /\ Sound(d) /\ Later(incoming, d)
         /\ Foretells(flushed(h), restarted(d, h, Idle, due[Host]))
         /\ flushed(h).controlReceiptQueued => isTerminalTaskState(d.state)
<1> DEFINE t == flushed(h)
           c == restarted(d, h, Idle, due[Host])
<1>1. h \in Handle /\ h.epoch = handle.epoch /\ due[Host] \in BOOLEAN /\ incoming \in Incoming
  BY HandleTypes DEF reconcileHandle, TypeOK, Handle, Node
<1>2. /\ reconciled(h) \in Incoming /\ Sound(reconciled(h)) /\ reconciled(h).stored
      /\ Later(incoming, reconciled(h))
      /\ reconciled(h).state = "working" => kernel.task = "working"
      /\ t \in Incoming /\ Sound(t) /\ Later(incoming, t)
      /\ t.controlReceiptQueued = incoming.controlReceiptQueued
      /\ t = expireDueIncoming(reconciled(h), due[Host])
  BY <1>1, FlushedRecords DEF flushed
<1>3. /\ d \in Incoming /\ Sound(d) /\ Later(incoming, d)
      /\ d = t \/ (Settled /\ d = reconciled(h)) \/ (~Settled /\ d = incoming)
  BY <1>1, <1>2, LaterChain DEF Disks
<1>4. t.controlReceiptQueued => isTerminalTaskState(d.state)
  BY <1>2, <1>3 DEF Later, Supersedes, Sound
<1>5. c \in Incoming /\ Sound(c) /\ Later(d, c)
  BY <1>1, <1>3, RestartAdvances
<1>6. ASSUME Later(t, c)
      PROVE  Foretells(t, c)
  <2> HIDE DEF t, c
  <2> QED
    BY <1>2, <1>5, <1>6, LaterForetells
<1>7. ASSUME c = t
      PROVE  Foretells(t, c)
  BY <1>7 DEF Foretells
<1>11. SUFFICES Foretells(t, c)
  BY <1>3, <1>4
<1>8. CASE d = t
  BY <1>5, <1>6, <1>8
<1>9. CASE Settled /\ d = reconciled(h)
  <2>1. d.state # "working"
    BY <1>2, <1>9 DEF Settled
  <2>2. c = t
    BY <1>2, <1>9, <2>1 DEF restarted
  <2> QED
    BY <1>7, <2>2
<1>10. CASE ~Settled /\ d = incoming
  <2>1. CASE incoming.state # "working"
    <3>1. reconciled(h) = incoming
      BY <2>1 DEF reconciled
    <3>2. c = t
      BY <1>2, <1>10, <2>1, <3>1 DEF restarted
    <3> QED
      BY <1>7, <3>2
  <2>2. CASE incoming.state = "working" /\ kernel.task = "none"
    <3>1. ~kernel.active
      BY <2>2 DEF RunsInv, RunsAgree
    <3>2. reconcileHandle(h, Idle) = h
      <4>1. h = handle \/ h.progress = "interrupted"
        BY <1>1 DEF reconcileHandle, TypeOK, Handle
      <4>2. h.epoch > 0 /\ ~handleIsTerminal(h) => h.progress = "interrupted"
        BY <1>1, <3>1, <4>1 DEF reconcileHandle, TypeOK, Handle
      <4>3. h.progress = "interrupted" => [h EXCEPT !.progress = "interrupted"] = h
        BY <1>1 DEF Handle
      <4> QED
        BY <4>2, <4>3 DEF reconcileHandle, Idle
    <3>3. reconciled(h) = interruptIncoming(incoming, h)
      BY <2>2 DEF reconciled
    <3>4. c = t
      BY <1>2, <1>10, <2>2, <3>2, <3>3 DEF restarted
    <3> QED
      BY <1>7, <3>4
  <2>3. CASE incoming.state = "working" /\ kernel.task = "working"
    <3>1. reconciled(h) = incoming
      BY <2>3 DEF reconciled
    <3>2. CASE ~due[Host]
      <4>1. t = incoming
        BY <1>2, <3>1, <3>2 DEF expireDueIncoming
      <4> QED
        BY <1>5, <1>6, <1>10, <4>1
    <3>3. CASE due[Host]
      <4> DEFINE i == interruptIncoming(incoming, reconcileHandle(h, Idle))
      <4>1. t = expireIncoming(incoming) /\ ~isTerminalTaskState(incoming.state)
        BY <1>2, <2>3, <3>1, <3>3 DEF expireDueIncoming, isTerminalTaskState, Terminal
      <4>2. Advances(incoming, t) /\ t.state = "rejected" /\ t.artifactEpoch = 0
        <5>1. Advances(incoming, t)
          BY <1>1, <4>1, HostStepAdvances
        <5>2. t.state = "rejected"
          BY <1>1, <4>1 DEF expireIncoming, nextRevision, Incoming
        <5> QED
          BY <1>2, <5>1, <5>2 DEF Advances, Sound, Incoming
      <4>3. Advances(incoming, i) /\ i.state \in {"input_required", "failed"} /\ i \in Incoming
        <5>1. Advances(incoming, i) /\ i.state \in {"input_required", "failed"}
          BY <1>1, <4>1, HostStepAdvances, StatesReached
        <5> QED
          BY <5>1 DEF Advances
      <4>4. c = expireDueIncoming(i, due[Host])
        BY <1>10, <2>3 DEF restarted
      <4> HIDE DEF i
      <4>5. /\ Later(i, c) /\ isTerminalTaskState(c.state)
            /\ c.state \in {"failed", "rejected"}
        <5>1. i.stored /\ Sound(i)
          BY <4>3 DEF Advances
        <5>2. /\ Later(i, c) /\ (c = i \/ c.state = "rejected")
              /\ isTerminalTaskState(c.state)
          <6> DEFINE e == expireDueIncoming(i, due[Host])
          <6>1. /\ Later(i, e) /\ (e = i \/ e.state = "rejected")
                /\ due[Host] /\ i.stored => isTerminalTaskState(e.state)
            BY <1>1, <4>3, <5>1, ExpiryAdvances
          <6> QED
            BY <3>3, <4>4, <5>1, <6>1
        <5> QED
          BY <4>3, <5>2 DEF isTerminalTaskState, Terminal
      <4>6. /\ t.statusRevision \in Nat /\ c.statusRevision \in Nat /\ i.statusRevision \in Nat
            /\ t.statusRevision = i.statusRevision /\ c.statusRevision >= t.statusRevision
        BY <1>2, <1>5, <4>2, <4>3, <4>5 DEF Advances, Later, Supersedes, Incoming
      <4> HIDE DEF t, c
      <4>7. ASSUME NEW m \in Message, m.type = "status", Announces(t, m)
            PROVE  Announces(c, m)
        <5>1. m.revision \in Nat
          BY <4>7 DEF Message
        <5>2. /\ m.revision <= t.statusRevision
              /\ m.revision = t.statusRevision => isTerminalTaskState(m.state)
              /\ m.state # "completed"
          BY <4>2, <4>7 DEF Announces, isTerminalTaskState, Terminal
        <5>3. m.revision <= c.statusRevision
              /\ (m.revision = c.statusRevision => m.revision = t.statusRevision)
          BY <4>6, <5>1, <5>2
        <5> QED
          BY <4>5, <4>7, <5>2, <5>3 DEF Announces
      <4> QED
        BY <4>2, <4>7 DEF Foretells, t, c
    <3> QED
      BY <3>2, <3>3
  <2> QED
    BY <1>10, <2>1, <2>2, <2>3 DEF Settled
<1> QED
  BY <1>3, <1>8, <1>9, <1>10

(* The flush, which sends what it saves only at its end.                   *)
LEMMA HostFlushTells ==
  ASSUME TypeOK, TypeOK', RunsInv, Sound(incoming), NEW connected, NEW elapsed,
         HostFlush(connected, elapsed)
  PROVE  HostTells
<1> DEFINE h == reconcileHandle(handle, kernel)
<1>1. up[Host] /\ incoming.stored /\ h \in Handle /\ h.epoch = handle.epoch
  BY FlushSays
<1>2. PICK S \in SUBSET HostSays(flushed(h), Disks(h)) : HostEnds(S, h, kernel, finishes)
  BY FlushSays
<1>3. \A d \in Disks(h) : /\ d \in Incoming /\ Sound(d) /\ Later(incoming, d)
                          /\ Foretells(flushed(h), restarted(d, h, Idle, due[Host]))
                          /\ flushed(h).controlReceiptQueued => isTerminalTaskState(d.state)
  BY <1>1, FlushedDisks
<1> HIDE DEF h
<1>4. flushed(h) \in Incoming /\ Sound(flushed(h)) /\ Later(incoming, flushed(h))
  BY <1>1, FlushedRecords
<1> QED
  BY <1>1, <1>2, <1>3, <1>4, HostEndsTells

(* A message that the host answers from a record saved before.             *)
LEMMA AnswerTells ==
  ASSUME TypeOK, TypeOK', ClaimsInv, incoming.stored, up[Host],
         NEW t \in Incoming, Sound(t), Later(incoming, t),
         t.artifactEpoch > 0 => incoming.artifactEpoch > 0,
         NEW answer \in Message, Says(t, answer), NEW sent \in Incoming, SameTask(sent, t),
         NEW m, NEW o \in SendThenSave(Start(t, t), answer, sent, t, "run"),
         incoming' = Kept(o), Consume(m, o.sent, o.on = "crash"), HostMemory(o, kernel, finishes),
         Survives(Host, o), outgoing' = outgoing, due' = due, produced' = produced
  PROVE  HostTells
<1>1. Start(t, t) \in HostSays(t, {t}) /\ Start(t, t).on = "run" /\ SameTask(t, t)
  BY HostSaysStarts, SameAsItself
<1>2. o \in HostSays(t, {t})
  BY <1>1, HostSaysSend
<1>3. due[Host] \in BOOLEAN /\ Sound(incoming)
  BY DEF TypeOK, Node, ClaimsInv
<1>4. \A x \in {t} : /\ x \in Incoming /\ Sound(x) /\ Later(incoming, x)
                     /\ Foretells(t, restarted(x, handle', Idle, due[Host]))
                     /\ t.controlReceiptQueued => isTerminalTaskState(x.state)
  BY <1>3, SavedDisk
<1>5. net' \subseteq net \cup o.sent
  BY DEF Consume
<1>6. Kept(o).artifactEpoch = t.artifactEpoch
  BY <1>2 DEF HostSays, Kept, SameTask
<1>7. Kept(o).artifactEpoch > 0 => produced'
  BY <1>6 DEF ClaimsInv, ResultsAreProduced
<1> QED
  BY <1>2, <1>3, <1>4, <1>5, <1>7, HostOutcomeTells

(* A cancel: its receipt goes out after the Task has ended on disk.        *)
LEMMA ReceiveCancelTells ==
  ASSUME TypeOK, TypeOK', ClaimsInv, NEW m \in net, ReceiveCancel(m)
  PROVE  HostTells
<1> DEFINE ended == isTerminalTaskState(incoming.state)
           c == IF ended THEN incoming ELSE cancelIncoming(incoming, TRUE)
           r == [c EXCEPT !.controlReceiptQueued = TRUE]
           sent == [r EXCEPT !.controlReceiptQueued = FALSE]
<1>1. /\ up[Host] /\ incoming.stored /\ outgoing' = outgoing /\ due' = due
      /\ produced' = produced
      /\ \E o \in SendThenSave(Start(r, r), ControlReceipt, sent, r, "run") :
           /\ incoming' = Kept(o)
           /\ Consume(m, o.sent, o.on = "crash")
           /\ HostMemory(o, kernel, finishes)
           /\ Survives(Host, o)
  BY DEF ReceiveCancel, requesterUnchanged
<1>2. /\ c \in Incoming /\ Sound(c) /\ Later(incoming, c) /\ isTerminalTaskState(c.state)
      /\ c.artifactEpoch > 0 => incoming.artifactEpoch > 0
  <2>1. incoming \in Incoming /\ Sound(incoming)
    BY DEF TypeOK, ClaimsInv
  <2>2. CASE ended
    BY <2>1, <2>2, LaterChain
  <2>3. CASE ~ended
    <3>1. Advances(incoming, cancelIncoming(incoming, TRUE))
      BY <2>1, <2>3, HostStepAdvances
    <3>2. cancelIncoming(incoming, TRUE).state = "canceled"
      BY <2>1, StatesReached
    <3>3. Later(incoming, cancelIncoming(incoming, TRUE))
      BY <2>1, <2>3, <3>1, AdvancedIsLater
    <3> QED
      BY <2>3, <3>1, <3>2, <3>3 DEF Advances, Sound, isTerminalTaskState, Terminal
  <2> QED
    BY <2>2, <2>3
<1> HIDE DEF c
<1>3. /\ r \in Incoming /\ Sound(r) /\ r.controlReceiptQueued /\ SameTask(c, r)
      /\ r.artifactEpoch = c.artifactEpoch /\ sent \in Incoming /\ SameTask(sent, r)
  BY <1>2 DEF Incoming, Sound, SameTask
<1>4. Later(incoming, r)
  BY <1>2, <1>3 DEF Later, Supersedes, SameTask
<1>5. ControlReceipt \in Message /\ Says(r, ControlReceipt)
  BY <1>3, HostMessages DEF Says
<1> HIDE DEF r, sent
<1> QED
  BY <1>1, <1>2, <1>3, <1>4, <1>5, AnswerTells

(* A request that arrives again.                                           *)
LEMMA ReceiveKnownRequestTells ==
  ASSUME TypeOK, TypeOK', ClaimsInv, NEW m \in net, NEW admission,
         ReceiveRequest(m, admission), incoming.stored
  PROVE  HostTells
<1> DEFINE status == receiptStatus(admission)
           receipt == [status |-> status, receivedAt |-> m.copy]
           known == expireDueIncoming(incoming, due[Host])
           r == [known EXCEPT !.receipt = receipt, !.receiptPending = TRUE]
           receipted == [r EXCEPT !.receiptPending = FALSE]
<1>1. incoming \in Incoming /\ Sound(incoming) /\ due[Host] \in BOOLEAN
  BY DEF TypeOK, ClaimsInv, Node
<1>2. /\ known \in Incoming /\ Sound(known) /\ Later(incoming, known) /\ known.stored
      /\ known.artifactEpoch > 0 => incoming.artifactEpoch > 0
  <2>1. /\ known \in Incoming /\ Sound(known) /\ Later(incoming, known)
        /\ known = incoming \/ known.state = "rejected"
    BY <1>1, ExpiryAdvances
  <2> QED
    BY <2>1 DEF Later, Supersedes, Sound
<1>3. /\ up[Host] /\ outgoing' = outgoing /\ due' = due /\ produced' = produced
      /\ \E o \in SendThenSave(Start(r, r), RequestReceipt(receipt), receipted, r, "run") :
           /\ incoming' = Kept(o)
           /\ Consume(m, o.sent, o.on = "crash")
           /\ HostMemory(o, kernel, finishes)
           /\ Survives(Host, o)
  BY <1>2 DEF ReceiveRequest, requesterUnchanged
<1>4. receipt \in Receipt
  <2>1. status = "duplicate"
    BY DEF receiptStatus
  <2>2. m.copy \in Nat
    BY DEF ReceiveRequest, TypeOK, Message
  <2> QED
    BY <2>1, <2>2 DEF Receipt, ReceiptStatus
<1> HIDE DEF known, receipt
<1>5. /\ r \in Incoming /\ Sound(r) /\ SameTask(known, r) /\ SameTask(receipted, r)
      /\ r.artifactEpoch = known.artifactEpoch /\ receipted \in Incoming
  BY <1>2, <1>4 DEF Incoming, Sound, SameTask
<1>6. Later(incoming, r)
  BY <1>2, <1>5 DEF Later, Supersedes, SameTask
<1>7. RequestReceipt(receipt) \in Message /\ RequestReceipt(receipt).type = "receipt"
  BY <1>4, HostMessages
<1>8. Says(r, RequestReceipt(receipt))
  BY <1>7 DEF Says
<1> HIDE DEF r, receipted
<1> QED
  BY <1>2, <1>3, <1>5, <1>6, <1>7, <1>8, AnswerTells

(* A request that the host does not know: it is accepted, or refused, or   *)
(* the store is full and nothing is kept of it.                            *)
LEMMA ReceiveNewRequestClaims ==
  ASSUME TypeOK, TypeOK', ClaimsInv, RunsInv', NEW m \in net, NEW admission \in Admission,
         ReceiveRequest(m, admission), ~incoming.stored
  PROVE  ClaimsInv'
<1> DEFINE status == receiptStatus(admission)
           receipt == [status |-> status, receivedAt |-> m.copy]
           known == IF admission = "full" THEN NoIncoming ELSE incomingRecord(status)
           r == IF known.stored THEN [known EXCEPT !.receipt = receipt, !.receiptPending = TRUE]
                ELSE known
           receipted == [r EXCEPT !.receiptPending = FALSE]
           msg == RequestReceipt(receipt)
<1>1. PICK o \in SendThenSave(Start(r, r), msg, receipted, r, "run") :
        incoming' = Kept(o) /\ Consume(m, o.sent, o.on = "crash")
  BY DEF ReceiveRequest
<1>2. /\ outgoing' = outgoing /\ due' = due /\ produced' = produced
      /\ outgoing \in Outgoing /\ outgoing.statusRevision \in Nat /\ due[Host] \in BOOLEAN
      /\ up[Host] /\ produced \in BOOLEAN
  BY DEF ReceiveRequest, requesterUnchanged, TypeOK, Node, Outgoing
<1>3. /\ status \in {"received", "expired", "rejected"}
      /\ status = "received" => ~due[Host] /\ admission # "full"
      /\ status = "expired" <=> due[Host]
  BY <1>2, ReceiptStatusType DEF receiptStatus, Admission
<1>4. known \in Incoming /\ NoIncoming \in Incoming
  BY <1>3, NewRecords, IncomingRecordType
<1>5. /\ known.stored = (admission # "full")
      /\ known.state = IF admission = "full" \/ status = "received" THEN "submitted" ELSE "rejected"
      /\ known.statusRevision = 0 /\ known.acknowledgedRevision = 0 /\ known.artifactEpoch = 0
      /\ ~known.artifactAcknowledged /\ ~known.controlReceiptQueued
  <2>1. /\ ~NoIncoming.stored /\ NoIncoming.state = "submitted"
        /\ NoIncoming.statusRevision = 0 /\ NoIncoming.acknowledgedRevision = 0
        /\ NoIncoming.artifactEpoch = 0 /\ ~NoIncoming.artifactAcknowledged
        /\ ~NoIncoming.controlReceiptQueued
    BY DEF NoIncoming
  <2>2. CASE admission = "full"
    <3>1. known = NoIncoming
      BY <2>2
    <3> HIDE DEF known
    <3> QED
      BY <1>4, <2>1, <2>2, <3>1 DEF Incoming
  <2>3. CASE admission # "full"
    <3>1. known = incomingRecord(status)
      BY <2>3
    <3>2. \E a, c : known = [NoIncoming EXCEPT
                             !.stored = TRUE,
                             !.state = IF status = "received" THEN "submitted" ELSE "rejected",
                             !.approval = a, !.safeErrorCode = c]
      BY <3>1 DEF incomingRecord
    <3> HIDE DEF known, status
    <3> QED
      BY <1>4, <2>1, <2>3, <3>2 DEF Incoming
  <2> QED
    BY <2>2, <2>3
<1>17. receipt \in Receipt
  <2>1. m.copy \in Nat
    BY DEF ReceiveRequest, TypeOK, Message
  <2> QED
    BY <1>3, <2>1 DEF Receipt, ReceiptStatus
<1> HIDE DEF known, receipt
<1>6. /\ r \in Incoming /\ receipted \in Incoming
      /\ r.stored = known.stored /\ r.state = known.state /\ r.statusRevision = 0
      /\ r.acknowledgedRevision = 0 /\ r.artifactEpoch = 0
      /\ ~r.artifactAcknowledged /\ ~r.controlReceiptQueued
      /\ receipted.stored = known.stored /\ receipted.state = known.state
      /\ receipted.statusRevision = 0 /\ receipted.acknowledgedRevision = 0
      /\ receipted.artifactEpoch = 0 /\ ~receipted.artifactAcknowledged
      /\ ~receipted.controlReceiptQueued
  BY <1>4, <1>5, <1>17 DEF Incoming
<1>16. msg.type = "receipt" /\ msg.status = status /\ msg \in Message
  BY <1>17, HostMessages DEF RequestReceipt, receipt
<1> HIDE DEF r, receipted, msg
<1>7. (Kept(o) = r \/ Kept(o) = receipted) /\ o.sent \subseteq {msg}
  <2>1. Start(r, r) \in Outcome(Incoming)
    BY <1>6 DEF Start, Outcome
  <2>2. /\ o.rec \in {Start(r, r).rec, receipted, r} /\ o.disk \in {Start(r, r).disk, receipted, r}
        /\ o.sent \subseteq Start(r, r).sent \cup {msg}
    BY <1>1, <1>6, <1>16, <2>1, SendThenSaveOutcomes
  <2> QED
    BY <2>2 DEF Start, Kept
<1>8. /\ incoming'.stored = known.stored /\ incoming'.state = known.state
      /\ incoming'.statusRevision = 0 /\ incoming'.acknowledgedRevision = 0
      /\ incoming'.artifactEpoch = 0
      /\ ~incoming'.artifactAcknowledged /\ ~incoming'.controlReceiptQueued
  BY <1>1, <1>6, <1>7
<1>9. Sound(incoming')
  BY <1>5, <1>8 DEF Sound
<1>10. \A x \in net' : x \in net \/ (x.type = "receipt" /\ x.status = status)
  BY <1>1, <1>7, <1>16 DEF Consume
<1>11. /\ Coming' \in Incoming /\ Coming'.stored = known.stored
       /\ isTerminalTaskState(incoming'.state) => Coming' = incoming'
       /\ Coming.stored = FALSE
  BY <1>8, <1>9, ComingFacts, ComingFactsNext DEF ClaimsInv
<1>12. ~Refused /\ (produced => due[Host]) /\ (NoResultToCome => ~produced /\ due[Host])
  BY <1>11 DEF Refused, ClaimsInv, ResultsAreProduced, NoResultToCome
<1> HIDE DEF status
<1>13. CASE admission = "full"
  <2>1. ~incoming'.stored /\ status # "received"
    BY <1>3, <1>5, <1>8, <1>13
  <2>2. RequestIsKnown'
    BY <1>2, <1>3, <1>10, <2>1 DEF ClaimsInv, RequestIsKnown, NothingHeard, HeardOfIt
  <2>3. StatusesAreAnnounced' /\ CancelReceiptsAreTrue'
    BY <2>1 DEF StatusesAreAnnounced, CancelReceiptsAreTrue
  <2>4. ResultsAreProduced'
    BY <1>2, <1>8, <1>10, <1>12, <2>1 DEF ClaimsInv, ResultsAreProduced, TellsOfResult
  <2>5. EndsExcludeResults'
    BY <1>2, <1>10, <1>12, <2>1 DEF ClaimsInv, EndsExcludeResults, NoResultToCome
  <2>6. ResultReceiptsAreTrue'
    BY <1>2, <1>10, <2>1 DEF ClaimsInv, ResultReceiptsAreTrue
  <2> QED
    BY <1>9, <2>2, <2>3, <2>4, <2>5, <2>6 DEF ClaimsInv
<1>14. CASE admission # "full" /\ status # "received"
  <2>1. /\ incoming'.stored /\ incoming'.state = "rejected" /\ Coming' = incoming'
        /\ Coming'.state = "rejected" /\ Coming'.stored
    BY <1>5, <1>8, <1>11, <1>14 DEF isTerminalTaskState, Terminal
  <2>2. Refused'
    BY <1>8, <2>1 DEF Refused, isTerminalTaskState, Terminal
  <2>3. RequestIsKnown' /\ StatusesAreAnnounced' /\ CancelReceiptsAreTrue'
    BY <2>1, <2>2
    DEF RequestIsKnown, StatusesAreAnnounced, CancelReceiptsAreTrue, isTerminalTaskState, Terminal
  <2>4. ResultsAreProduced'
    BY <1>2, <1>8, <1>10, <2>2 DEF ClaimsInv, ResultsAreProduced, TellsOfResult
  <2>5. NoResultToCome => NoResultToCome'
    BY <1>2, <1>12, <2>1 DEF NoResultToCome, Terminal
  <2>6. EndsExcludeResults'
    BY <1>2, <1>10, <2>5 DEF ClaimsInv, EndsExcludeResults
  <2>7. ResultReceiptsAreTrue'
    BY <1>2, <1>8, <1>10 DEF ClaimsInv, ResultReceiptsAreTrue
  <2> QED
    BY <1>9, <2>3, <2>4, <2>6, <2>7 DEF ClaimsInv
<1>15. CASE status = "received"
  <2>1. /\ ~due[Host] /\ NothingHeard /\ incoming'.stored /\ ~produced /\ ~NoResultToCome
    BY <1>3, <1>5, <1>8, <1>12, <1>15 DEF ClaimsInv, RequestIsKnown
  <2>2. Coming'.statusRevision = 0
    <3>1. incoming'.state = "submitted"
      BY <1>5, <1>8, <1>15
    <3>2. restarted(incoming', handle', kernel', due'[Host]) = incoming'
      BY <1>2, <2>1, <3>1 DEF restarted, expireDueIncoming
    <3> QED
      BY <1>8, <3>2 DEF Coming
  <2>3. /\ \A x \in net' : x.type \notin {"status", "artifact", "artifact_receipt", "control_receipt"}
        /\ outgoing.statusRevision = 0 /\ ~outgoing.artifact
        /\ outgoing.cancel # "acknowledged"
    BY <1>10, <2>1 DEF NothingHeard, HeardOfIt
  <2>4. RequestIsKnown' /\ StatusesAreAnnounced' /\ CancelReceiptsAreTrue'
    BY <1>2, <2>1, <2>2, <2>3 DEF RequestIsKnown, StatusesAreAnnounced, CancelReceiptsAreTrue
  <2>5. ResultsAreProduced'
    BY <1>2, <1>8, <2>1, <2>3 DEF ClaimsInv, ResultsAreProduced, TellsOfResult
  <2>6. EndsExcludeResults'
    BY <1>2, <2>1, <2>3 DEF ClaimsInv, EndsExcludeResults
  <2>7. ResultReceiptsAreTrue'
    BY <1>2, <1>8, <2>3 DEF ResultReceiptsAreTrue
  <2> QED
    BY <1>9, <2>4, <2>5, <2>6, <2>7 DEF ClaimsInv
<1> QED
  BY <1>13, <1>14, <1>15

(* The two receipts that reach the host.                                   *)
LEMMA ReceiveReceiptsTell ==
  ASSUME TypeOK, TypeOK', ClaimsInv, NEW m \in net,
         ReceiveStatusReceipt(m) \/ ReceiveArtifactReceipt(m)
  PROVE  HostTells \/ HostIsSilent
<1>1. /\ incoming \in Incoming /\ up[Host] /\ up'[Host] /\ Coming = incoming
      /\ Coming' = incoming' /\ outgoing' = outgoing /\ produced' = produced /\ due' = due
      /\ net' \subseteq net /\ Sound(incoming)
  BY DEF TypeOK, ClaimsInv, Coming, ReceiveStatusReceipt, ReceiveArtifactReceipt, Consume,
         requesterUnchanged
<1>2. CASE ~incoming.stored
  <2>1. incoming' = incoming
    BY <1>2
    DEF ReceiveStatusReceipt, ReceiveArtifactReceipt, acknowledgeStatus, acknowledgeArtifact
  <2> QED
    BY <1>1, <1>2, <2>1 DEF HostIsSilent
<1>3. CASE incoming.stored
  <2>1. /\ incoming'.stored = incoming.stored /\ incoming'.state = incoming.state
        /\ incoming'.statusRevision = incoming.statusRevision
        /\ incoming'.artifactEpoch = incoming.artifactEpoch
        /\ incoming'.controlReceiptQueued = incoming.controlReceiptQueued
        /\ ~incoming'.statusPending => incoming'.acknowledgedRevision >= incoming'.statusRevision
        /\ incoming'.artifactAcknowledged => incoming.artifactAcknowledged
                                               \/ \E x \in net : x.type = "artifact_receipt"
    <3>1. CASE ReceiveStatusReceipt(m)
      <4>1. incoming' = acknowledgeStatus(incoming, m.revision) /\ m.revision \in Nat
        BY <3>1, TypeFacts DEF ReceiveStatusReceipt
      <4> QED
        BY <1>1, <4>1 DEF acknowledgeStatus, Incoming, Sound
    <3>2. CASE ReceiveArtifactReceipt(m)
      <4>1. incoming' = acknowledgeArtifact(incoming) /\ m.type = "artifact_receipt"
        BY <3>2 DEF ReceiveArtifactReceipt
      <4> QED
        BY <1>1, <4>1 DEF acknowledgeArtifact, Incoming, Sound
    <3> QED
      BY <3>1, <3>2
  <2>2. Sound(incoming')
    BY <1>1, <2>1 DEF Sound
  <2>3. Supersedes(incoming, incoming')
    BY <1>1, <2>1 DEF Supersedes, Incoming
  <2>4. incoming'.artifactEpoch > 0 => produced'
    BY <1>1, <2>1 DEF ClaimsInv, ResultsAreProduced
  <2> QED
    BY <1>1, <1>3, <2>1, <2>2, <2>3, <2>4 DEF HostTells
<1> QED
  BY <1>2, <1>3

(* Steps that leave the host's record alone, or save the coming one.       *)
LEMMA QuietStepsTell ==
  ASSUME TypeOK, TypeOK', ClaimsInv,
         outgoing' = outgoing, produced' = produced, net' \subseteq net, due[Host] => due'[Host],
         Sound(incoming'), incoming'.stored = incoming.stored,
         ~incoming.stored => incoming' = incoming,
         incoming'.artifactEpoch > 0 => incoming.state = "completed",
         incoming'.artifactAcknowledged = incoming.artifactAcknowledged,
         Later(Coming, Coming')
  PROVE  HostTells \/ HostIsSilent
<1>1. CASE ~incoming.stored
  BY <1>1 DEF HostIsSilent
<1>2. CASE incoming.stored
  <2>1. incoming'.artifactEpoch > 0 => produced'
    BY DEF ClaimsInv, ResultsAreProduced, Sound
  <2> QED
    BY <1>2, <2>1 DEF HostTells, Later
<1> QED
  BY <1>1, <1>2

(* The steps in which the host sends nothing.                              *)
LEMMA HostQuietStepsTell ==
  ASSUME TypeOK, TypeOK', ClaimsInv,
         \/ \E result \in Results : Settle(result)
         \/ CaptureCheckpoint \/ SettleHandle \/ ResumeRefused
         \/ HostExpireDue \/ HostStart
         \/ \E orderly \in BOOLEAN : HostCrash(orderly)
         \/ \E m \in net : Lose(m)
         \/ RequesterCrash
         \/ \E n \in Node : ClockPassesExpiry(n)
  PROVE  HostTells \/ HostIsSilent
<1>1. /\ incoming \in Incoming /\ Sound(incoming) /\ due \in [Node -> BOOLEAN] /\ Host \in Node
      /\ up \in [Node -> BOOLEAN] /\ Requester # Host /\ due[Host] \in BOOLEAN
      /\ Coming \in Incoming /\ Later(Coming, Coming) /\ Later(incoming, Coming)
      /\ Coming.stored = incoming.stored /\ Later(incoming, incoming)
      /\ Coming.state = "completed" <=> incoming.state = "completed"
      /\ Sound(Coming)
      /\ ~up[Host] => kernel = Idle
      /\ (incoming.state = "completed") <=> (incoming.artifactEpoch > 0)
      /\ (Coming.state = "completed") <=> (Coming.artifactEpoch > 0)
  BY ComingFacts, LaterChain DEF TypeOK, ClaimsInv, Node, Requester, Host, RunsInv, Sound
<1>2. ASSUME UNCHANGED <<outgoing, incoming, due, produced>>, net' \subseteq net,
             \/ up[Host] /\ up'[Host]
             \/ up'[Host] = up[Host] /\ handle' = handle /\ kernel' = kernel
      PROVE  HostTells \/ HostIsSilent
  <2>1. Coming' = Coming
    BY <1>2 DEF Coming
  <2> QED
    BY <1>1, <1>2, <2>1, QuietStepsTell
<1>3. CASE \/ \E result \in Results : Settle(result)
           \/ CaptureCheckpoint \/ SettleHandle \/ ResumeRefused
  <2>1. UNCHANGED <<outgoing, incoming, net, due, produced, up>>
    BY <1>3 DEF Settle, CaptureCheckpoint, SettleHandle, ResumeRefused, requesterUnchanged
  <2>2. up[Host]
    BY <1>1, <1>3 DEF Settle, CaptureCheckpoint, SettleHandle, ResumeRefused, Idle
  <2> QED
    BY <1>2, <2>1, <2>2
<1>4. CASE (\E m \in net : Lose(m)) \/ RequesterCrash
  <2>1. UNCHANGED <<outgoing, incoming, due, produced, handle, kernel>> /\ net' \subseteq net
    BY <1>4 DEF Lose, RequesterCrash, requesterUnchanged, hostUnchanged
  <2>2. up'[Host] = up[Host]
    BY <1>1, <1>4 DEF Lose, RequesterCrash
  <2> QED
    BY <1>2, <2>1, <2>2
<1>5. CASE HostExpireDue
  <2>1. /\ up[Host] /\ up'[Host] /\ UNCHANGED <<outgoing, net, due, produced>>
        /\ incoming' = expireDueIncoming(incoming, due[Host])
    BY <1>5 DEF HostExpireDue, requesterUnchanged
  <2>2. /\ Sound(incoming') /\ Later(incoming, incoming')
        /\ incoming' = incoming \/ incoming'.state = "rejected"
    BY <1>1, <2>1, ExpiryAdvances
  <2>3. Coming = incoming /\ Coming' = incoming'
    BY <2>1 DEF Coming
  <2>4. ~incoming.stored => incoming' = incoming
    BY <2>1 DEF expireDueIncoming
  <2>5. /\ incoming'.stored = incoming.stored
        /\ incoming'.artifactAcknowledged = incoming.artifactAcknowledged
        /\ incoming'.artifactEpoch > 0 => incoming.state = "completed"
    BY <1>1, <2>2 DEF Later, Supersedes, Sound
  <2> QED
    BY <2>1, <2>2, <2>3, <2>4, <2>5, QuietStepsTell
<1>6. CASE HostStart
  <2>1. /\ ~up[Host] /\ up'[Host] /\ UNCHANGED <<outgoing, net, due, produced>>
        /\ incoming' = restarted(incoming, handle, kernel, due[Host])
    BY <1>1, <1>6 DEF HostStart, requesterUnchanged, restarted
  <2>2. incoming' = Coming /\ Coming' = Coming
    BY <2>1 DEF Coming
  <2>3. ~incoming.stored => incoming' = incoming
    BY <2>1 DEF restarted, expireDueIncoming
  <2>4. incoming'.artifactAcknowledged = incoming.artifactAcknowledged
    BY <1>1, <2>2 DEF Later
  <2> QED
    BY <1>1, <2>1, <2>2, <2>3, <2>4, QuietStepsTell
<1>7. CASE \E orderly \in BOOLEAN : HostCrash(orderly)
  <2>1. /\ up[Host] /\ ~up'[Host] /\ UNCHANGED <<outgoing, incoming, net, due, produced>>
    BY <1>1, <1>7 DEF HostCrash, requesterUnchanged
  <2>2. Coming = incoming /\ Coming' = restarted(incoming, handle', kernel', due[Host])
    BY <2>1 DEF Coming
  <2>3. Later(Coming, Coming')
    BY <1>1, <2>2, RestartAdvances
  <2> QED
    BY <1>1, <2>1, <2>3, QuietStepsTell
<1>8. CASE \E n \in Node : ClockPassesExpiry(n)
  <2>1. PICK n \in Node : ClockPassesExpiry(n)
    BY <1>8
  <2>2. /\ UNCHANGED <<outgoing, incoming, net, produced, up, handle, kernel>>
        /\ due' = [due EXCEPT ![n] = TRUE] /\ ~due[n]
    BY <2>1 DEF ClockPassesExpiry, requesterUnchanged, hostUnchanged
  <2>3. (due[Host] => due'[Host]) /\ due'[Host] \in BOOLEAN
    BY <1>1, <2>2
  <2>4. Later(Coming, Coming')
    <3>1. CASE due'[Host] = due[Host] \/ up[Host]
      BY <1>1, <2>2, <3>1 DEF Coming
    <3>2. CASE ~due[Host] /\ ~up[Host]
      <4> DEFINE c == restarted(incoming, handle, kernel, FALSE)
      <4>1. Coming = c
        BY <3>2, <1>1 DEF Coming
      <4>2. Coming' = expireDueIncoming(c, due'[Host])
        BY <2>2, <3>2 DEF Coming, restarted, expireDueIncoming
      <4> HIDE DEF c
      <4> QED
        BY <1>1, <2>3, <4>1, <4>2, ExpiryAdvances
    <3> QED
      BY <1>1, <2>3, <3>1, <3>2
  <2> QED
    BY <1>1, <2>2, <2>3, <2>4, QuietStepsTell
<1> QED
  BY <1>3, <1>4, <1>5, <1>6, <1>7, <1>8

(* A full store drops the record of a request past its expiry.             *)
LEMMA EvictIncomingClaims ==
  ASSUME TypeOK, TypeOK', ClaimsInv, RunsInv', EvictIncoming
  PROVE  ClaimsInv'
<1>1. /\ due[Host] /\ due' = due /\ incoming' = NoIncoming /\ ~incoming'.stored
      /\ UNCHANGED <<outgoing, net, produced>>
      /\ Sound(incoming') /\ incoming'.artifactEpoch = 0
  BY NewRecords DEF EvictIncoming, requesterUnchanged, Sound, NoIncoming
<1>2. RequestIsKnown' /\ StatusesAreAnnounced' /\ CancelReceiptsAreTrue'
  BY <1>1 DEF RequestIsKnown, StatusesAreAnnounced, CancelReceiptsAreTrue
<1>3. ResultsAreProduced'
  BY <1>1 DEF ClaimsInv, ResultsAreProduced
<1>4. NoResultToCome => NoResultToCome'
  BY <1>1 DEF NoResultToCome
<1>5. EndsExcludeResults'
  BY <1>1, <1>4 DEF ClaimsInv, EndsExcludeResults
<1>6. ResultReceiptsAreTrue'
  BY <1>1 DEF ClaimsInv, ResultReceiptsAreTrue
<1> QED
  BY <1>1, <1>2, <1>3, <1>5, <1>6 DEF ClaimsInv

-----------------------------------------------------------------------------
(* Steps of the requester.                                                  *)

(* What an operation of the requester does to its record b, messages       *)
(* apart: nothing is acknowledged, completed or ended before its request   *)
(* was sent, unless a result is there.                                     *)
Moves(b, r) ==
  /\ r \in Outgoing /\ r.stored = b.stored
  /\ r.statusRevision = b.statusRevision /\ r.artifact = b.artifact
  /\ isTerminalTaskState(b.state) => isTerminalTaskState(r.state)
  /\ r.delivery = "acknowledged" => b.delivery = "acknowledged" \/ b.artifact
  /\ r.cancel = "acknowledged" => b.cancel = "acknowledged"
  /\ r.state = "completed" => b.state = "completed" \/ b.artifact
  /\ EndsWithout(r.state) /\ r.delivery \in Unsent => EndsWithout(b.state) /\ b.delivery \in Unsent
  /\ Outranks(b) => Outranks(r)

RequesterSays(b) ==
  {o \in Outcome(Outgoing) :
     /\ Moves(b, o.rec) /\ Moves(b, o.disk)
     /\ \A m \in o.sent : m.type \in {"request", "status_receipt", "cancel"}}

(* Moves follow each other.                                                *)
LEMMA MovesChain ==
  ASSUME NEW a \in Outgoing, NEW b \in Outgoing, NEW c \in Outgoing
  PROVE  Moves(a, a) /\ (Moves(a, b) /\ Moves(b, c) => Moves(a, c))
<1>1. Moves(a, a)
  BY DEF Moves
<1>2. Moves(a, b) /\ Moves(b, c) => Moves(a, c)
  BY DEF Moves
<1> QED
  BY <1>1, <1>2

(* The fields that Moves does not read.                                    *)
LEMMA MovesAside ==
  ASSUME NEW b, NEW r \in Outgoing, NEW s \in Outgoing, Moves(b, r),
         s.stored = r.stored, s.state = r.state, s.delivery = r.delivery,
         s.safeErrorCode = r.safeErrorCode, s.statusRevision = r.statusRevision,
         s.artifact = r.artifact, s.cancel = "acknowledged" => r.cancel = "acknowledged"
  PROVE  Moves(b, s)
BY DEF Moves, Outranks

(* A send within an operation of the requester.                            *)
LEMMA RequesterSaysSend ==
  ASSUME NEW b, NEW o \in RequesterSays(b), NEW m \in Message,
         m.type \in {"request", "status_receipt", "cancel"},
         NEW okay, NEW failed, Moves(b, okay), Moves(b, failed),
         NEW after \in {"run", "return"}
  PROVE  SendThenSave(o, m, okay, failed, after) \subseteq RequesterSays(b)
<1>1. SUFFICES ASSUME NEW p \in SendThenSave(o, m, okay, failed, after)
               PROVE  p \in RequesterSays(b)
  OBVIOUS
<1>2. o \in Outcome(Outgoing) /\ okay \in Outgoing /\ failed \in Outgoing
  BY DEF RequesterSays, Moves
<1>3. /\ p \in Outcome(Outgoing)
      /\ p.rec \in {o.rec, okay, failed}
      /\ p.disk \in {o.disk, okay, failed}
      /\ p.sent \subseteq o.sent \cup {m}
  BY <1>2, SendThenSaveOutcomes
<1>4. Moves(b, p.rec) /\ Moves(b, p.disk)
  BY <1>3 DEF RequesterSays
<1>5. \A x \in p.sent : x.type \in {"request", "status_receipt", "cancel"}
  BY <1>3 DEF RequesterSays
<1> QED
  BY <1>3, <1>4, <1>5 DEF RequesterSays

(* A record that is saved, and nothing sent.                               *)
LEMMA RequesterSaysSave ==
  ASSUME NEW b, NEW o \in RequesterSays(b), NEW r, Moves(b, r)
  PROVE  [o EXCEPT !.rec = r, !.disk = r] \in RequesterSays(b)
<1> DEFINE p == [o EXCEPT !.rec = r, !.disk = r]
<1>1. o \in Outcome(Outgoing) /\ r \in Outgoing
  BY DEF RequesterSays, Moves
<1>2. /\ p \in Outcome(Outgoing) /\ p.rec = r /\ p.disk = r /\ p.sent = o.sent
  BY <1>1 DEF Outcome
<1> HIDE DEF p
<1>3. p \in RequesterSays(b)
  BY <1>2 DEF RequesterSays
<1> QED
  BY <1>3 DEF p

(* The expiry sweep: a result outranks it.                                 *)
LEMMA ExpiryMoves ==
  ASSUME NEW r \in Outgoing, Outranks(r), NEW d
  PROVE  LET e == expireDueOutgoing(r, d)
         IN  Moves(r, e) /\ (e.artifact => e.delivery \notin Unsent)
<1> DEFINE c == completeOutgoingSingleStageFromVerifiedArtifact(r)
           e == expireDueOutgoing(r, d)
           x == expireOutgoing(c)
<1>1. e = x \/ e = c
  BY DEF expireDueOutgoing
<1>2. CASE ~r.artifact
  <2>1. c = r
    BY <1>2 DEF completeOutgoingSingleStageFromVerifiedArtifact
  <2>2. /\ x \in Outgoing /\ x.stored = r.stored /\ x.statusRevision = r.statusRevision
        /\ x.artifact = r.artifact /\ x.state = "rejected" /\ x.delivery = "expired"
        /\ x.cancel = "none"
    BY <2>1 DEF expireOutgoing, clearCancelDeliveryState, Outgoing, TaskState, SafeErrorCode
  <2> HIDE DEF x, c, e
  <2>3. Moves(r, x) /\ ~x.artifact
    BY <1>2, <2>2 DEF Moves, Outranks, isTerminalTaskState, Terminal, Unsent
  <2> QED
    BY <1>1, <1>2, <2>1, <2>3, MovesChain DEF e
<1>3. CASE r.artifact
  <2>1. CASE r.state = "completed"
    <3>1. c = [clearCancelDeliveryState(r) EXCEPT
                 !.state = "completed", !.delivery = "acknowledged", !.safeErrorCode = "other"]
      BY <1>3, <2>1 DEF completeOutgoingSingleStageFromVerifiedArtifact
    <3>2. /\ c \in Outgoing /\ c.stored = r.stored /\ c.statusRevision = r.statusRevision
          /\ c.artifact = r.artifact /\ c.state = "completed" /\ c.delivery = "acknowledged"
          /\ c.cancel = "none"
      BY <3>1 DEF clearCancelDeliveryState, Outgoing, TaskState, SafeErrorCode
    <3> HIDE DEF c
    <3>3. e = c
      BY <3>2 DEF expireDueOutgoing, c, isTerminalTaskState, Terminal
    <3>4. Moves(r, c)
      BY <1>3, <3>2 DEF Moves, Outranks, isTerminalTaskState, Terminal, EndsWithout, Unsent
    <3> HIDE DEF e
    <3> QED
      BY <3>2, <3>3, <3>4 DEF e, Unsent
  <2>2. CASE r.state # "completed"
    <3>1. /\ r.state \in Terminal /\ r.delivery \notin Unsent
          /\ r.state = "rejected" => r.safeErrorCode # "TASK_EXPIRED"
      BY <1>3, <2>2 DEF Outranks
    <3>2. c = r
      BY <2>2, <3>1 DEF completeOutgoingSingleStageFromVerifiedArtifact, Terminal
    <3>3. e = r
      BY <3>1, <3>2 DEF expireDueOutgoing, isTerminalTaskState, Unsent
    <3> QED
      BY <3>1, <3>3, MovesChain
  <2> QED
    BY <2>1, <2>2
<1> QED
  BY <1>2, <1>3

(* Sending the request.                                                    *)
LEMMA TrySendMoves ==
  ASSUME NEW b \in Outgoing, NEW o \in RequesterSays(b), NEW connected, copies \in Nat,
         o.rec.artifact => o.rec.delivery \notin Unsent
  PROVE  trySendStoredRecord(o, connected) \subseteq RequesterSays(b)
<1> DEFINE r == o.rec
           x == expireOutgoing(r)
           failed == [r EXCEPT !.delivery = "send_failed", !.safeErrorCode = "other"]
           sent == [r EXCEPT !.delivery = "sent", !.safeErrorCode = "other"]
<1>1. r \in Outgoing /\ Moves(b, r)
  BY DEF RequesterSays, Moves
<1>2. CASE r.delivery \notin Unsent
  BY <1>2 DEF trySendStoredRecord, Unsent
<1>3. CASE r.delivery \in Unsent
  <2>1. ~r.artifact
    BY <1>3
  <2>2. Moves(b, x)
    <3>1. /\ x \in Outgoing /\ x.stored = r.stored /\ x.statusRevision = r.statusRevision
          /\ x.artifact = r.artifact /\ x.state = "rejected" /\ x.delivery = "expired"
          /\ x.cancel = "none"
      BY <1>1 DEF expireOutgoing, clearCancelDeliveryState, Outgoing, TaskState, SafeErrorCode
    <3> HIDE DEF x, r
    <3>2. Moves(r, x)
      BY <2>1, <3>1 DEF Moves, Outranks, isTerminalTaskState, Terminal, Unsent
    <3> QED
      BY <1>1, <3>1, <3>2, MovesChain
  <2>3. Moves(b, failed)
    <3>1. /\ failed \in Outgoing /\ failed.stored = r.stored
          /\ failed.statusRevision = r.statusRevision
          /\ failed.artifact = r.artifact /\ failed.state = r.state
          /\ failed.delivery = "send_failed" /\ failed.cancel = r.cancel
      BY <1>1 DEF Outgoing, SafeErrorCode
    <3> HIDE DEF failed, r
    <3>2. Moves(r, failed)
      BY <1>3, <2>1, <3>1 DEF Moves, Outranks
    <3> QED
      BY <1>1, <3>1, <3>2, MovesChain
  <2>4. Moves(b, sent)
    <3>1. /\ sent \in Outgoing /\ sent.stored = r.stored
          /\ sent.statusRevision = r.statusRevision
          /\ sent.artifact = r.artifact /\ sent.state = r.state
          /\ sent.delivery = "sent" /\ sent.cancel = r.cancel
      BY <1>1 DEF Outgoing, SafeErrorCode
    <3> HIDE DEF sent, r
    <3>2. Moves(r, sent)
      BY <1>3, <2>1, <3>1 DEF Moves, Outranks, Unsent
    <3> QED
      BY <1>1, <3>1, <3>2, MovesChain
  <2> DEFINE msg == Request(copies + 1)
  <2>5. msg \in Message /\ msg.type = "request"
    BY DEF Request, Message
  <2>6. trySendStoredRecord(o, connected) \in
          {{[o EXCEPT !.rec = x, !.disk = x]},
           SendThenSave(o, msg, sent, failed, "run"),
           {[o EXCEPT !.rec = failed, !.disk = failed]}}
    BY <1>3 DEF trySendStoredRecord, Unsent
  <2> HIDE DEF x, failed, sent, msg
  <2>7. SendThenSave(o, msg, sent, failed, "run") \subseteq RequesterSays(b)
    BY <2>3, <2>4, <2>5, RequesterSaysSend
  <2>8. /\ [o EXCEPT !.rec = x, !.disk = x] \in RequesterSays(b)
        /\ [o EXCEPT !.rec = failed, !.disk = failed] \in RequesterSays(b)
    BY <2>2, <2>3, RequesterSaysSave
  <2> QED
    BY <2>6, <2>7, <2>8
<1> QED
  BY <1>2, <1>3

(* Sending the queued receipts.                                            *)
LEMMA SendStatusReceiptsMoves ==
  ASSUME NEW b \in Outgoing, NEW o \in RequesterSays(b), NEW connected
  PROVE  sendStatusReceipts(o, connected) \subseteq RequesterSays(b)
<1>1. SUFFICES ASSUME NEW p \in sendStatusReceipts(o, connected), p # o
               PROVE  p \in RequesterSays(b)
  OBVIOUS
<1>2. /\ o \in Outcome(Outgoing) /\ o.rec \in Outgoing /\ o.disk \in Outgoing
      /\ Moves(b, o.rec) /\ Moves(b, o.disk)
      /\ \A m \in o.sent : m.type \in {"request", "status_receipt", "cancel"}
  BY DEF RequesterSays, Moves
<1> DEFINE left(done) == o.rec.receiptOutbox \ done
           r(done) == [o.rec EXCEPT !.receiptOutbox = left(done)]
           receipts(S) == {StatusReceipt(n) : n \in S}
           q(done) == [o EXCEPT !.rec = r(done), !.disk = IF done = {} THEN @ ELSE r(done),
                                !.sent = @ \cup receipts(done)]
           stopped(done, tried, end) ==
             [q(done) EXCEPT !.sent = @ \cup receipts(tried), !.on = end, !.failures = @ + 1]
<1>3. PICK done \in SUBSET o.rec.receiptOutbox : p \in sentReceipts(o, done)
  BY <1>1 DEF sendStatusReceipts
<1>4. \/ p = q(done)
      \/ \E tried \in SUBSET o.rec.receiptOutbox, end \in {"run", "crash"} :
           p = stopped(done, tried, end)
  <2> DEFINE ends == {e \in {"run", "crash"} : \/ e = "run" /\ "throw" \in Faults
                                               \/ e = "crash" /\ "crash" \in Faults}
             tries == {t \in SUBSET left(done) : Cardinality(t) <= 1}
  <2>1. sentReceipts(o, done) =
          {x \in {q(done)} : left(done) = {}}
            \cup {stopped(done, tried, end) : tried \in tries, end \in ends}
    BY DEF sentReceipts
  <2> HIDE DEF stopped, q
  <2> QED
    BY <1>3, <2>1
<1>5. \A S \in SUBSET o.rec.receiptOutbox :
        /\ receipts(S) \subseteq Message
        /\ \A m \in receipts(S) : m.type = "status_receipt"
  BY <1>2, RequesterMessages DEF Outgoing
<1>6. r(done) \in Outgoing /\ Moves(b, r(done))
  <2> DEFINE s == r(done)
  <2>1. /\ s \in Outgoing /\ s.stored = o.rec.stored /\ s.state = o.rec.state
        /\ s.delivery = o.rec.delivery /\ s.safeErrorCode = o.rec.safeErrorCode
        /\ s.statusRevision = o.rec.statusRevision /\ s.artifact = o.rec.artifact
        /\ s.cancel = o.rec.cancel
    BY <1>2 DEF Outgoing
  <2> HIDE DEF s
  <2>2. Moves(b, s)
    BY <1>2, <2>1, MovesAside
  <2> QED
    BY <2>1, <2>2 DEF s
<1> HIDE DEF r, receipts
<1>7. /\ q(done) \in Outcome(Outgoing)
      /\ q(done).rec = r(done) /\ q(done).disk \in {o.disk, r(done)}
      /\ q(done).sent = o.sent \cup receipts(done)
  BY <1>2, <1>5, <1>6 DEF Outcome
<1> HIDE DEF q
<1>8. q(done) \in RequesterSays(b)
  BY <1>2, <1>5, <1>6, <1>7 DEF RequesterSays
<1>9. ASSUME NEW tried \in SUBSET o.rec.receiptOutbox, NEW end \in {"run", "crash"}
      PROVE  stopped(done, tried, end) \in RequesterSays(b)
  <2> DEFINE s == stopped(done, tried, end)
  <2>1. /\ q(done).sent \cup receipts(tried) \in SUBSET Message
        /\ q(done).failures + 1 \in Nat
    BY <1>5, <1>7 DEF Outcome
  <2>2. /\ s \in Outcome(Outgoing) /\ s.rec = q(done).rec /\ s.disk = q(done).disk
        /\ s.sent = q(done).sent \cup receipts(tried)
    BY <1>7, <2>1 DEF Outcome
  <2> QED
    BY <1>5, <1>8, <2>2 DEF RequesterSays
<1> QED
  BY <1>4, <1>8, <1>9

(* Sending the cancel.                                                     *)
LEMMA SendCancelMoves ==
  ASSUME NEW b \in Outgoing, NEW o \in RequesterSays(b), NEW connected, NEW elapsed
  PROVE  sendCancel(o, connected, elapsed) \subseteq RequesterSays(b)
<1> DEFINE r == o.rec
           f == [r EXCEPT !.controlFailed = TRUE]
           okay == [r EXCEPT !.controlAttempted = TRUE]
           failed == [r EXCEPT !.controlAttempted = TRUE, !.controlFailed = TRUE]
<1>1. r \in Outgoing /\ Moves(b, r)
  BY DEF RequesterSays, Moves
<1>2. ASSUME NEW s \in {f, okay, failed}
      PROVE  Moves(b, s)
  <2>1. /\ s \in Outgoing /\ s.stored = r.stored /\ s.state = r.state
        /\ s.delivery = r.delivery /\ s.safeErrorCode = r.safeErrorCode
        /\ s.statusRevision = r.statusRevision /\ s.artifact = r.artifact
        /\ s.cancel = r.cancel
    BY <1>1 DEF Outgoing
  <2> HIDE DEF f, okay, failed, r
  <2> QED
    BY <1>1, <2>1, MovesAside
<1>3. Moves(b, f) /\ Moves(b, okay) /\ Moves(b, failed)
  BY <1>2
<1>4. Cancel \in Message /\ Cancel.type = "cancel"
  BY DEF Cancel, Message
<1>5. sendCancel(o, connected, elapsed) \in
        {{o}, {[o EXCEPT !.rec = f, !.disk = f]}, SendThenSave(o, Cancel, okay, failed, "return")}
  BY DEF sendCancel
<1> HIDE DEF f, okay, failed
<1>6. SendThenSave(o, Cancel, okay, failed, "return") \subseteq RequesterSays(b)
  BY <1>3, <1>4, RequesterSaysSend
<1>7. [o EXCEPT !.rec = f, !.disk = f] \in RequesterSays(b)
  BY <1>3, RequesterSaysSave
<1> QED
  BY <1>5, <1>6, <1>7

(* A step of the requester: what it sends, and what it makes of its record *)
(* with the messages there are.                                            *)
RequesterTells ==
  /\ UNCHANGED <<incoming, handle, kernel, finishes, produced, due>>
  /\ up'[Host] = up[Host]
  /\ \A m \in net' : m \notin net =>
       \/ m.type \in {"request", "status_receipt", "cancel"}
       \/ m.type = "artifact_receipt" /\ outgoing'.artifact
  /\ \/ incoming.stored \/ due[Host]
     \/ /\ \A m \in net' : m \in net \/ m.type # "artifact_receipt"
        /\ outgoing.statusRevision = 0 => outgoing'.statusRevision = 0
        /\ outgoing'.artifact => outgoing.artifact
        /\ outgoing'.delivery = "acknowledged" => outgoing.delivery = "acknowledged"
                                                    \/ outgoing.artifact
        /\ outgoing'.cancel = "acknowledged" => outgoing.cancel = "acknowledged"
  /\ outgoing'.stored =>
       /\ outgoing.stored
       /\ outgoing.artifact => outgoing'.artifact
       /\ \/ /\ outgoing'.statusRevision = outgoing.statusRevision
             /\ isTerminalTaskState(outgoing.state) => isTerminalTaskState(outgoing'.state)
          \/ \E m \in net : /\ m.type = "status" /\ outgoing'.statusRevision = m.revision
                            /\ outgoing'.state = m.state
  /\ outgoing'.artifact \/ outgoing'.state = "completed" => produced
  /\ EndsWithout(outgoing'.state) /\ outgoing'.delivery \in Unsent => NoResultToCome
  /\ Outranks(outgoing')
  /\ outgoing'.cancel = "acknowledged" =>
       outgoing.cancel = "acknowledged" \/ \E m \in net : m.type = "control_receipt"

(* Such a step keeps every claim.                                          *)
LEMMA RequesterTellsClaims ==
  ASSUME TypeOK, TypeOK', ClaimsInv, RequesterTells
  PROVE  ClaimsInv'
<1>1. /\ UNCHANGED <<incoming, handle, kernel, finishes, produced, due>>
      /\ up'[Host] = up[Host] /\ Sound(incoming)
  BY DEF RequesterTells, ClaimsInv
<1>2. Coming' = Coming
  BY <1>1 DEF Coming
<1>3. (Refused' <=> Refused) /\ (NoResultToCome' <=> NoResultToCome)
  BY <1>1, <1>2 DEF Refused, NoResultToCome
<1>4. RunsInv' /\ Sound(incoming')
  BY <1>1 DEF ClaimsInv, RunsInv
<1>5. RequestIsKnown'
  <2>1. CASE incoming.stored \/ due[Host]
    BY <1>1, <2>1 DEF RequestIsKnown
  <2>2. CASE ~incoming.stored /\ ~due[Host]
    <3>1. NothingHeard
      BY <2>2 DEF ClaimsInv, RequestIsKnown
    <3>2. \A m \in net' : ~HeardOfIt(m)
      BY <2>2, <3>1 DEF RequesterTells, NothingHeard, HeardOfIt
    <3> QED
      BY <2>2, <3>1, <3>2 DEF RequesterTells, NothingHeard, RequestIsKnown
  <2> QED
    BY <2>1, <2>2
<1>6. StatusesAreAnnounced'
  <2>1. SUFFICES ASSUME incoming.stored, ~Refused
                 PROVE  /\ \A m \in net' : m.type = "status" => Announces(Coming, m)
                        /\ outgoing'.stored =>
                             /\ outgoing'.statusRevision <= Coming.statusRevision
                             /\ (/\ outgoing'.statusRevision = Coming.statusRevision
                                 /\ isTerminalTaskState(Coming.state) /\ Coming.statusRevision > 0)
                                  => isTerminalTaskState(outgoing'.state)
    BY <1>1, <1>2, <1>3 DEF StatusesAreAnnounced
  <2>2. \A m \in net : m.type = "status" => Announces(Coming, m)
    BY <2>1 DEF ClaimsInv, StatusesAreAnnounced
  <2>3. \A m \in net' : m.type = "status" => Announces(Coming, m)
    BY <2>2 DEF RequesterTells
  <2>4. ASSUME outgoing'.stored
        PROVE  /\ outgoing'.statusRevision <= Coming.statusRevision
               /\ (/\ outgoing'.statusRevision = Coming.statusRevision
                   /\ isTerminalTaskState(Coming.state) /\ Coming.statusRevision > 0)
                    => isTerminalTaskState(outgoing'.state)
    <3>1. CASE /\ outgoing'.statusRevision = outgoing.statusRevision
               /\ isTerminalTaskState(outgoing.state) => isTerminalTaskState(outgoing'.state)
      BY <2>1, <2>4, <3>1 DEF RequesterTells, ClaimsInv, StatusesAreAnnounced
    <3>2. ASSUME NEW m \in net, m.type = "status", outgoing'.statusRevision = m.revision,
                 outgoing'.state = m.state
          PROVE  /\ outgoing'.statusRevision <= Coming.statusRevision
                 /\ (/\ outgoing'.statusRevision = Coming.statusRevision
                     /\ isTerminalTaskState(Coming.state) /\ Coming.statusRevision > 0)
                      => isTerminalTaskState(outgoing'.state)
      BY <2>2, <3>2 DEF Announces
    <3> QED
      BY <2>4, <3>1, <3>2 DEF RequesterTells
  <2> QED
    BY <2>3, <2>4
<1>7. ResultsAreProduced'
  <2>1. \A m \in net' : TellsOfResult(m) => produced
    BY DEF RequesterTells, ClaimsInv, ResultsAreProduced, TellsOfResult
  <2> QED
    BY <1>1, <1>3, <2>1 DEF RequesterTells, ClaimsInv, ResultsAreProduced
<1>8. EndsExcludeResults'
  BY <1>3 DEF RequesterTells, ClaimsInv, EndsExcludeResults
<1>9. ResultReceiptsAreTrue'
  BY <1>1 DEF RequesterTells, ClaimsInv, ResultReceiptsAreTrue
<1>10. CancelReceiptsAreTrue'
  BY <1>1 DEF RequesterTells, ClaimsInv, CancelReceiptsAreTrue
<1> QED
  BY <1>4, <1>5, <1>6, <1>7, <1>8, <1>9, <1>10 DEF ClaimsInv

(* A step that only moves the record.                                      *)
LEMMA MovesTell ==
  ASSUME TypeOK, ClaimsInv, Moves(outgoing, outgoing'),
         UNCHANGED <<incoming, handle, kernel, finishes, produced, due>>,
         up'[Host] = up[Host],
         \A m \in net' : m \in net \/ m.type \in {"request", "status_receipt", "cancel"}
  PROVE  RequesterTells
<1>1. outgoing'.artifact \/ outgoing'.state = "completed" => produced
  BY DEF Moves, ClaimsInv, ResultsAreProduced
<1>2. EndsWithout(outgoing'.state) /\ outgoing'.delivery \in Unsent => NoResultToCome
  BY DEF Moves, ClaimsInv, EndsExcludeResults
<1>3. Outranks(outgoing')
  BY DEF Moves, ClaimsInv, EndsExcludeResults
<1> QED
  BY <1>1, <1>2, <1>3 DEF RequesterTells, Moves

(* An operation of the requester whose outcomes all move its record.       *)
LEMMA RequesterEndsTells ==
  ASSUME TypeOK, ClaimsInv, NEW S \in SUBSET RequesterSays(outgoing), RequesterEnds(S)
  PROVE  RequesterTells
<1>1. PICK o \in S : /\ outgoing' = Kept(o)
                     /\ net' = net \cup o.sent
                     /\ Survives(Requester, o)
                     /\ UNCHANGED due
                     /\ hostUnchanged
  BY DEF RequesterEnds
<1>2. /\ Moves(outgoing, outgoing')
      /\ \A m \in o.sent : m.type \in {"request", "status_receipt", "cancel"}
  BY <1>1 DEF RequesterSays, Kept
<1>3. up'[Host] = up[Host]
  BY <1>1 DEF Survives, TypeOK, Node, Requester, Host
<1>4. UNCHANGED <<incoming, handle, kernel, finishes, produced, due>>
  BY <1>1 DEF hostUnchanged
<1>5. \A m \in net' : m \in net \/ m.type \in {"request", "status_receipt", "cancel"}
  BY <1>1, <1>2
<1> QED
  BY <1>2, <1>3, <1>4, <1>5, MovesTell

(* A record with which an operation starts.                                *)
LEMMA RequesterSaysStarts ==
  ASSUME NEW b, NEW r, NEW d, Moves(b, r), Moves(b, d)
  PROVE  Start(r, d) \in RequesterSays(b) /\ Start(r, d).rec = r
<1> DEFINE o == Start(r, d)
<1>1. o \in Outcome(Outgoing) /\ o.rec = r /\ o.disk = d /\ o.sent = {}
  BY DEF Start, Outcome, Moves
<1> HIDE DEF o
<1>2. o \in RequesterSays(b)
  BY <1>1 DEF RequesterSays
<1> QED
  BY <1>1, <1>2 DEF o

(* The operations on a stored record.                                      *)
LEMMA RequesterOperationsTell ==
  ASSUME TypeOK, ClaimsInv, NEW connected, NEW elapsed,
         \/ Retry(connected)
         \/ RequestCancel(connected, elapsed)
         \/ RequesterFlush(connected, elapsed)
  PROVE  RequesterTells
<1> DEFINE e == expireDueOutgoing(outgoing, due[Requester])
<1>1. outgoing \in Outgoing /\ Outranks(outgoing) /\ Moves(outgoing, outgoing) /\ copies \in Nat
  BY MovesChain DEF TypeOK, ClaimsInv, EndsExcludeResults
<1>2. Moves(outgoing, e) /\ (e.artifact => e.delivery \notin Unsent)
  BY <1>1, ExpiryMoves
<1> DEFINE o == Start(e, outgoing)
           S == trySendStoredRecord(o, connected)
<1>3. S \subseteq RequesterSays(outgoing)
  <2>1. o \in RequesterSays(outgoing) /\ o.rec = e
    BY <1>1, <1>2, RequesterSaysStarts
  <2> HIDE DEF o, e
  <2> QED
    BY <1>1, <1>2, <2>1, TrySendMoves
<1>4. CASE Retry(connected)
  <2>1. RequesterEnds(S)
    BY <1>4 DEF Retry
  <2> HIDE DEF S
  <2> QED
    BY <1>3, <2>1, RequesterEndsTells
<1>5. CASE RequestCancel(connected, elapsed)
  <2> DEFINE r == requestCancel(outgoing)
             C == sendCancel(Start(r, r), connected, elapsed)
  <2>1. RequesterEnds(C)
    BY <1>5 DEF RequestCancel
  <2>2. Moves(outgoing, r)
    <3>1. /\ r \in Outgoing /\ r.stored = outgoing.stored /\ r.state = outgoing.state
          /\ r.delivery = outgoing.delivery /\ r.safeErrorCode = outgoing.safeErrorCode
          /\ r.statusRevision = outgoing.statusRevision /\ r.artifact = outgoing.artifact
          /\ r.cancel = "acknowledged" => outgoing.cancel = "acknowledged"
      BY <1>1 DEF requestCancel, Outgoing
    <3> HIDE DEF r
    <3> QED
      BY <1>1, <3>1, MovesAside
  <2>3. C \subseteq RequesterSays(outgoing)
    BY <1>1, <2>2, RequesterSaysStarts, SendCancelMoves
  <2> HIDE DEF C
  <2> QED
    BY <2>1, <2>3, RequesterEndsTells
<1>6. CASE RequesterFlush(connected, elapsed)
  <2> DEFINE S2 == Then(S, LAMBDA p : sendStatusReceipts(p, connected))
             S3 == Then(S2, LAMBDA p : sendCancel(p, connected, elapsed))
  <2>1. RequesterEnds(S3)
    BY <1>6 DEF RequesterFlush
  <2> HIDE DEF S
  <2>2. S2 \subseteq RequesterSays(outgoing)
    <3>1. \A p \in RequesterSays(outgoing) :
            sendStatusReceipts(p, connected) \subseteq RequesterSays(outgoing)
      BY <1>1, SendStatusReceiptsMoves
    <3> QED
      BY <1>3, <3>1 DEF Then
  <2> HIDE DEF S2
  <2>3. S3 \subseteq RequesterSays(outgoing)
    <3>1. \A p \in RequesterSays(outgoing) :
            sendCancel(p, connected, elapsed) \subseteq RequesterSays(outgoing)
      BY <1>1, SendCancelMoves
    <3> QED
      BY <2>2, <3>1 DEF Then
  <2> HIDE DEF S3
  <2> QED
    BY <2>1, <2>3, RequesterEndsTells
<1> QED
  BY <1>4, <1>5, <1>6

(* The expiry sweep and the start.                                         *)
LEMMA RequesterQuietStepsTell ==
  ASSUME TypeOK, ClaimsInv, RequesterExpireDue \/ RequesterStart
  PROVE  RequesterTells
<1>1. outgoing \in Outgoing /\ Outranks(outgoing) /\ Moves(outgoing, outgoing)
  BY MovesChain DEF TypeOK, ClaimsInv, EndsExcludeResults
<1>2. Moves(outgoing, expireDueOutgoing(outgoing, due[Requester]))
  BY <1>1, ExpiryMoves
<1>3. Moves(outgoing, outgoing')
  BY <1>1, <1>2 DEF RequesterExpireDue, RequesterStart
<1>4. /\ UNCHANGED <<incoming, handle, kernel, finishes, produced, due, net>>
      /\ up'[Host] = up[Host]
  BY DEF RequesterExpireDue, RequesterStart, hostUnchanged, TypeOK, Node, Requester, Host
<1> QED
  BY <1>3, <1>4, MovesTell

(* A full store drops the record of an expired request.                    *)
LEMMA EvictOutgoingTells ==
  ASSUME TypeOK, ClaimsInv, EvictOutgoing
  PROVE  RequesterTells
<1>1. /\ ~outgoing'.stored /\ outgoing'.statusRevision = 0 /\ ~outgoing'.artifact
      /\ outgoing'.delivery = "queued" /\ outgoing'.cancel = "none"
      /\ outgoing'.state = "submitted"
  BY DEF EvictOutgoing, NoOutgoing
<1>2. UNCHANGED <<incoming, handle, kernel, finishes, produced, due, net, up>>
  BY DEF EvictOutgoing, hostUnchanged
<1> QED
  BY <1>1, <1>2 DEF RequesterTells, Outranks, EndsWithout, Terminal

(* send: nobody has heard of the Task.                                     *)
LEMMA SendClaims ==
  ASSUME StatusInv, TypeOK', ClaimsInv, NEW connected, Send(connected)
  PROVE  ClaimsInv'
<1> DEFINE S == trySendStoredRecord(Start(newOutgoing, newOutgoing), connected)
<1>1. /\ RequesterEnds(S) /\ copies = 0 /\ ~outgoing.stored /\ TypeOK
      /\ ~incoming.stored /\ \A m \in net : m.type = "cancel"
  BY DEF Send, StatusInv, NothingBeforeFirstRequest
<1>2. /\ newOutgoing \in Outgoing /\ newOutgoing.stored /\ newOutgoing.statusRevision = 0
      /\ ~newOutgoing.artifact /\ newOutgoing.delivery = "queued" /\ newOutgoing.cancel = "none"
      /\ newOutgoing.state = "submitted"
  BY NewRecords DEF newOutgoing, NoOutgoing
<1>3. S \subseteq RequesterSays(newOutgoing)
  <2>1. Moves(newOutgoing, newOutgoing)
    BY <1>2, MovesChain
  <2>2. /\ Start(newOutgoing, newOutgoing) \in RequesterSays(newOutgoing)
        /\ Start(newOutgoing, newOutgoing).rec = newOutgoing
    BY <2>1, RequesterSaysStarts
  <2> QED
    BY <1>1, <1>2, <2>2, TrySendMoves
<1> HIDE DEF S
<1>4. PICK o \in S : /\ outgoing' = Kept(o)
                     /\ net' = net \cup o.sent
                     /\ Survives(Requester, o)
                     /\ UNCHANGED due
                     /\ hostUnchanged
  BY <1>1 DEF RequesterEnds
<1>5. /\ Moves(newOutgoing, outgoing')
      /\ \A m \in o.sent : m.type \in {"request", "status_receipt", "cancel"}
  BY <1>3, <1>4 DEF RequesterSays, Kept
<1>6. /\ UNCHANGED <<incoming, handle, kernel, finishes, produced, due>>
      /\ up'[Host] = up[Host]
  BY <1>1, <1>4 DEF Survives, hostUnchanged, TypeOK, Node, Requester, Host
<1>7. \A m \in net' : m.type \in {"request", "status_receipt", "cancel"}
  BY <1>1, <1>4, <1>5
<1>8. /\ outgoing'.statusRevision = 0 /\ ~outgoing'.artifact
      /\ outgoing'.delivery # "acknowledged" /\ outgoing'.cancel # "acknowledged"
      /\ outgoing'.state # "completed" /\ Outranks(outgoing')
      /\ ~(EndsWithout(outgoing'.state) /\ outgoing'.delivery \in Unsent)
  BY <1>2, <1>5 DEF Moves, Outranks, EndsWithout, Terminal
<1>9. Coming' = Coming /\ (Refused' <=> Refused)
  BY <1>6 DEF Coming, Refused
<1>10. RunsInv' /\ Sound(incoming')
  BY <1>6 DEF ClaimsInv, RunsInv
<1>11. RequestIsKnown'
  BY <1>7, <1>8 DEF RequestIsKnown, NothingHeard, HeardOfIt
<1>12. StatusesAreAnnounced' /\ CancelReceiptsAreTrue'
  BY <1>1, <1>6 DEF StatusesAreAnnounced, CancelReceiptsAreTrue
<1>13. ResultsAreProduced'
  BY <1>6, <1>7, <1>8, <1>9 DEF ClaimsInv, ResultsAreProduced, TellsOfResult
<1>14. EndsExcludeResults'
  BY <1>7, <1>8 DEF EndsExcludeResults
<1>15. ResultReceiptsAreTrue'
  BY <1>1, <1>6, <1>7 DEF ResultReceiptsAreTrue
<1> QED
  BY <1>10, <1>11, <1>12, <1>13, <1>14, <1>15 DEF ClaimsInv

-----------------------------------------------------------------------------
(* Messages at the requester.                                               *)

(* A request receipt.                                                      *)
LEMMA ReceiveReceiptTells ==
  ASSUME TypeOK, ClaimsInv, NEW m \in net, ReceiveReceipt(m)
  PROVE  RequesterTells
<1> DEFINE receipt == [status |-> m.status, receivedAt |-> m.receivedAt]
<1>1. /\ UNCHANGED <<incoming, handle, kernel, finishes, produced, due, up>>
      /\ net' \subseteq net /\ m.type = "receipt" /\ m \in Message
      /\ outgoing' = IF outgoing.stored /\ shouldApplyReceipt(outgoing, receipt)
                     THEN applyReceipt(outgoing, receipt) ELSE outgoing
  BY DEF ReceiveReceipt, hostUnchanged, Consume, TypeOK
<1>2. outgoing \in Outgoing /\ Outranks(outgoing)
  BY DEF TypeOK, ClaimsInv, EndsExcludeResults
<1>3. receipt \in Receipt /\ receipt.status = m.status
  BY <1>1 DEF Message, Receipt
<1> HIDE DEF receipt
<1>4. CASE outgoing' = outgoing
  BY <1>1, <1>2, <1>4, MovesChain, MovesTell
<1>5. CASE outgoing.stored /\ shouldApplyReceipt(outgoing, receipt)
  <2> DEFINE s == [outgoing EXCEPT !.receipt = receipt]
  <2>1. /\ s \in Outgoing /\ s.stored = outgoing.stored /\ s.state = outgoing.state
        /\ s.delivery = outgoing.delivery /\ s.safeErrorCode = outgoing.safeErrorCode
        /\ s.statusRevision = outgoing.statusRevision /\ s.artifact = outgoing.artifact
        /\ s.cancel = outgoing.cancel
    BY <1>2, <1>3 DEF Outgoing
  <2>2. outgoing' = applyReceipt(outgoing, receipt)
    BY <1>1, <1>5
  <2>3. CASE receipt.status \in {"received", "duplicate"}
    <3>1. outgoing' = [s EXCEPT !.delivery = "acknowledged"]
      BY <2>2, <2>3 DEF applyReceipt
    <3> HIDE DEF s
    <3>2. /\ outgoing'.stored = outgoing.stored /\ outgoing'.state = outgoing.state
          /\ outgoing'.delivery = "acknowledged"
          /\ outgoing'.safeErrorCode = outgoing.safeErrorCode
          /\ outgoing'.statusRevision = outgoing.statusRevision
          /\ outgoing'.artifact = outgoing.artifact /\ outgoing'.cancel = outgoing.cancel
      BY <2>1, <3>1 DEF Outgoing
    <3>3. incoming.stored \/ due[Host]
      BY <1>1, <1>3, <2>3 DEF ClaimsInv, RequestIsKnown, NothingHeard, HeardOfIt
    <3>4. outgoing'.artifact \/ outgoing'.state = "completed" => produced
      BY <3>2 DEF ClaimsInv, ResultsAreProduced
    <3>5. Outranks(outgoing') /\ outgoing'.delivery \notin Unsent
      BY <1>2, <3>2 DEF Outranks, Unsent
    <3> QED
      BY <1>1, <3>2, <3>3, <3>4, <3>5, <1>5 DEF RequesterTells
  <2>4. CASE receipt.status \in {"expired", "rejected"}
    <3>1. outgoing.state = "submitted" /\ ~outgoing.artifact
      <4>1. outgoing.state = "submitted"
        BY <1>5, <2>4 DEF shouldApplyReceipt
      <4> QED
        BY <1>2, <4>1 DEF Outranks, Terminal
    <3>2. /\ outgoing' \in Outgoing /\ outgoing'.stored = outgoing.stored
          /\ outgoing'.state = "rejected" /\ outgoing'.delivery \in {"expired", "rejected"}
          /\ outgoing'.statusRevision = outgoing.statusRevision
          /\ outgoing'.artifact = outgoing.artifact
          /\ outgoing'.cancel = "acknowledged" => outgoing.cancel = "acknowledged"
      <4>1. CASE receipt.status = "expired"
        <5>1. outgoing' = expireOutgoing(s)
          BY <2>2, <4>1 DEF applyReceipt
        <5> HIDE DEF s
        <5> QED
          BY <2>1, <5>1
          DEF expireOutgoing, clearCancelDeliveryState, Outgoing, TaskState, SafeErrorCode
      <4>2. CASE receipt.status = "rejected"
        <5>1. outgoing' = [s EXCEPT !.delivery = "rejected", !.state = "rejected",
                                    !.safeErrorCode = "other"]
          BY <2>2, <4>2 DEF applyReceipt
        <5> HIDE DEF s
        <5> QED
          BY <2>1, <5>1 DEF Outgoing, TaskState, SafeErrorCode
      <4> QED
        BY <2>4, <4>1, <4>2
    <3>3. Moves(outgoing, outgoing')
      BY <3>1, <3>2 DEF Moves, Outranks, isTerminalTaskState, Terminal, Unsent
    <3> QED
      BY <1>1, <3>3, MovesTell
  <2> QED
    BY <1>3, <2>3, <2>4 DEF Receipt, ReceiptStatus
<1> QED
  BY <1>1, <1>4, <1>5

(* A status, and its receipt.                                              *)
LEMMA ReceiveStatusTells ==
  ASSUME TypeOK, ClaimsInv, NEW m \in net, ReceiveStatus(m)
  PROVE  RequesterTells
<1> DEFINE r == applyStatus(outgoing, m)
           sent == [r EXCEPT !.receiptOutbox = @ \ {m.revision}]
           applied == m.revision > outgoing.statusRevision
                        /\ isRemoteTransitionAllowed(outgoing.state, m.state)
           c == IF isTerminalTaskState(m.state) THEN clearCancelDeliveryState(outgoing)
                ELSE outgoing
           a == [c EXCEPT !.statusRevision = m.revision, !.state = m.state,
                          !.safeErrorCode = m.safeErrorCode]
           s == IF applied THEN a ELSE outgoing
<1>1. /\ UNCHANGED <<incoming, handle, kernel, finishes, produced, due>>
      /\ m.type = "status" /\ outgoing.stored
      /\ \E o \in SendThenSave(Start(r, r), StatusReceipt(m.revision), sent, r, "run") :
           /\ outgoing' = Kept(o)
           /\ Consume(m, o.sent, o.on = "crash")
           /\ Survives(Requester, o)
  BY DEF ReceiveStatus, hostUnchanged
<1>2. /\ outgoing \in Outgoing /\ Outranks(outgoing) /\ m \in Message
      /\ m.revision \in Nat /\ m.state \in TaskState \ {"submitted"}
      /\ m.safeErrorCode \in SafeErrorCode /\ outgoing.receiptOutbox \in SUBSET Nat
  BY <1>1 DEF TypeOK, ClaimsInv, EndsExcludeResults, Message, Outgoing
<1>3. /\ s \in Outgoing /\ s.stored = outgoing.stored /\ s.artifact = outgoing.artifact
      /\ s.delivery = outgoing.delivery /\ s.receiptOutbox = outgoing.receiptOutbox
      /\ s.cancel = "acknowledged" => outgoing.cancel = "acknowledged"
      /\ \/ s.statusRevision = outgoing.statusRevision /\ s.state = outgoing.state
            /\ s.safeErrorCode = outgoing.safeErrorCode
         \/ /\ s.statusRevision = m.revision /\ s.state = m.state
            /\ ~isTerminalTaskState(outgoing.state)
  <2>1. /\ c \in Outgoing /\ c.stored = outgoing.stored /\ c.artifact = outgoing.artifact
        /\ c.delivery = outgoing.delivery /\ c.receiptOutbox = outgoing.receiptOutbox
        /\ c.cancel = "acknowledged" => outgoing.cancel = "acknowledged"
    BY <1>2 DEF clearCancelDeliveryState, Outgoing
  <2> HIDE DEF c
  <2>2. CASE applied
    <3>1. s = a /\ ~isTerminalTaskState(outgoing.state)
      BY <2>2 DEF isRemoteTransitionAllowed
    <3>2. /\ a \in Outgoing /\ a.stored = c.stored /\ a.artifact = c.artifact
          /\ a.delivery = c.delivery /\ a.receiptOutbox = c.receiptOutbox
          /\ a.cancel = c.cancel /\ a.statusRevision = m.revision /\ a.state = m.state
      BY <1>2, <2>1 DEF Outgoing
    <3> QED
      BY <2>1, <3>1, <3>2
  <2>3. CASE ~applied
    BY <1>2, <2>3
  <2> QED
    BY <2>2, <2>3
<1>4. r = [s EXCEPT !.receiptOutbox = @ \cup {m.revision}]
  BY DEF applyStatus
<1> HIDE DEF s
<1>5. /\ r \in Outgoing /\ sent \in Outgoing
      /\ \A x \in {r, sent} :
           /\ x.stored = s.stored /\ x.artifact = s.artifact
           /\ x.delivery = s.delivery /\ x.cancel = s.cancel
           /\ x.statusRevision = s.statusRevision /\ x.state = s.state
           /\ x.safeErrorCode = s.safeErrorCode
  <2>1. /\ r \in Outgoing /\ r.stored = s.stored /\ r.artifact = s.artifact
        /\ r.delivery = s.delivery /\ r.cancel = s.cancel
        /\ r.statusRevision = s.statusRevision /\ r.state = s.state
        /\ r.safeErrorCode = s.safeErrorCode
    BY <1>2, <1>3, <1>4 DEF Outgoing
  <2> HIDE DEF r
  <2>2. /\ sent \in Outgoing /\ sent.stored = r.stored /\ sent.artifact = r.artifact
        /\ sent.delivery = r.delivery /\ sent.cancel = r.cancel
        /\ sent.statusRevision = r.statusRevision /\ sent.state = r.state
        /\ sent.safeErrorCode = r.safeErrorCode
    BY <2>1 DEF Outgoing
  <2> QED
    BY <2>1, <2>2
<1> HIDE DEF r, sent
<1>6. PICK o \in SendThenSave(Start(r, r), StatusReceipt(m.revision), sent, r, "run") :
        /\ outgoing' = Kept(o)
        /\ Consume(m, o.sent, o.on = "crash")
        /\ Survives(Requester, o)
  BY <1>1
<1>7. /\ outgoing' \in {r, sent}
      /\ \A x \in net' : x \in net \/ x.type = "status_receipt"
  <2>1. StatusReceipt(m.revision) \in Message /\ StatusReceipt(m.revision).type = "status_receipt"
    BY <1>2 DEF StatusReceipt, Message
  <2>2. /\ Start(r, r) \in Outcome(Outgoing) /\ Start(r, r).rec = r /\ Start(r, r).disk = r
        /\ Start(r, r).sent = {}
    BY <1>5 DEF Start, Outcome
  <2>3. /\ o.rec \in {Start(r, r).rec, sent, r} /\ o.disk \in {Start(r, r).disk, sent, r}
        /\ o.sent \subseteq Start(r, r).sent \cup {StatusReceipt(m.revision)}
    BY <1>5, <1>6, <2>1, <2>2, SendThenSaveOutcomes
  <2> QED
    BY <1>6, <2>1, <2>2, <2>3 DEF Kept, Consume
<1>8. /\ outgoing'.stored = outgoing.stored /\ outgoing'.artifact = outgoing.artifact
      /\ outgoing'.delivery = outgoing.delivery
      /\ outgoing'.cancel = "acknowledged" => outgoing.cancel = "acknowledged"
      /\ \/ /\ outgoing'.statusRevision = outgoing.statusRevision
            /\ outgoing'.state = outgoing.state
            /\ outgoing'.safeErrorCode = outgoing.safeErrorCode
         \/ /\ outgoing'.statusRevision = m.revision /\ outgoing'.state = m.state
            /\ ~isTerminalTaskState(outgoing.state)
  BY <1>3, <1>5, <1>7
<1>9. incoming.stored \/ due[Host]
  BY <1>1 DEF ClaimsInv, RequestIsKnown, NothingHeard, HeardOfIt
<1>10. outgoing'.artifact \/ outgoing'.state = "completed" => produced
  BY <1>1, <1>8 DEF ClaimsInv, ResultsAreProduced, TellsOfResult
<1>11. EndsWithout(outgoing'.state) /\ outgoing'.delivery \in Unsent => NoResultToCome
  BY <1>1, <1>8 DEF ClaimsInv, EndsExcludeResults
<1>12. Outranks(outgoing')
  BY <1>2, <1>8 DEF Outranks, isTerminalTaskState, Terminal
<1>13. up'[Host] = up[Host]
  BY <1>6 DEF Survives, TypeOK, Node, Requester, Host
<1> QED
  BY <1>1, <1>7, <1>8, <1>9, <1>10, <1>11, <1>12, <1>13 DEF RequesterTells

(* A result, stored before its receipt is sent.                            *)
LEMMA ReceiveArtifactFileTells ==
  ASSUME TypeOK, ClaimsInv, NEW m \in net, ReceiveArtifactFile(m)
  PROVE  RequesterTells
<1> DEFINE s == [outgoing EXCEPT !.artifact = TRUE]
           r == acceptArtifact(outgoing)
<1>1. /\ UNCHANGED <<incoming, handle, kernel, finishes, produced, due>>
      /\ m.type = "artifact" /\ outgoing.stored
      /\ \E o \in SendThenSave(Start(r, r), ArtifactReceipt, r, r, "run") :
           /\ outgoing' = Kept(o)
           /\ Consume(m, o.sent, o.on = "crash")
           /\ Survives(Requester, o)
  BY DEF ReceiveArtifactFile, hostUnchanged
<1>2. outgoing \in Outgoing /\ Outranks(outgoing) /\ produced /\ (incoming.stored \/ due[Host])
  BY <1>1 DEF TypeOK, ClaimsInv, EndsExcludeResults, ResultsAreProduced, TellsOfResult,
              RequestIsKnown, NothingHeard, HeardOfIt
<1>3. /\ s \in Outgoing /\ s.stored = outgoing.stored /\ s.artifact
      /\ s.delivery = outgoing.delivery /\ s.cancel = outgoing.cancel
      /\ s.statusRevision = outgoing.statusRevision /\ s.state = outgoing.state
      /\ s.safeErrorCode = outgoing.safeErrorCode
  BY <1>2 DEF Outgoing
<1>4. r = completeOutgoingSingleStageFromVerifiedArtifact(s)
  BY DEF acceptArtifact
<1> HIDE DEF s, r
<1>5. /\ r \in Outgoing /\ r.stored = outgoing.stored /\ r.artifact
      /\ r.statusRevision = outgoing.statusRevision
      /\ r.cancel = "acknowledged" => outgoing.cancel = "acknowledged"
      /\ \/ r.state = "completed"
         \/ /\ r.state = outgoing.state /\ r.delivery = outgoing.delivery
            /\ r.state \in Terminal
            /\ r.state = "rejected" => r.safeErrorCode # "TASK_EXPIRED"
  <2> DEFINE d == [clearCancelDeliveryState(s) EXCEPT
                     !.state = "completed", !.delivery = "acknowledged", !.safeErrorCode = "other"]
             done == \/ s.state \in {"completed", "submitted", "working", "auth_required",
                                      "input_required"}
                     \/ s.state = "rejected" /\ s.safeErrorCode = "TASK_EXPIRED"
  <2>1. CASE done
    <3>1. r = d
      BY <1>3, <1>4, <2>1 DEF completeOutgoingSingleStageFromVerifiedArtifact
    <3>2. /\ d \in Outgoing /\ d.stored = s.stored /\ d.artifact = s.artifact
          /\ d.statusRevision = s.statusRevision /\ d.cancel = "none" /\ d.state = "completed"
      BY <1>3 DEF clearCancelDeliveryState, Outgoing, TaskState, SafeErrorCode
    <3> HIDE DEF d
    <3> QED
      BY <1>3, <3>1, <3>2
  <2>2. CASE ~done
    <3>1. r = s
      BY <1>4, <2>2 DEF completeOutgoingSingleStageFromVerifiedArtifact
    <3>2. s.state \in Terminal
      BY <1>3, <2>2 DEF Outgoing, TaskState, Terminal
    <3> QED
      BY <1>3, <2>2, <3>1, <3>2
  <2> QED
    BY <2>1, <2>2
<1>6. EndsWithout(r.state) => r.delivery \notin Unsent
  BY <1>2, <1>5 DEF ClaimsInv, EndsExcludeResults, NoResultToCome, EndsWithout
<1>7. Outranks(r)
  BY <1>5, <1>6 DEF Outranks, EndsWithout
<1>8. PICK o \in SendThenSave(Start(r, r), ArtifactReceipt, r, r, "run") :
        /\ outgoing' = Kept(o)
        /\ Consume(m, o.sent, o.on = "crash")
        /\ Survives(Requester, o)
  BY <1>1
<1>9. /\ outgoing' = r
      /\ \A x \in net' : x \in net \/ x.type = "artifact_receipt"
  <2>1. ArtifactReceipt \in Message /\ ArtifactReceipt.type = "artifact_receipt"
    BY DEF ArtifactReceipt, Message
  <2>2. /\ Start(r, r) \in Outcome(Outgoing) /\ Start(r, r).rec = r /\ Start(r, r).disk = r
        /\ Start(r, r).sent = {}
    BY <1>5 DEF Start, Outcome
  <2>3. /\ o.rec \in {Start(r, r).rec, r} /\ o.disk \in {Start(r, r).disk, r}
        /\ o.sent \subseteq Start(r, r).sent \cup {ArtifactReceipt}
    BY <1>5, <1>8, <2>1, <2>2, SendThenSaveOutcomes
  <2> QED
    BY <1>8, <2>1, <2>2, <2>3 DEF Kept, Consume
<1>10. up'[Host] = up[Host]
  BY <1>8 DEF Survives, TypeOK, Node, Requester, Host
<1>11. isTerminalTaskState(outgoing.state) => isTerminalTaskState(r.state)
  BY <1>5 DEF isTerminalTaskState, Terminal
<1> QED
  BY <1>1, <1>2, <1>5, <1>6, <1>7, <1>9, <1>10, <1>11 DEF RequesterTells

(* The receipt of a cancel.                                                *)
LEMMA ReceiveControlReceiptTells ==
  ASSUME TypeOK, ClaimsInv, NEW m \in net, ReceiveControlReceipt(m)
  PROVE  RequesterTells
<1>1. /\ UNCHANGED <<incoming, handle, kernel, finishes, produced, due, up>>
      /\ net' \subseteq net /\ m.type = "control_receipt"
      /\ outgoing' = IF outgoing.stored THEN acknowledgeControl(outgoing) ELSE outgoing
  BY DEF ReceiveControlReceipt, hostUnchanged, Consume
<1>2. outgoing \in Outgoing /\ Outranks(outgoing)
  BY DEF TypeOK, ClaimsInv, EndsExcludeResults
<1>3. /\ outgoing'.stored = outgoing.stored /\ outgoing'.state = outgoing.state
      /\ outgoing'.delivery = outgoing.delivery
      /\ outgoing'.safeErrorCode = outgoing.safeErrorCode
      /\ outgoing'.statusRevision = outgoing.statusRevision
      /\ outgoing'.artifact = outgoing.artifact
  BY <1>1, <1>2 DEF acknowledgeControl, Outgoing
<1>4. incoming.stored \/ due[Host]
  BY <1>1 DEF ClaimsInv, RequestIsKnown, NothingHeard, HeardOfIt
<1>5. outgoing'.artifact \/ outgoing'.state = "completed" => produced
  BY <1>3 DEF ClaimsInv, ResultsAreProduced
<1>6. EndsWithout(outgoing'.state) /\ outgoing'.delivery \in Unsent => NoResultToCome
  BY <1>3 DEF ClaimsInv, EndsExcludeResults
<1>7. Outranks(outgoing')
  BY <1>2, <1>3 DEF Outranks
<1> QED
  BY <1>1, <1>3, <1>4, <1>5, <1>6, <1>7 DEF RequesterTells

-----------------------------------------------------------------------------
(* Every step.                                                              *)

(* Loss, the requester's crash and the clocks leave the executor alone.    *)
LEMMA EnvironmentRuns ==
  ASSUME TypeOK, RunsInv,
         \/ \E m \in net : Lose(m)
         \/ RequesterCrash
         \/ \E n \in Node : ClockPassesExpiry(n)
  PROVE  RunsInv'
<1>1. UNCHANGED <<incoming, handle, kernel, finishes>>
  BY DEF Lose, RequesterCrash, ClockPassesExpiry, hostUnchanged
<1>2. up'[Host] = up[Host] /\ (due[Host] => due'[Host])
  BY DEF Lose, RequesterCrash, ClockPassesExpiry, TypeOK, Node, Requester, Host
<1> QED
  BY <1>1, <1>2 DEF RunsInv, RunsAgree, HasRun

(* Before anything happened, nothing was said.                             *)
LEMMA InitClaims == Init => ClaimsInv
<1>1. SUFFICES ASSUME Init
               PROVE  ClaimsInv
  OBVIOUS
<1>2. /\ outgoing = NoOutgoing /\ incoming = NoIncoming /\ net = {} /\ up[Host]
      /\ kernel = Idle /\ finishes = {} /\ ~produced
  BY <1>1 DEF Init, Idle, Node
<1>3. /\ ~incoming.stored /\ incoming.state = "submitted" /\ incoming.statusRevision = 0
      /\ incoming.artifactEpoch = 0 /\ ~incoming.artifactAcknowledged
      /\ ~incoming.controlReceiptQueued /\ incoming.acknowledgedRevision = 0
  BY <1>2 DEF NoIncoming
<1>4. /\ ~outgoing.stored /\ ~outgoing.artifact /\ outgoing.statusRevision = 0
      /\ outgoing.state = "submitted" /\ outgoing.delivery = "queued"
      /\ outgoing.cancel = "none"
  BY <1>2 DEF NoOutgoing
<1>5. RunsInv
  BY <1>2, <1>3, StoppedAgrees DEF RunsInv, HasRun
<1>6. Sound(incoming)
  BY <1>3 DEF Sound, isTerminalTaskState, Terminal
<1>7. RequestIsKnown /\ StatusesAreAnnounced /\ ResultReceiptsAreTrue /\ CancelReceiptsAreTrue
  BY <1>2, <1>3, <1>4
  DEF RequestIsKnown, NothingHeard, StatusesAreAnnounced, ResultReceiptsAreTrue,
      CancelReceiptsAreTrue
<1>8. ResultsAreProduced /\ EndsExcludeResults
  BY <1>2, <1>3, <1>4 DEF ResultsAreProduced, EndsExcludeResults, EndsWithout, Terminal, Outranks
<1> QED
  BY <1>5, <1>6, <1>7, <1>8 DEF ClaimsInv

(* The claims are kept by every step.                                      *)
LEMMA NextClaims ==
  ASSUME StatusInv, ClaimsInv, [Next]_vars
  PROVE  ClaimsInv'
<1>1. /\ TypeOK /\ TypeOK' /\ HostEndStep /\ RunsInv /\ Sound(incoming)
  BY NextOK DEF StepOK, StatusInv, ClaimsInv
<1>2. ASSUME HostTells \/ HostIsSilent, RunsInv'
      PROVE  ClaimsInv'
  BY <1>1, <1>2, HostTellsClaims, HostIsSilentClaims
<1>3. ASSUME RequesterTells
      PROVE  ClaimsInv'
  BY <1>1, <1>3, RequesterTellsClaims
<1>4. CASE UNCHANGED vars
  <2>1. UNCHANGED <<outgoing, incoming, net, due, up, handle, kernel, finishes, produced>>
    BY <1>4 DEF vars
  <2>2. Moves(outgoing, outgoing')
    BY <1>1, <2>1, MovesChain DEF TypeOK
  <2>3. RequesterTells
    BY <1>1, <2>1, <2>2, MovesTell
  <2> QED
    BY <1>3, <2>3
<1>5. CASE \E connected \in Connectivity, elapsed \in BOOLEAN : HostFlush(connected, elapsed)
  <2>1. RunsInv' /\ HostTells
    BY <1>1, <1>5, HostFlushRuns, HostFlushTells
  <2> QED
    BY <1>2, <2>1
<1>6. CASE \E connected \in Connectivity, elapsed \in BOOLEAN :
             \/ RequestCancel(connected, elapsed)
             \/ RequesterFlush(connected, elapsed)
  BY <1>1, <1>3, <1>6, RequesterOperationsTell
<1>7. CASE \E connected \in Connectivity : Retry(connected)
  <2>1. PICK connected \in Connectivity : Retry(connected)
    BY <1>7
  <2>2. RequesterTells
    BY <1>1, <2>1, RequesterOperationsTell
  <2> QED
    BY <1>3, <2>2
<1>8. CASE \E connected \in Connectivity : Send(connected)
  BY <1>1, <1>8, SendClaims
<1>9. CASE \E connected \in Connectivity :
             \/ Approve(connected) \/ Resume(connected) \/ Reject(connected)
             \/ HostCancel(connected)
  <2>1. RunsInv' /\ HostTells
    BY <1>1, <1>9, HostOperationsRun, HostOperationsTell
  <2> QED
    BY <1>2, <2>1
<1>10. CASE \E connected \in Connectivity : \E f \in finishes : FinishExecution(f, connected)
  <2>1. PICK connected \in Connectivity, f \in finishes : FinishExecution(f, connected)
    BY <1>10
  <2>2. RunsInv'
    BY <1>1, <2>1, FinishExecutionRuns
  <2> QED
    BY <1>1, <2>1, <2>2, FinishExecutionClaims
<1>11. CASE \E m \in net : \/ ReceiveReceipt(m) \/ ReceiveStatus(m)
                           \/ ReceiveArtifactFile(m) \/ ReceiveControlReceipt(m)
  BY <1>1, <1>3, <1>11, ReceiveReceiptTells, ReceiveStatusTells, ReceiveArtifactFileTells,
     ReceiveControlReceiptTells
<1>12. CASE \E m \in net : \E admission \in Admission : ReceiveRequest(m, admission)
  <2>1. PICK m \in net, admission \in Admission : ReceiveRequest(m, admission)
    BY <1>12
  <2>2. RunsInv'
    BY <1>1, <2>1, HostReceivesRuns
  <2>3. CASE incoming.stored
    BY <1>1, <1>2, <2>1, <2>2, <2>3, ReceiveKnownRequestTells
  <2>4. CASE ~incoming.stored
    BY <1>1, <2>1, <2>2, <2>4, ReceiveNewRequestClaims
  <2> QED
    BY <2>3, <2>4
<1>13. CASE \E m \in net : ReceiveCancel(m)
  <2>1. RunsInv' /\ HostTells
    BY <1>1, <1>13, HostReceivesRuns, ReceiveCancelTells
  <2> QED
    BY <1>2, <2>1
<1>14. CASE \E m \in net : ReceiveStatusReceipt(m) \/ ReceiveArtifactReceipt(m)
  <2>1. PICK m \in net : ReceiveStatusReceipt(m) \/ ReceiveArtifactReceipt(m)
    BY <1>14
  <2>2. RunsInv'
    BY <1>1, <2>1, HostReceivesRuns
  <2>3. HostTells \/ HostIsSilent
    BY <1>1, <2>1, ReceiveReceiptsTell
  <2> QED
    BY <1>2, <2>2, <2>3
<1>15. CASE \/ \E result \in Results : Settle(result)
            \/ CaptureCheckpoint \/ SettleHandle \/ ResumeRefused
            \/ HostExpireDue \/ HostStart \/ \E orderly \in BOOLEAN : HostCrash(orderly)
  <2>1. RunsInv'
    BY <1>1, <1>15, HostQuietStepsRun
  <2>2. HostTells \/ HostIsSilent
    BY <1>1, <1>15, HostQuietStepsTell
  <2> QED
    BY <1>2, <2>1, <2>2
<1>16. CASE \/ \E m \in net : Lose(m)
            \/ RequesterCrash
            \/ \E n \in Node : ClockPassesExpiry(n)
  <2>1. RunsInv'
    BY <1>1, <1>16, EnvironmentRuns
  <2>2. HostTells \/ HostIsSilent
    BY <1>1, <1>16, HostQuietStepsTell
  <2> QED
    BY <1>2, <2>1, <2>2
<1>17. CASE RequesterExpireDue \/ RequesterStart
  BY <1>1, <1>3, <1>17, RequesterQuietStepsTell
<1>18. CASE EvictOutgoing
  BY <1>1, <1>3, <1>18, EvictOutgoingTells
<1>19. CASE EvictIncoming
  BY <1>1, <1>19, HostQuietStepsRun, EvictIncomingClaims
<1> QED
  BY <1>4, <1>5, <1>6, <1>7, <1>8, <1>9, <1>10, <1>11, <1>12, <1>13, <1>14, <1>15, <1>16,
     <1>17, <1>18, <1>19
  DEF Next, Receive

-----------------------------------------------------------------------------
(* The theorems.                                                            *)

(* The inductive invariant of the claims: what each side has heard is what *)
(* the record that the host has, or will have after its next start, says.  *)
THEOREM ClaimsInvariance == Spec => [](StatusInv /\ ClaimsInv)
<1>1. Init => StatusInv /\ ClaimsInv
  BY InitStatusInv, InitClaims
<1>2. StatusInv /\ ClaimsInv /\ [Next]_vars => (StatusInv /\ ClaimsInv)'
  BY NextOK, NextClaims DEF StepOK
<1> QED
  BY <1>1, <1>2, PTL DEF Spec

(* A live run reports no outcome for a Task that has one, and a Task in    *)
(* progress has a run or a result on its way, whatever dies in between     *)
(* (finishExecution, reconcileExecutions).                                 *)
THEOREM RunsMatch == Spec => []RunsMatchTasks
<1>1. StatusInv /\ ClaimsInv => RunsMatchTasks
  BY DEF ClaimsInv, RunsInv, RunsAgree, HasRun, RunsMatchTasks, LiveRunHasNoOutcome,
         WorkingTaskHasRun
<1> QED
  BY <1>1, ClaimsInvariance, PTL

(* The claims follow from the invariant.                                   *)
LEMMA ClaimsFollow ==
  ASSUME StatusInv, ClaimsInv
  PROVE  ClaimsAreTrue
<1>1. /\ TypeOK /\ incoming \in Incoming /\ outgoing \in Outgoing
      /\ incoming.statusRevision \in Nat /\ incoming.acknowledgedRevision \in Nat
      /\ outgoing.statusRevision \in Nat
  BY DEF StatusInv, TypeOK, Incoming, Outgoing
<1>2. AcknowledgedEndIsKnown
  <2>1. SUFFICES ASSUME incoming.stored, outgoing.stored, isTerminalTaskState(incoming.state),
                        incoming.statusRevision > 0, ~incoming.statusPending
                 PROVE  isTerminalTaskState(outgoing.state)
    BY DEF AcknowledgedEndIsKnown
  <2>2. Coming = incoming
    BY <1>1, <2>1, ComingFacts DEF ClaimsInv
  <2>3. ~Refused
    BY <2>1, <2>2 DEF Refused
  <2>4. /\ outgoing.statusRevision <= incoming.statusRevision
        /\ outgoing.statusRevision = incoming.statusRevision => isTerminalTaskState(outgoing.state)
    BY <2>1, <2>2, <2>3 DEF ClaimsInv, StatusesAreAnnounced
  <2>5. incoming.acknowledgedRevision >= incoming.statusRevision
    BY <2>1 DEF ClaimsInv, Sound
  <2>6. \/ incoming.acknowledgedRevision <= outgoing.statusRevision
        \/ isTerminalTaskState(outgoing.state)
    BY <2>1 DEF StatusInv, AcknowledgedStatusWasSeen
  <2> QED
    BY <1>1, <2>4, <2>5, <2>6
<1>3. AcknowledgedResultIsStored
  BY DEF AcknowledgedResultIsStored, ClaimsInv, ResultReceiptsAreTrue
<1>4. AcknowledgedRequestIsStored
  BY DEF AcknowledgedRequestIsStored, ClaimsInv, RequestIsKnown, NothingHeard
<1>5. AcknowledgedCancelEndedTask
  BY DEF AcknowledgedCancelEndedTask, ClaimsInv, CancelReceiptsAreTrue
<1>6. CompletionIsReal
  BY DEF CompletionIsReal, ClaimsInv, ResultsAreProduced
<1> QED
  BY <1>2, <1>3, <1>4, <1>5, <1>6 DEF ClaimsAreTrue

(* What one side may conclude from an acknowledgement of the other is so:  *)
(* an acknowledged end is known, an acknowledged result and request are    *)
(* stored, an acknowledged cancel has ended the Task, and a completion is  *)
(* the host's.                                                             *)
THEOREM ClaimsHold == Spec => []ClaimsAreTrue
<1>1. StatusInv /\ ClaimsInv => ClaimsAreTrue
  BY ClaimsFollow
<1> QED
  BY <1>1, ClaimsInvariance, PTL

(* A result the requester has stored is never shown as an expired Task     *)
(* (expireDueRecords, completeOutgoingSingleStageFromVerifiedArtifact).    *)
THEOREM ResultsOutrankExpiry == Spec => []AcceptedResultNeverExpires
<1>1. StatusInv /\ ClaimsInv => AcceptedResultNeverExpires
  BY DEF ClaimsInv, EndsExcludeResults, Outranks, AcceptedResultNeverExpires
<1> QED
  BY <1>1, ClaimsInvariance, PTL
=============================================================================
