--------------------------- MODULE RelationshipSync ---------------------------
(***************************************************************************)
(* The relationship of two Teti runtimes, with Teti Network as its only    *)
(* authority: the durable command protocol of                              *)
(* services/network/relationship-service.ts, the reconciliation that       *)
(* copies the authority's changes into connections.json, and the calls of  *)
(* apps/desktop/lifecycle-sidecar/connections.ts that use them.            *)
(*                                                                         *)
(* A pair of members has one canonical relationship, so the authority is a *)
(* sequence of documents: revision i is log[i].  A runtime's projection is *)
(* the revision its connection record was made from (0: no record); the    *)
(* rest of the record follows from that document.  A call is one entry of  *)
(* the runtime's serial queue; its steps are separated where it awaits the *)
(* network or the disk.                                                    *)
(***************************************************************************)
EXTENDS Integers, Sequences, FiniteSets, TLC

CONSTANTS
  Nodes,          \* the two members
  Intents,        \* the calls that are made: Operations, "list" and "poll"
  Events,         \* what may happen besides calls, a subset of AllEvents
  PageSize,       \* documents in a page of changes (limit: 100 in the code)
  MaxCommands,    \* bound: commands given by the users
  MaxFailures     \* bound: failed exchanges, crashes and profile refreshes

Operations == {"request", "accept", "reject", "block", "revoke"}

\* offline: an exchange with the network fails; late: a posted command the
\* client gave up on arrives after all; crash: the runtime stops and restarts;
\* refresh: a peer's profile has a new key; mail: peers send each other messages.
AllEvents == {"offline", "late", "crash", "refresh", "mail"}

ASSUME NodesAssumption    == "none" \notin Nodes /\ \E x, y \in Nodes : x # y /\ Nodes = {x, y}
ASSUME IntentsAssumption  == Intents \subseteq Operations \cup {"list", "poll"}
ASSUME EventsAssumption   == Events \subseteq AllEvents
ASSUME BoundsAssumption   == /\ PageSize \in Nat \ {0}
                             /\ MaxCommands \in Nat
                             /\ MaxFailures \in Nat

VARIABLES
  log,         \* authority: the documents, revision by revision
  receipts,    \* authority: what each successful command was answered
  late,        \* commands under way that nobody waits for
  pending,     \* relationship-command-v1.json
  checkpoint,  \* relationship-reconciliation-v1.json
  projection,  \* connections.json
  held,        \* history: the newest revision connections.json has held
  call,        \* the running entry of the serial queue
  refreshing,  \* what a profile refresh has loaded of connections.json
  mail,        \* the application message from the peer
  given,       \* commands given by the users so far
  failures     \* failures so far

authority == <<log, receipts, late>>
records   == <<projection, held>>
stores    == <<pending, checkpoint, projection, held>>
vars      == <<log, receipts, late, pending, checkpoint, projection, held, call,
               refreshing, mail, given, failures>>

\* For TLC: the members are interchangeable.
Symmetry == Permutations(Nodes)

NoCommand    == [by |-> "none", op |-> "none", expected |-> 0, key |-> 0]
NoCheckpoint == -1
NoRefresh    == -1

Peer(n) == CHOOSE m \in Nodes : m # n

-----------------------------------------------------------------------------
(***************************************************************************)
(* Teti Network.                                                           *)
(***************************************************************************)
Revision == Len(log)
StateAt(r) == IF r = 0 THEN "none" ELSE log[r].state
State == StateAt(Revision)

\* The peer's request is open.
Asked(c) == State = "requested" /\ log[Revision].requester # c.by

\* A command names the revision it was decided on; a request that meets the
\* peer's request names the revision that one was based on.
UpToDate(c) == c.expected = IF c.op = "request" /\ Asked(c) THEN Revision - 1 ELSE Revision

\* Nothing can be done to a relationship that does not exist but request it, nor
\* to a blocked one but by the member who blocked it.
Barred(c) == \/ State = "none" /\ c.op # "request"
             \/ State = "blocked" /\ (c.op = "request" \/ log[Revision].blocker # c.by)

\* What the relationship becomes, or the unchanged state if the command only
\* repeats what already holds, or "refused".
Becomes(c) ==
  IF Barred(c) THEN "refused"
  ELSE CASE c.op = "request" -> IF State = "confirmed" \/ Asked(c)
                                THEN "confirmed" ELSE "requested"
         [] c.op = "accept"  -> IF State = "confirmed" \/ Asked(c)
                                THEN "confirmed" ELSE "refused"
         [] c.op = "reject"  -> IF State = "rejected" \/ Asked(c)
                                THEN "rejected" ELSE "refused"
         [] c.op = "block"   -> "blocked"
         [] c.op = "revoke"  -> "revoked"

Document(c) ==
  [state     |-> Becomes(c),
   requester |-> IF c.op = "request" /\ State # "requested" THEN c.by
                 ELSE log[Revision].requester,
   blocker   |-> IF c.op = "block" THEN c.by ELSE "none",
   cmd       |-> c]

\* The authority executes c and answers result, with document doc.
Executes(c, result, doc) ==
  \/ /\ \E r \in receipts : r.cmd = c /\ r.doc = doc
     /\ result = "ok"
     /\ UNCHANGED <<log, receipts>>
  \/ /\ \A r \in receipts : r.cmd # c
     /\ \/ /\ ~UpToDate(c)
           /\ result = "conflict" /\ doc = 0
           /\ UNCHANGED <<log, receipts>>
        \/ /\ UpToDate(c)
           /\ Becomes(c) = "refused"
           /\ result = "refused" /\ doc = 0
           /\ UNCHANGED <<log, receipts>>
        \/ /\ UpToDate(c)
           /\ Becomes(c) = State
           /\ result = "ok" /\ doc = Revision
           /\ receipts' = receipts \cup {[cmd |-> c, doc |-> Revision]}
           /\ UNCHANGED log
        \/ /\ UpToDate(c)
           /\ Becomes(c) \notin {"refused", State}
           /\ result = "ok" /\ doc = Revision + 1
           /\ log' = Append(log, Document(c))
           /\ receipts' = receipts \cup {[cmd |-> c, doc |-> Revision + 1]}

\* A command the client gave up on reaches the authority.
DeliverLate(c) ==
  /\ c \in late
  /\ \E result \in {"ok", "conflict", "refused"}, doc \in 0..(Revision + 1) :
        Executes(c, result, doc)
  /\ late' = late \ {c}
  /\ UNCHANGED <<stores, call, refreshing, mail, given, failures>>

-----------------------------------------------------------------------------
(***************************************************************************)
(* Calls.  at: where the call is; intent: a command, "list" or "poll";     *)
(* ran: the operation it had the authority perform; recovered: that        *)
(* command was found pending; doc: the revision in hand; to, more: the     *)
(* page of changes in hand.                                                *)
(***************************************************************************)
Idle == [at |-> "idle", intent |-> "none", ran |-> "none", recovered |-> FALSE,
         result |-> "none", doc |-> 0, to |-> 0, more |-> FALSE]

At(n, where) == call[n].at = where

Goto(n, where) == call' = [call EXCEPT ![n].at = where]

\* The network exchange that follows recoverPending.
AfterRecovery(intent) == IF intent \in Operations THEN "read" ELSE "scan"

\* A call begins with recoverPending: a stored command is posted again as it is.
Begun(n, intent) ==
  IF pending[n] = NoCommand
  THEN [Idle EXCEPT !.at = AfterRecovery(intent), !.intent = intent]
  ELSE [Idle EXCEPT !.at = "posted", !.intent = intent,
                    !.ran = pending[n].op, !.recovered = TRUE]

\* Faulty variant of Ended: a poll whose last page was empty returns early.
EndedIfChanged(n) ==
  IF call[n].intent = "poll" /\ checkpoint[n] # call[n].to
  THEN [Idle EXCEPT !.at = "receive"] ELSE Idle

\* The reconciliation of poll is over, failed or not, and messages are next;
\* any other call returns.
Ended(n) == IF call[n].intent = "poll" THEN [Idle EXCEPT !.at = "receive"] ELSE Idle

End(n) == call' = [call EXCEPT ![n] = Ended(n)]

Occurs(event) == /\ event \in Events
                 /\ failures < MaxFailures
                 /\ failures' = failures + 1

\* The user gives a command: a request names the peer, any other names a record
\* of the connection list, which leaves out archived ones.
Listed(n) == StateAt(projection[n]) \notin {"none", "revoked"}

StartCommand(n, op) ==
  /\ At(n, "idle")
  /\ op = "request" \/ Listed(n)
  /\ given < MaxCommands
  /\ given' = given + 1
  /\ call' = [call EXCEPT ![n] = Begun(n, op)]
  /\ UNCHANGED <<authority, stores, refreshing, mail, failures>>

StartSync(n, intent) ==
  /\ At(n, "idle")
  /\ call' = [call EXCEPT ![n] = Begun(n, intent)]
  /\ UNCHANGED <<authority, stores, refreshing, mail, given, failures>>

\* Faulty variant of Expected: the peer's request is no exception.
ExpectedAsRead(n, op) == Revision

Expected(n, op) ==
  IF op = "request" /\ State = "requested" /\ log[Revision].requester # n
  THEN Revision - 1 ELSE Revision

\* executeNew: read the relationship, store the exact command, post it.  Its key
\* differs from those of the member's earlier commands.
ExecuteNew(n) ==
  /\ At(n, "read")
  /\ pending' = [pending EXCEPT ![n] =
       [by |-> n, op |-> call[n].intent,
        expected |-> Expected(n, call[n].intent), key |-> given]]
  /\ call' = [call EXCEPT ![n].at = "posted", ![n].ran = call[n].intent]
  /\ UNCHANGED <<authority, checkpoint, records, refreshing, mail, given, failures>>

\* Faulty variant of Deliver: a retry is posted under a fresh idempotency key.
DeliverUnderFreshKey(n) ==
  LET again == [pending[n] EXCEPT !.key = @ + MaxCommands + 1]
      c     == IF call[n].recovered THEN again ELSE pending[n]
  IN /\ At(n, "posted")
     /\ \E result \in {"ok", "conflict", "refused"}, doc \in 0..(Revision + 1) :
           /\ Executes(c, result, doc)
           /\ call' = [call EXCEPT ![n].at = "answered",
                                   ![n].result = result, ![n].doc = doc]
     /\ UNCHANGED <<late, stores, refreshing, mail, given, failures>>

Deliver(n) ==
  /\ At(n, "posted")
  /\ \E result \in {"ok", "conflict", "refused"}, doc \in 0..(Revision + 1) :
        /\ Executes(pending[n], result, doc)
        /\ call' = [call EXCEPT ![n].at = "answered",
                                ![n].result = result, ![n].doc = doc]
  /\ UNCHANGED <<late, stores, refreshing, mail, given, failures>>

\* Faulty variant of Settle: only success clears the pending command.
SettleSuccess(n) ==
  /\ At(n, "answered")
  /\ \/ /\ call[n].result = "ok" /\ Goto(n, "latest")
        /\ pending' = [pending EXCEPT ![n] = NoCommand]
     \/ call[n].result # "ok" /\ End(n) /\ UNCHANGED pending
  /\ UNCHANGED <<authority, checkpoint, records, refreshing, mail, given, failures>>

\* The answer settles the command: an error that is not retryable ends the call.
Settle(n) ==
  /\ At(n, "answered")
  /\ pending' = [pending EXCEPT ![n] = NoCommand]
  /\ \/ call[n].result = "ok" /\ Goto(n, "latest")
     \/ call[n].result # "ok" /\ End(n)
  /\ UNCHANGED <<authority, checkpoint, records, refreshing, mail, given, failures>>

\* The receipt may be historical, so the relationship is read again.  What
\* reconcile recovers it leaves to the changes.
ReadLatest(n) ==
  /\ At(n, "latest")
  /\ call' = [call EXCEPT ![n] =
       IF call[n].intent \in Operations
       THEN [@ EXCEPT !.at = "apply", !.doc = Revision]
       ELSE [Idle EXCEPT !.at = "scan", !.intent = call[n].intent]]
  /\ UNCHANGED <<authority, stores, refreshing, mail, given, failures>>

-----------------------------------------------------------------------------
(***************************************************************************)
(* The projection.                                                         *)
(***************************************************************************)

\* projectNetworkRelationshipRecovery has no record to archive.
CannotArchive(n, doc) == projection[n] = 0 /\ StateAt(doc) = "revoked"

\* Faulty variant of Projected: the last document to arrive wins.
ProjectedAsReceived(n, doc) == doc

\* applyNetworkRelationship: an older or equal revision is ignored.
Projected(n, doc) == IF doc > projection[n] THEN doc ELSE projection[n]

\* Apply the document in hand and go on with rest, or throw.
ApplyDocument(n, rest) ==
  \/ /\ ~CannotArchive(n, call[n].doc)
     /\ projection' = [projection EXCEPT ![n] = Projected(n, call[n].doc)]
     /\ held' = [held EXCEPT ![n] = IF projection'[n] > @ THEN projection'[n] ELSE @]
     /\ call' = [call EXCEPT ![n] = rest]
  \/ /\ CannotArchive(n, call[n].doc)
     /\ End(n)
     /\ UNCHANGED records

\* A command's result is applied and the call returns.
ApplyResult(n) ==
  /\ At(n, "apply")
  /\ ApplyDocument(n, Idle)
  /\ UNCHANGED <<authority, pending, checkpoint, refreshing, mail, given, failures>>

\* reconcile: without a checkpoint, the snapshot and its base checkpoint.
Scan(n) ==
  /\ At(n, "scan")
  /\ \/ /\ checkpoint[n] # NoCheckpoint
        /\ call' = [call EXCEPT ![n].at = "changes", ![n].doc = checkpoint[n]]
     \/ /\ checkpoint[n] = NoCheckpoint
        /\ call' = [call EXCEPT ![n].at = IF Revision = 0 THEN "changes" ELSE "snapshot",
                                ![n].doc = Revision]
  /\ UNCHANGED <<authority, stores, refreshing, mail, given, failures>>

ApplySnapshot(n) ==
  /\ At(n, "snapshot")
  /\ ApplyDocument(n, [call[n] EXCEPT !.at = "changes"])
  /\ UNCHANGED <<authority, pending, checkpoint, refreshing, mail, given, failures>>

\* Faulty variant of FetchChanges: the checkpoint is stored with the page, before
\* its documents are.
FetchAndSaveCheckpoint(n) ==
  LET last == IF call[n].doc + PageSize < Revision THEN call[n].doc + PageSize ELSE Revision
  IN /\ At(n, "changes")
     /\ call' = [call EXCEPT ![n].at = "page", ![n].doc = call[n].doc + 1,
                             ![n].to = last, ![n].more = last < Revision]
     /\ checkpoint' = [checkpoint EXCEPT ![n] = last]
     /\ UNCHANGED <<authority, pending, records, refreshing, mail, given, failures>>

\* One page of the changes after revision doc.
FetchChanges(n) ==
  LET last == IF call[n].doc + PageSize < Revision THEN call[n].doc + PageSize ELSE Revision
  IN /\ At(n, "changes")
     /\ call' = [call EXCEPT ![n].at = "page", ![n].doc = call[n].doc + 1,
                             ![n].to = last, ![n].more = last < Revision]
     /\ UNCHANGED <<authority, stores, refreshing, mail, given, failures>>

ApplyChange(n) ==
  /\ At(n, "page")
  /\ call[n].doc =< call[n].to
  /\ ApplyDocument(n, [call[n] EXCEPT !.doc = @ + 1])
  /\ UNCHANGED <<authority, pending, checkpoint, refreshing, mail, given, failures>>

\* Faulty variant of SaveCheckpoint: the authority's latest revision is stored
\* instead of the page's last.
SaveLatestCheckpoint(n) ==
  /\ At(n, "page")
  /\ call[n].doc > call[n].to
  /\ checkpoint' = [checkpoint EXCEPT ![n] = Revision]
  /\ End(n)
  /\ UNCHANGED <<authority, pending, records, refreshing, mail, given, failures>>

\* The page is in connections.json: its checkpoint is stored.
SaveCheckpoint(n) ==
  /\ At(n, "page")
  /\ call[n].doc > call[n].to
  /\ checkpoint' = [checkpoint EXCEPT ![n] = call[n].to]
  /\ \/ /\ call[n].more
        /\ call' = [call EXCEPT ![n].at = "changes", ![n].doc = call[n].to]
     \/ ~call[n].more /\ End(n)
  /\ UNCHANGED <<authority, pending, records, refreshing, mail, given, failures>>

-----------------------------------------------------------------------------
(***************************************************************************)
(* Application messages.                                                   *)
(***************************************************************************)
Confirmed(n) == StateAt(projection[n]) = "confirmed"

\* The peer of n sends n a message: its own record and the authority allow it.
Send(n) ==
  /\ "mail" \in Events
  /\ mail[n] = "none"
  /\ Confirmed(Peer(n))
  /\ State = "confirmed"
  /\ mail' = [mail EXCEPT ![n] = "sent"]
  /\ UNCHANGED <<authority, stores, call, refreshing, given, failures>>

\* What becomes of a waiting message: without a confirmed record it is taken
\* for somebody else's, otherwise the authority decides.
Received(n) == IF Confirmed(n) /\ State = "confirmed" THEN "processed" ELSE "dropped"

\* poll takes the waiting message and acknowledges it, then reconciles again.
Receive(n) ==
  /\ At(n, "receive")
  /\ mail' = [mail EXCEPT ![n] = IF @ = "sent" THEN Received(n) ELSE @]
  /\ call' = [call EXCEPT ![n] = Begun(n, "list")]
  /\ UNCHANGED <<authority, stores, refreshing, given, failures>>

\* The authority cannot be asked: the message stays unacknowledged.
ReceiveUndecided(n) ==
  /\ At(n, "receive")
  /\ Occurs("offline")
  /\ mail[n] = "sent" /\ Confirmed(n)
  /\ call' = [call EXCEPT ![n] = Begun(n, "list")]
  /\ UNCHANGED <<authority, stores, refreshing, mail, given>>

-----------------------------------------------------------------------------
(***************************************************************************)
(* Failures, and the profile refresh with its queue of its own.            *)
(***************************************************************************)

\* The command under way is lost, or arrives later.
LeaveUnderWay(n) ==
  \/ UNCHANGED late
  \/ "late" \in Events /\ At(n, "posted") /\ late' = late \cup {pending[n]}

\* Faulty variant of Unanswered: a retryable error forgets the command too.
UnansweredAndForgotten(n) ==
  /\ Occurs("offline")
  /\ At(n, "posted")
  /\ End(n)
  /\ pending' = [pending EXCEPT ![n] = NoCommand]
  /\ LeaveUnderWay(n)
  /\ UNCHANGED <<log, receipts, checkpoint, records, refreshing, mail, given>>

\* An exchange with the network fails: a retryable error, which keeps the
\* pending command; only the re-read after a new command has a substitute.
Unanswered(n) ==
  /\ Occurs("offline")
  /\ \/ /\ call[n].at \in {"read", "posted", "answered", "scan", "changes"}
        /\ End(n)
     \/ At(n, "latest") /\ call[n].recovered /\ End(n)
     \/ At(n, "latest") /\ ~call[n].recovered /\ Goto(n, "apply")
     \/ /\ call[n].at \in {"apply", "snapshot", "page"}  \* the peer's identity
        /\ projection[n] = 0 /\ call[n].intent # "request"
        /\ At(n, "page") => call[n].doc =< call[n].to
        /\ End(n)
  /\ LeaveUnderWay(n)
  /\ UNCHANGED <<log, receipts, stores, refreshing, mail, given>>

Crash(n) ==
  /\ Occurs("crash")
  /\ ~At(n, "idle") \/ refreshing[n] # NoRefresh
  /\ call' = [call EXCEPT ![n] = Idle]
  /\ refreshing' = [refreshing EXCEPT ![n] = NoRefresh]
  /\ LeaveUnderWay(n)
  /\ UNCHANGED <<log, receipts, stores, mail, given>>

\* refreshPeerProfiles: FileTetiConnectionStorage.update loads all records ...
RefreshLoad(n) ==
  /\ Occurs("refresh")
  /\ refreshing[n] = NoRefresh
  /\ projection[n] > 0
  /\ refreshing' = [refreshing EXCEPT ![n] = projection[n]]
  /\ UNCHANGED <<authority, stores, call, mail, given>>

\* ... and saves them all, with the new key.
RefreshSave(n) ==
  /\ refreshing[n] # NoRefresh
  /\ projection' = [projection EXCEPT ![n] = refreshing[n]]
  /\ refreshing' = [refreshing EXCEPT ![n] = NoRefresh]
  /\ UNCHANGED <<authority, pending, checkpoint, held, call, mail, given, failures>>

-----------------------------------------------------------------------------
Init ==
  /\ log = <<>>
  /\ receipts = {}
  /\ late = {}
  /\ pending = [n \in Nodes |-> NoCommand]
  /\ checkpoint = [n \in Nodes |-> NoCheckpoint]
  /\ projection = [n \in Nodes |-> 0]
  /\ held = [n \in Nodes |-> 0]
  /\ call = [n \in Nodes |-> Idle]
  /\ refreshing = [n \in Nodes |-> NoRefresh]
  /\ mail = [n \in Nodes |-> "none"]
  /\ given = 0
  /\ failures = 0

\* The steps of a call that is under way and meets no failure.
Step(n) ==
  \/ ExecuteNew(n) \/ Deliver(n) \/ Settle(n) \/ ReadLatest(n) \/ ApplyResult(n)
  \/ Scan(n) \/ ApplySnapshot(n) \/ FetchChanges(n) \/ ApplyChange(n)
  \/ SaveCheckpoint(n) \/ Receive(n)

Next ==
  \/ \E n \in Nodes :
       \/ \E op \in Intents \cap Operations : StartCommand(n, op)
       \/ \E intent \in Intents \ Operations : StartSync(n, intent)
       \/ Step(n)
       \/ Send(n) \/ ReceiveUndecided(n)
       \/ Unanswered(n) \/ Crash(n) \/ RefreshLoad(n) \/ RefreshSave(n)
  \/ \E c \in late : DeliverLate(c)

Spec == Init /\ [][Next]_vars

\* The runtime polls on a timer, and a call under way goes on.
FairSpec ==
  /\ Spec
  /\ \A n \in Nodes : WF_vars(Step(n)) /\ WF_vars(StartSync(n, "poll"))

-----------------------------------------------------------------------------
(***************************************************************************)
(* Properties.                                                             *)
(***************************************************************************)
Commands  == [by : Nodes, op : Operations, expected : Nat, key : Nat]
Documents == [state : {"requested", "confirmed", "rejected", "blocked", "revoked"},
              requester : Nodes, blocker : Nodes \cup {"none"}, cmd : Commands]
Calls     == [at : {"idle", "read", "posted", "answered", "latest", "apply", "scan",
                    "snapshot", "changes", "page", "receive"},
              intent : Operations \cup {"list", "poll", "none"},
              ran : Operations \cup {"none"}, recovered : BOOLEAN,
              result : {"none", "ok", "conflict", "refused"},
              doc : 0..(Revision + 1), to : 0..Revision, more : BOOLEAN]

\* Types: every revision a runtime has in hand or stored, in relationship-service
\* and connections.json, exists at the authority.
TypeOK ==
  /\ log \in Seq(Documents)
  /\ receipts \subseteq [cmd : Commands, doc : 1..Revision]
  /\ late \subseteq Commands
  /\ pending \in [Nodes -> Commands \cup {NoCommand}]
  /\ checkpoint \in [Nodes -> -1..Revision]
  /\ projection \in [Nodes -> 0..Revision]
  /\ held \in [Nodes -> 0..Revision]
  /\ call \in [Nodes -> Calls]
  /\ refreshing \in [Nodes -> -1..Revision]
  /\ mail \in [Nodes -> {"none", "sent", "processed", "dropped"}]
  /\ given \in 0..MaxCommands
  /\ failures \in 0..MaxFailures

\* A command takes effect only while its member still has it pending: one the
\* service has given up (sendPending cleared it) never changes the relationship
\* later, however long a copy of it was under way.
OnlyPendingCommandsTakeEffect ==
  [][Revision' > Revision => LET c == log'[Revision'].cmd IN pending[c.by] = c]_vars

\* A command that ends with an error that is not retryable has changed nothing:
\* sendPending retries the exact command, so an earlier attempt that did get
\* through is answered by its receipt and never by a conflict.
FailedCommandHadNoEffect ==
  \A n \in Nodes :
    At(n, "answered") /\ call[n].result # "ok" =>
      \A i \in 1..Revision :
        [log[i].cmd EXCEPT !.key = 0] # [pending[n] EXCEPT !.key = 0]

\* A checkpoint is stored only after the changes up to it have been written into
\* connections.json, whatever scanChanges was doing when the runtime stopped: no
\* change is skipped.  (One that was written may be lost again: see below.)
CheckpointIsCovered == \A n \in Nodes : checkpoint[n] =< held[n]

\* Whatever order command results, snapshots and changes arrive in, no document
\* takes a record back.  The one step that does is the save of a profile refresh,
\* to the revision it loaded before the serial queue wrote a newer one.
OnlyARefreshTakesBack ==
  [][\A n \in Nodes : projection'[n] < projection[n] =>
       /\ refreshing[n] = projection'[n] /\ refreshing'[n] = NoRefresh
       /\ UNCHANGED <<call, checkpoint>>]_vars

\* What the cutover document says of the projection, "Older revisions are
\* ignored": a connection record never goes back to an earlier revision of its
\* relationship.  A profile refresh breaks it.
ProjectionNeverRegresses == [][\A n \in Nodes : projection'[n] >= projection[n]]_vars

\* A pending command is answered in the end.
PendingIsSettled == \A n \in Nodes : pending[n] # NoCommand ~> pending[n] = NoCommand

\* A runtime that has reconciled once catches up with the authority again and
\* again, if no profile refresh writes back an older record.
ChangesAreApplied ==
  \A n \in Nodes : [](refreshing[n] = NoRefresh) =>
    []<>(checkpoint[n] # NoCheckpoint => projection[n] = Revision)

\* When both members request each other, in any order, through conflicts of
\* revisions, failed posts and late copies, they end up connected.
MutualRequestsMeet ==
  (\A n \in Nodes : pending[n].op = "request" \/ \E r \in receipts : r.cmd.by = n)
    ~> State = "confirmed"

\* Every message a peer sends is processed or dropped in the end: the poll goes
\* on to the messages even when its reconciliation throws.
EveryMessageIsDecided ==
  \A n \in Nodes : mail[n] = "sent" ~> mail[n] \in {"processed", "dropped"}

\* Neither a command nor a message waits for ever.
EverythingIsSettled == PendingIsSettled /\ EveryMessageIsDecided

\* Block and revoke command results update the local projection: a call for
\* one of them that returns has had the authority perform it.
BlockAndRevokeArePerformed ==
  \A n \in Nodes : At(n, "apply") /\ call[n].intent \in {"block", "revoke"} =>
    call[n].ran = call[n].intent
=============================================================================
