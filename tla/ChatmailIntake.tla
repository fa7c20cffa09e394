---------------------------- MODULE ChatmailIntake ----------------------------
(***************************************************************************)
(* How a poll takes Chatmail messages in (connections.ts, poll).  Messages *)
(* come from the backlog of unseen messages or from the one event request  *)
(* that is kept open across polls (rpc-client.ts).  A message is           *)
(* acknowledged once it has been dealt with; one that waits for something, *)
(* or that could not be authorized, is left for a later poll, and one that *)
(* fails is given up after some attempts.                                  *)
(***************************************************************************)
EXTENDS Naturals, Sequences, SequencesExt

CONSTANTS
  MaxMail,        \* messages, numbered in the order of the mailbox
  MailKinds,      \* their kinds, a sequence
  BatchLimit,     \* the limit of a batch (100)
  MaxAttempts,    \* failures after which a message is given up (5)
  IntakeFaults    \* bound: things that go wrong

ASSUME IntakeAssumption ==
  /\ MaxMail \in Nat /\ BatchLimit \in Nat \ {0} /\ MaxAttempts \in Nat \ {0} /\ IntakeFaults \in Nat
  /\ MailKinds \in [1 .. MaxMail ->
       {"empty", "connection", "status", "dependent", "attachment", "bad", "outgoing"}]

Mail == 1 .. MaxMail

VARIABLES
  mailbox,     \* a message is not there yet, fresh or seen
  mailFile,    \* the download state of its attachment
  mailPast,    \* messages whose envelope has expired
  mailDone,    \* messages that were applied
  intake,      \* the poll: its step, the messages it still has, the observed ones
  mailFailures,    \* messageProcessingFailures
  mailEvents,      \* the event request and what it brought
  eventQueue,  \* events Chatmail has not handed out; abandoned requests it holds
  intakeFaults

intakeVars == <<mailbox, mailFile, mailPast, mailDone, intake, mailFailures, mailEvents, eventQueue, intakeFaults>>

NoEvents == [request |-> FALSE, ready |-> {}, error |-> FALSE]
Resting == [pc |-> "idle", batch |-> <<>>, observed |-> {}]
MayGoWrong == intakeFaults < IntakeFaults
GoesWrong == MayGoWrong /\ intakeFaults' = intakeFaults + 1

-----------------------------------------------------------------------------
(* Chatmail                                                                *)

\* A message of this Teti comes back as an event only.
MailArrives(msg) ==
  /\ mailbox[msg] = "none" /\ \A earlier \in 1 .. (msg - 1) : mailbox[earlier] # "none"
  /\ mailbox' = [mailbox EXCEPT ![msg] = IF MailKinds[msg] = "outgoing" THEN "seen" ELSE "fresh"]
  /\ eventQueue' = [eventQueue EXCEPT !.msgs = @ \cup {msg}]
  /\ UNCHANGED <<mailFile, mailPast, mailDone, intake, mailFailures, mailEvents, intakeFaults>>

\* The oldest request gets the events; nobody reads the answer of an abandoned one.
EventsAnswered ==
  /\ eventQueue.msgs # {} /\ (mailEvents.request \/ eventQueue.abandoned > 0)
  /\ IF eventQueue.abandoned > 0
     THEN /\ eventQueue' = [msgs |-> {}, abandoned |-> eventQueue.abandoned - 1]
          /\ UNCHANGED mailEvents
     ELSE /\ eventQueue' = [eventQueue EXCEPT !.msgs = {}]
          /\ mailEvents' = [mailEvents EXCEPT !.request = FALSE, !.ready = eventQueue.msgs]
  /\ UNCHANGED <<mailbox, mailFile, mailPast, mailDone, intake, mailFailures, intakeFaults>>

\* A download may fail any number of times, or never end.
DownloadEnds(msg) ==
  /\ mailFile[msg] = "InProgress"
  /\ \E result \in {"Done", "Failure"} : mailFile' = [mailFile EXCEPT ![msg] = result]
  /\ UNCHANGED <<mailbox, mailPast, mailDone, intake, mailFailures, mailEvents, eventQueue, intakeFaults>>

EnvelopeExpires(msg) ==
  /\ mailbox[msg] = "fresh" /\ msg \notin mailPast /\ MailKinds[msg] \in {"dependent", "attachment"}
  /\ mailPast' = mailPast \cup {msg}
  /\ UNCHANGED <<mailbox, mailFile, mailDone, intake, mailFailures, mailEvents, eventQueue, intakeFaults>>

-----------------------------------------------------------------------------
(* The RPC client                                                          *)

\* rejectAll: a line that is no JSON rejects every open request, the event
\* request and the one of the poll.
GarbledLine ==
  /\ GoesWrong /\ intake.pc # "closed"
  /\ mailEvents' = IF mailEvents.request THEN [mailEvents EXCEPT !.request = FALSE, !.error = TRUE] ELSE mailEvents
  /\ eventQueue' = IF mailEvents.request THEN [eventQueue EXCEPT !.abandoned = @ + 1] ELSE eventQueue
  /\ intake' = [intake EXCEPT !.pc = IF @ = "work" THEN @ ELSE "idle"]
  /\ UNCHANGED <<mailbox, mailFile, mailPast, mailDone, mailFailures>>

\* deltachat-rpc-server exits: every later request fails with the same error.
RpcExits ==
  /\ GoesWrong /\ intake.pc # "closed"
  /\ intake' = [intake EXCEPT !.pc = "closed", !.batch = <<>>]
  /\ mailEvents' = NoEvents
  /\ eventQueue' = [msgs |-> {}, abandoned |-> 0]
  /\ UNCHANGED <<mailbox, mailFile, mailPast, mailDone, mailFailures>>

\* A new sidecar, with a new server.
SidecarRestarts ==
  /\ intake.pc = "closed"
  /\ intake' = Resting
  /\ mailFailures' = [msg \in Mail |-> 0]
  /\ mailEvents' = NoEvents
  /\ UNCHANGED <<mailbox, mailFile, mailPast, mailDone, eventQueue, intakeFaults>>

\* The first messages of msgs that fetchReceivedMessage returns.
Batch(msgs) ==
  LET order == SetToSortSeq({msg \in msgs : msg \notin intake.observed /\ MailKinds[msg] # "outgoing"}, <)
  IN SubSeq(order, 1, IF Len(order) < BatchLimit THEN Len(order) ELSE BatchLimit)

Backlog == {msg \in Mail : mailbox[msg] = "fresh"}

PollBegins ==
  /\ intake.pc = "idle"
  /\ intake' = [intake EXCEPT !.pc = "backlog"]
  /\ UNCHANGED <<mailbox, mailFile, mailPast, mailDone, mailFailures, mailEvents, eventQueue, intakeFaults>>

\* A request of the poll times out.
RequestFails ==
  /\ intake.pc \in {"backlog", "mailEvents"} /\ GoesWrong
  /\ intake' = [intake EXCEPT !.pc = "idle"]
  /\ UNCHANGED <<mailbox, mailFile, mailPast, mailDone, mailFailures, mailEvents, eventQueue>>

\* receiveMessages with backlogFirst
ReadBacklog ==
  /\ intake.pc = "backlog"
  /\ intake' = [intake EXCEPT !.batch = Batch(Backlog), !.pc = IF Batch(Backlog) # <<>> THEN "work" ELSE "mailEvents"]
  /\ UNCHANGED <<mailbox, mailFile, mailPast, mailDone, mailFailures, mailEvents, eventQueue, intakeFaults>>

\* takeAvailableEventBatch: the one request is opened if there is none; a batch that
\* is there, or its error, is taken; without messages the backlog is read once more.
TakeEvents ==
  /\ intake.pc = "mailEvents"
  /\ LET open == ~mailEvents.request /\ mailEvents.ready = {} /\ ~mailEvents.error
         own == {msg \in mailEvents.ready : MailKinds[msg] = "outgoing"}
         batch == IF Batch(mailEvents.ready) # <<>> THEN Batch(mailEvents.ready) ELSE Batch(Backlog)
     IN
     /\ mailEvents' = [request |-> mailEvents.request \/ open, error |-> FALSE,
                   ready |-> IF mailEvents.error THEN mailEvents.ready ELSE {}]
     /\ intake' = IF mailEvents.error THEN [intake EXCEPT !.pc = "idle"]
                  ELSE [pc |-> IF batch = <<>> THEN "idle" ELSE "work", batch |-> batch,
                        observed |-> intake.observed \cup own]
  /\ UNCHANGED <<mailbox, mailFile, mailPast, mailDone, mailFailures, eventQueue, intakeFaults>>

-----------------------------------------------------------------------------
(* The messages of the batch, one after the other                          *)

Current == Head(intake.batch)
Later == Tail(intake.batch)
NextOne(observed) ==
  intake' = [pc |-> IF Later = <<>> THEN "idle" ELSE "work", batch |-> Later, observed |-> observed]

\* acknowledgeReceivedMessage; markseen may fail before or after it took effect.
Acknowledge(msg) ==
  \/ /\ mailbox' = [mailbox EXCEPT ![msg] = "seen"]
     /\ mailFailures' = [mailFailures EXCEPT ![msg] = 0]
     /\ NextOne(intake.observed \cup {msg})
     /\ UNCHANGED intakeFaults
  \/ /\ GoesWrong
     /\ mailbox' \in {mailbox, [mailbox EXCEPT ![msg] = "seen"]}
     /\ NextOne(intake.observed)
     /\ UNCHANGED mailFailures

\* Left fresh: it waits for something, or the Network could not be asked.
KeepForLater(msg) ==
  /\ mailFailures' = [mailFailures EXCEPT ![msg] = 0]
  /\ NextOne(intake.observed)
  /\ UNCHANGED mailbox

Dependencies == {msg \in Mail : MailKinds[msg] = "status"}

\* preparePartialTaskAttachment with downloadMessageAttachment: the message waits
\* for its file.  Its envelope's expiry is looked at only once the file is there.
Downloading(msg) ==
  MailKinds[msg] = "attachment" /\ mailFile[msg] # "Done"

\* A variant that does not ask again for a file whose download failed.
AskForFileOnce(msg) == IF mailFile[msg] = "Available" THEN [mailFile EXCEPT ![msg] = "InProgress"] ELSE mailFile

AskForFile(msg) == [mailFile EXCEPT ![msg] = "InProgress"]

\* The message is applied, or is nothing to apply: it has no text, comes from no
\* confirmed peer, or its envelope has expired.
Applies(msg) ==
  /\ MailKinds[msg] \in {"empty", "connection", "status", "dependent", "attachment"}
  /\ ~Downloading(msg)
  /\ MailKinds[msg] = "dependent" => msg \in mailPast \/ Dependencies \subseteq mailDone

ProcessMessage ==
  /\ intake.pc = "work" /\ Applies(Current)
  /\ mailDone' = mailDone \cup {Current}
  /\ Acknowledge(Current)
  /\ UNCHANGED <<mailFile, mailPast, mailEvents, eventQueue>>

\* RelationshipAuthorizationDeniedError: dealt with for good.
DenyMessage ==
  /\ intake.pc = "work" /\ MailKinds[Current] \in {"status", "dependent", "attachment"} /\ ~Downloading(Current)
  /\ MayGoWrong
  /\ mailbox' = [mailbox EXCEPT ![Current] = "seen"]
  /\ mailFailures' = [mailFailures EXCEPT ![Current] = 0]
  /\ intakeFaults' = intakeFaults + 1
  /\ mailDone' = mailDone \cup {Current}
  /\ NextOne(intake.observed \cup {Current})
  /\ UNCHANGED <<mailFile, mailPast, mailEvents, eventQueue>>

\* TASK_DEPENDENCY_PENDING and TASK_ATTACHMENT_PENDING
WaitForMessage ==
  /\ intake.pc = "work" /\ MailKinds[Current] \in {"dependent", "attachment"} /\ ~Applies(Current)
  /\ mailFile' = IF Downloading(Current) THEN AskForFile(Current) ELSE mailFile
  /\ KeepForLater(Current)
  /\ UNCHANGED <<mailPast, mailDone, mailEvents, eventQueue, intakeFaults>>

\* TetiNetworkClientError: the authorization could not be read.
NetworkFails ==
  /\ intake.pc = "work" /\ MailKinds[Current] \in {"status", "dependent", "attachment"} /\ ~Downloading(Current)
  /\ GoesWrong
  /\ KeepForLater(Current)
  /\ UNCHANGED <<mailFile, mailPast, mailDone, mailEvents, eventQueue>>

GivesUp(msg) == mailFailures[msg] + 1 >= MaxAttempts

\* Any other error: always for a message that no handler can take.
HandlerFails ==
  /\ intake.pc = "work"
  /\ \/ MailKinds[Current] = "bad"
     \/ MailKinds[Current] \in {"connection", "status", "attachment"} /\ MayGoWrong
  /\ IF GivesUp(Current)
     THEN /\ mailbox' = [mailbox EXCEPT ![Current] = "seen"]
          /\ mailFailures' = [mailFailures EXCEPT ![Current] = 0]
          /\ NextOne(intake.observed \cup {Current})
     ELSE /\ mailFailures' = [mailFailures EXCEPT ![Current] = @ + 1]
          /\ NextOne(intake.observed)
          /\ UNCHANGED mailbox
  /\ intakeFaults' = IF MailKinds[Current] = "bad" THEN intakeFaults ELSE intakeFaults + 1
  /\ UNCHANGED <<mailFile, mailPast, mailDone, mailEvents, eventQueue>>

-----------------------------------------------------------------------------
IntakeInit ==
  /\ mailbox = [msg \in Mail |-> "none"]
  /\ mailFile = [msg \in Mail |-> IF MailKinds[msg] = "attachment" THEN "Available" ELSE "Done"]
  /\ mailPast = {} /\ mailDone = {} /\ intake = Resting
  /\ mailFailures = [msg \in Mail |-> 0]
  /\ mailEvents = NoEvents
  /\ eventQueue = [msgs |-> {}, abandoned |-> 0]
  /\ intakeFaults = 0

PollStep == PollBegins \/ ReadBacklog \/ TakeEvents
BatchStep == ProcessMessage \/ WaitForMessage \/ HandlerFails

IntakeNext ==
  \/ PollStep \/ BatchStep \/ RequestFails \/ DenyMessage \/ NetworkFails
  \/ EventsAnswered \/ GarbledLine \/ RpcExits \/ SidecarRestarts
  \/ \E msg \in Mail : MailArrives(msg) \/ DownloadEnds(msg) \/ EnvelopeExpires(msg)

\* The poll loop goes on and time passes.  No download needs to come to an end.
IntakeFairness ==
  /\ WF_intakeVars(PollStep) /\ WF_intakeVars(BatchStep)
  /\ \A msg \in Mail : WF_intakeVars(EnvelopeExpires(msg))

IntakeSpec == IntakeInit /\ [][IntakeNext]_intakeVars /\ IntakeFairness

-----------------------------------------------------------------------------
(* Properties                                                              *)

\* No message stays fresh for ever while nothing is under way for it: one that has
\* its file, or needs none, is acknowledged in the end, whatever events are lost with
\* an abandoned request and whatever waits ahead of it in the batch, and a file that
\* is missing, or whose download failed, is asked for again - as long as there is a
\* server (receiveMessages, poll).  A message whose file never comes does wait for
\* ever: preparePartialTaskAttachment throws before the envelope's expiry is looked at.
EveryMessageIsDealtWith ==
  \A msg \in Mail :
    []<>(mailbox[msg] # "fresh" \/ mailFile[msg] = "InProgress" \/ intake.pc = "closed")
=============================================================================
