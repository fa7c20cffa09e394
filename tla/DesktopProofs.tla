---------------------------- MODULE DesktopProofs ----------------------------
(***************************************************************************)
(* Proofs about the application's window: the Task console always has its  *)
(* next refresh coming (RefreshIsComing), the Passport's switch shows what *)
(* is saved (PassportViewIsTrue), the native window ends up in the mode    *)
(* asked for last (WindowFollowsLatestMode), no panel waits for what will  *)
(* not come (PanelIsNeverStuck), and what the user withdrew from a Child   *)
(* Agent's memory stays out of it (WithdrawnMemoryStaysOut).               *)
(***************************************************************************)
EXTENDS TaskConsole, DesktopPanels, PassportConsole, ChildMemory, NativeWindow, SequenceTheorems, TLAPS

-----------------------------------------------------------------------------
(* The Task console                                                        *)

IsOp(op) ==
  /\ op = [kind |-> op.kind, task |-> op.task, at |-> op.at]
  /\ op.kind = "none" => op = NoOp

(* The operation and the refresh in flight are records of their kind.      *)
ConShape ==
  /\ IsOp(conOp)
  /\ conPoll = [at |-> conPoll.at, task |-> conPoll.task, key |-> conPoll.key, unread |-> conPoll.unread]
  /\ conPoll # NoPoll => conPoll.at # "none"

ConsoleInv == ConShape /\ RefreshIsComing

(* A console that has just started has its timer.                          *)
LEMMA ConsoleBegins == ConsoleInit => ConsoleInv
BY DEF ConsoleInit, ConsoleInv, ConShape, RefreshIsComing, IsOp, NoOp, NoPoll

(* What keeps the timer, or sets it when no refresh is in flight, keeps a  *)
(* refresh coming.                                                         *)
LEMMA SchedulesKeeps ==
  ASSUME ConsoleInv, IsOp(conOp'), UNCHANGED <<conPoll, conActive>>,
         Schedules \/ UNCHANGED <<conTimer, conOp>> \/ (conTimer' = FALSE /\ conOp'.kind # "none")
                   \/ (conOp'.kind # "none" /\ UNCHANGED conTimer)
  PROVE  ConsoleInv'
<1>1. ConShape'
  BY DEF ConsoleInv, ConShape
<1>2. RefreshIsComing'
  <2>1. CASE conOp'.kind # "none"
    <3>1. conOp' # NoOp
      BY <2>1 DEF NoOp
    <3> QED BY <3>1 DEF RefreshIsComing, Busy
  <2>2. CASE Schedules \/ UNCHANGED <<conTimer, conOp>>
    BY <2>2 DEF ConsoleInv, RefreshIsComing, Schedules, Busy
  <2> QED BY <2>1, <2>2
<1> QED BY <1>1, <1>2 DEF ConsoleInv

(* A refresh is started, or one is in flight, or an operation is.          *)
LEMMA RefreshesKeeps ==
  ASSUME ConsoleInv, Refreshes \/ StartsPoll, UNCHANGED <<conOp, conActive>>
  PROVE  ConsoleInv'
<1>1. CASE StartsPoll
  BY <1>1 DEF StartsPoll, ConsoleInv, ConShape, RefreshIsComing, NoPoll, Busy
<1>2. CASE Refreshes /\ ~StartsPoll
  BY <1>2 DEF Refreshes, ConsoleInv, ConShape, RefreshIsComing, Busy
<1> QED BY <1>1, <1>2

(* The end of a refresh sets the timer.                                    *)
LEMMA PollStepKeeps ==
  ASSUME ConsoleInv, PollReads \/ PollMarks \/ PollRests
  PROVE  ConsoleInv'
<1>1. UNCHANGED <<conOp, conActive>>
  BY DEF PollReads, PollMarks, PollRests
<1>2. \/ conPoll' = NoPoll /\ conTimer' = conActive
      \/ /\ conPoll.at # "none" /\ UNCHANGED conTimer
         /\ \/ conPoll' = [conPoll EXCEPT !.at = "rest"]
            \/ conPoll' = [conPoll EXCEPT !.at = "mark", !.unread = TRUE]
  BY DEF PollReads, PollMarks, PollRests, PollEnds
<1>3. CASE conPoll' = NoPoll /\ conTimer' = conActive
  BY <1>1, <1>3 DEF ConsoleInv, ConShape, RefreshIsComing, NoPoll, Busy
<1>4. CASE conPoll' = [conPoll EXCEPT !.at = "rest"]
  BY <1>1, <1>4 DEF ConsoleInv, ConShape, RefreshIsComing, NoPoll, Busy
<1>5. CASE conPoll' = [conPoll EXCEPT !.at = "mark", !.unread = TRUE]
  BY <1>1, <1>5 DEF ConsoleInv, ConShape, RefreshIsComing, NoPoll, Busy
<1> QED BY <1>2, <1>3, <1>4, <1>5

(* The operation in flight goes on, or ends and schedules.                 *)
LEMMA OperationKeeps ==
  ASSUME ConsoleInv,
         \/ SelectReads \/ SelectRests \/ SelectMarks \/ DecideCalls \/ DecideAnswered
         \/ SendCalls \/ OperationRests
  PROVE  ConsoleInv'
<1>1. /\ UNCHANGED <<conPoll, conActive>> /\ conOp.kind # "none"
      /\ \/ conOp' = NoOp /\ Schedules
         \/ /\ UNCHANGED conTimer
            /\ \E at \in {"rest", "mark", "answered"} : conOp' = [conOp EXCEPT !.at = at]
  BY DEF SelectReads, SelectRests, SelectMarks, DecideCalls, DecideAnswered, SendCalls, OperationRests, RunEnds
<1>2. IsOp(NoOp)
  BY DEF NoOp, IsOp
<1>3. CASE conOp' = NoOp /\ Schedules
  BY <1>1, <1>2, <1>3, SchedulesKeeps
<1>4. ASSUME NEW at \in {"rest", "mark", "answered"}, conOp' = [conOp EXCEPT !.at = at], UNCHANGED conTimer
      PROVE  ConsoleInv'
  <2>1. IsOp(conOp') /\ conOp'.kind = conOp.kind
    BY <1>1, <1>4 DEF ConsoleInv, ConShape, IsOp
  <2> QED BY <1>1, <1>4, <2>1, SchedulesKeeps
<1> QED BY <1>1, <1>3, <1>4

(* The user's commands start an operation, a refresh, or schedule one.     *)
LEMMA UserKeeps ==
  ASSUME ConsoleInv,
         \/ openInbox \/ openCompose \/ ConsoleBack \/ ConsoleLosesFocus \/ ConsoleGainsFocus
         \/ (\E t \in ConIds : ConsoleSelect(t))
         \/ ConsoleSend \/ mutateSelected \/ ConsoleDisposed
  PROVE  ConsoleInv'
<1>1. CASE openInbox \/ ConsoleGainsFocus
  <2>1. UNCHANGED <<conOp, conActive>> /\ (Refreshes \/ UNCHANGED <<conPoll, conTimer>>)
    BY <1>1 DEF openInbox, ConsoleGainsFocus
  <2>2. CASE Refreshes
    BY <2>1, <2>2, RefreshesKeeps
  <2>3. CASE UNCHANGED <<conPoll, conTimer>>
    BY <2>1, <2>3 DEF ConsoleInv, ConShape, RefreshIsComing, Busy
  <2> QED BY <2>1, <2>2, <2>3
<1>2. CASE openCompose \/ ConsoleBack \/ ConsoleLosesFocus
  <2>1. UNCHANGED <<conOp, conPoll, conActive>> /\ (Schedules \/ UNCHANGED conTimer)
    BY <1>2 DEF openCompose, ConsoleBack, ConsoleLosesFocus, Closes
  <2> QED BY <2>1 DEF ConsoleInv, ConShape, RefreshIsComing, Busy, Schedules
<1>3. ASSUME NEW op, IsOp(op), op.kind # "none", Runs(op) PROVE ConsoleInv'
  <2>1. conOp' = op /\ conTimer' = FALSE /\ UNCHANGED <<conPoll, conActive>>
    BY <1>3 DEF Runs
  <2> QED BY <1>3, <2>1, SchedulesKeeps
<1>4. CASE (\E t \in ConIds : ConsoleSelect(t)) \/ ConsoleSend
  BY <1>3, <1>4 DEF ConsoleSelect, ConsoleSend, IsOp
<1>5. CASE mutateSelected
  <2>1. Runs([kind |-> "decide", task |-> conView.record.task, at |-> "call"])
    BY <1>5 DEF mutateSelected
  <2> QED BY <1>3, <2>1 DEF IsOp
<1>6. CASE ConsoleDisposed
  BY <1>6 DEF ConsoleDisposed, ConsoleInv, ConShape, RefreshIsComing
<1> QED BY <1>1, <1>2, <1>4, <1>5, <1>6

(* Every step of the console keeps the invariant.                          *)
THEOREM ConsoleInvariance == ConsoleSpec => []ConsoleInv
<1>1. ConsoleInv /\ [ConsoleNext]_conVars => ConsoleInv'
  <2> SUFFICES ASSUME ConsoleInv, [ConsoleNext]_conVars PROVE ConsoleInv'
    OBVIOUS
  <2>1. CASE UNCHANGED conVars \/ \E t \in ConsoleTasks : TaskUpdate(t)
    <3>1. UNCHANGED <<conOp, conPoll, conTimer, conActive>>
      BY <2>1 DEF conVars, TaskUpdate
    <3> QED BY <3>1 DEF ConsoleInv, ConShape, RefreshIsComing, Busy
  <2>2. CASE TimerFires
    BY <2>2, RefreshesKeeps DEF TimerFires
  <2> QED BY <2>1, <2>2, UserKeeps, OperationKeeps, PollStepKeeps DEF ConsoleNext
<1> QED BY <1>1, ConsoleBegins, PTL DEF ConsoleSpec

(* As long as the console lives, a refresh is on its way: an operation     *)
(* cancels the timer and a refresh in flight skips it, and whichever ends  *)
(* last sets it again (tasks/controller.ts, run and refresh).              *)
THEOREM ARefreshIsComing == ConsoleSpec => []RefreshIsComing
<1>1. ConsoleInv => RefreshIsComing
  BY DEF ConsoleInv
<1> QED BY <1>1, ConsoleInvariance, PTL

-----------------------------------------------------------------------------
(* The Passport's switch                                                   *)

Positions == {"on", "off"}
PolicyFiles == {"missing", "on", "off", "old_on", "old_off"}
SharingCalls == [asks : Positions \cup {"none"}, revision : Nat, stored : BOOLEAN]

ReadTypes ==
  /\ passportReads \in [{"poll", "mutation"} -> {"none", "asked", "on", "off"}]
  /\ passportPoll \in [active : BOOLEAN, timer : BOOLEAN]
  /\ logout \in {"no", "confirm", "busy"}

SharingTypes ==
  /\ policyFile \in PolicyFiles
  /\ cached \in Positions \cup {"none"}
  /\ loading \in PolicyFiles \cup {"none"}
  /\ sharing \in [shown : Positions, persisted : Positions, revision : Nat, busy : BOOLEAN]
  /\ sharingWrite \in SharingCalls
  /\ ReadTypes
  /\ choice \in [wants : Positions \cup {"none"}, failed : BOOLEAN, raced : BOOLEAN]

(* The switch is busy while a write is in flight, of the last choice or of *)
(* one before it; it then shows the last choice.                           *)
WriteIsOfAChoice ==
  /\ ~sharing.busy => sharingWrite = NoCall
  /\ sharing.busy =>
       /\ sharingWrite.asks \in Positions /\ sharing.shown = choice.wants
       /\ sharingWrite.revision <= sharing.revision
       /\ sharingWrite.revision = sharing.revision => sharingWrite.asks = choice.wants

(* The last choice has reached the store: its write is stored, or over.    *)
Reached ==
  \/ ~sharing.busy /\ ~choice.failed
  \/ sharing.busy /\ sharingWrite.stored /\ sharingWrite.revision = sharing.revision

(* A choice that reached the store is in the file and in the memory, or a  *)
(* load begun since then has read it.                                      *)
ReachedIsSaved ==
  Reached /\ choice.wants # "none" /\ ~choice.raced =>
    /\ policyFile = choice.wants
    /\ cached \in {"none", choice.wants} /\ loading \in {"none", choice.wants}

SharingInv == SharingTypes /\ WriteIsOfAChoice /\ ReachedIsSaved

(* Nothing chosen yet.                                                     *)
LEMMA SharingBegins == PassportConsoleInit => SharingInv /\ PassportKeepsReading
<1> SUFFICES ASSUME PassportConsoleInit PROVE SharingInv /\ PassportKeepsReading
  OBVIOUS
<1>1. SharingTypes
  BY DEF PassportConsoleInit, SharingTypes, ReadTypes, NoCall, SharingCalls, Positions, PolicyFiles
<1>2. WriteIsOfAChoice /\ ReachedIsSaved
  BY DEF PassportConsoleInit, WriteIsOfAChoice, ReachedIsSaved
<1>3. PassportKeepsReading
  BY DEF PassportConsoleInit, PassportKeepsReading
<1> QED BY <1>1, <1>2, <1>3 DEF SharingInv

(* A call of the present choice is in flight.                              *)
LEMMA CallIsWrite ==
  ASSUME NEW s, s \in [shown : Positions, persisted : Positions, revision : Nat, busy : BOOLEAN]
  PROVE  /\ Call(s) \in SharingCalls /\ Call(s).asks = s.shown
         /\ Call(s).revision = s.revision /\ ~Call(s).stored
BY DEF Call, SharingCalls, Positions

(* A click.                                                                *)
LEMMA ClickKeeps ==
  ASSUME SharingInv, SetResourceSharing
  PROVE  SharingInv'
<1> DEFINE next == [sharing EXCEPT !.shown = IF @ = "on" THEN "off" ELSE "on",
                                   !.revision = @ + 1, !.busy = TRUE]
<1>1. /\ next \in [shown : Positions, persisted : Positions, revision : Nat, busy : BOOLEAN]
      /\ next.busy /\ next.revision = sharing.revision + 1
  <2> DEFINE other == IF sharing.shown = "on" THEN "off" ELSE "on"
  <2>1. other \in Positions
    BY DEF Positions
  <2>2. sharing \in [shown : Positions, persisted : Positions, revision : Nat, busy : BOOLEAN]
    BY DEF SharingInv, SharingTypes
  <2>3. next = [sharing EXCEPT !.shown = other, !.revision = sharing.revision + 1, !.busy = TRUE]
    BY Zenon
  <2>4. sharing.persisted \in Positions /\ sharing.revision + 1 \in Nat
    BY <2>2
  <2> HIDE DEF other, next
  <2>5. next = [shown |-> other, persisted |-> sharing.persisted, revision |-> sharing.revision + 1, busy |-> TRUE]
    BY <2>2, <2>3
  <2> QED BY <2>1, <2>4, <2>5
<1>2. /\ sharing' = next
      /\ sharingWrite' = IF sharingWrite = NoCall THEN Call(next) ELSE sharingWrite
      /\ choice' = [wants |-> next.shown, failed |-> FALSE, raced |-> FALSE]
      /\ UNCHANGED <<policyFile, cached, loading, passportReads, passportPoll, logout>>
  BY Zenon DEF SetResourceSharing
<1> HIDE DEF next
<1>3. sharingWrite' \in SharingCalls /\ SharingTypes'
  <2>1. sharingWrite' \in SharingCalls
    BY <1>1, <1>2, CallIsWrite DEF SharingInv, SharingTypes
  <2>2. choice' \in [wants : Positions \cup {"none"}, failed : BOOLEAN, raced : BOOLEAN]
    BY <1>1, <1>2
  <2> QED BY <1>1, <1>2, <2>1, <2>2 DEF SharingInv, SharingTypes, ReadTypes
<1>4. CASE sharingWrite = NoCall
  <2>1. sharingWrite' = Call(next)
    BY <1>2, <1>4
  <2>2. WriteIsOfAChoice'
    BY <1>1, <1>2, <2>1, CallIsWrite DEF WriteIsOfAChoice
  <2>3. ReachedIsSaved'
    BY <1>1, <1>2, <2>1, CallIsWrite DEF ReachedIsSaved, Reached
  <2> QED BY <1>3, <2>2, <2>3 DEF SharingInv
<1>5. CASE sharingWrite # NoCall
  <2>1. sharing.busy /\ sharingWrite.revision <= sharing.revision /\ sharingWrite.asks \in Positions
    BY <1>5 DEF SharingInv, WriteIsOfAChoice
  <2>2. sharingWrite' = sharingWrite /\ sharingWrite.revision \in Nat /\ sharing.revision \in Nat
    BY <1>2, <1>5 DEF SharingInv, SharingTypes, SharingCalls
  <2>3. sharingWrite'.revision < sharing'.revision
    BY <1>1, <1>2, <2>1, <2>2
  <2>4. WriteIsOfAChoice'
    BY <1>1, <1>2, <2>1, <2>2, <2>3 DEF WriteIsOfAChoice
  <2>5. ReachedIsSaved'
    BY <1>1, <1>2, <2>2, <2>3 DEF ReachedIsSaved, Reached
  <2> QED BY <1>3, <2>4, <2>5 DEF SharingInv
<1> QED BY <1>4, <1>5

(* The answer to a write, or its failure.  It ends the choice it is of,    *)
(* and has a newer one asked again.                                        *)
LEMMA AnswerKeeps ==
  ASSUME SharingInv, sharingWrite # NoCall, NEW next, NEW failed \in BOOLEAN, WriteEnds(next, failed),
         \/ next = [sharing EXCEPT !.shown = sharing.persisted] /\ failed
         \/ next = [sharing EXCEPT !.shown = sharingWrite.asks, !.persisted = sharingWrite.asks]
            /\ sharingWrite.stored /\ ~failed,
         policyFile' = policyFile, cached' \in {"none", cached}, loading' \in {"none", loading},
         ReadTypes'
  PROVE  SharingInv'
<1>1. /\ sharing.busy /\ sharingWrite.asks \in Positions /\ sharing.shown = choice.wants
      /\ sharingWrite.revision = sharing.revision => sharingWrite.asks = choice.wants
  BY DEF SharingInv, WriteIsOfAChoice
<1>2. next \in [shown : Positions, persisted : Positions, revision : Nat, busy : BOOLEAN]
  BY <1>1 DEF SharingInv, SharingTypes
<1>3. NoCall \in SharingCalls
  BY DEF NoCall, SharingCalls
<1>4. CASE sharingWrite.revision = sharing.revision
  <2>1. /\ sharing' = [next EXCEPT !.busy = FALSE] /\ sharingWrite' = NoCall
        /\ choice' = [choice EXCEPT !.failed = @ \/ failed]
    BY <1>4 DEF WriteEnds
  <2>2. /\ sharing' \in [shown : Positions, persisted : Positions, revision : Nat, busy : BOOLEAN]
        /\ ~sharing'.busy
    BY <1>2, <2>1
  <2>3. /\ choice' \in [wants : Positions \cup {"none"}, failed : BOOLEAN, raced : BOOLEAN]
        /\ choice'.wants = choice.wants /\ choice'.raced = choice.raced /\ (failed => choice'.failed)
    BY <2>1 DEF SharingInv, SharingTypes
  <2>4. SharingTypes'
    BY <1>3, <2>1, <2>2, <2>3 DEF SharingInv, SharingTypes
  <2>5. WriteIsOfAChoice'
    BY <2>1, <2>2 DEF WriteIsOfAChoice
  <2>6. ReachedIsSaved'
    <3>1. CASE failed
      BY <2>2, <2>3, <3>1 DEF ReachedIsSaved, Reached
    <3>2. CASE ~failed
      BY <1>1, <1>4, <2>3, <3>2 DEF SharingInv, ReachedIsSaved, Reached
    <3> QED BY <3>1, <3>2
  <2> QED BY <2>4, <2>5, <2>6 DEF SharingInv
<1>5. CASE sharingWrite.revision # sharing.revision
  <2>1. /\ sharing' = [sharing EXCEPT !.persisted = next.persisted]
        /\ sharingWrite' = Call(sharing) /\ UNCHANGED choice
    BY <1>5 DEF WriteEnds
  <2>2. /\ sharing' \in [shown : Positions, persisted : Positions, revision : Nat, busy : BOOLEAN]
        /\ sharing'.busy /\ sharing'.shown = sharing.shown /\ sharing'.revision = sharing.revision
    BY <1>1, <1>2, <2>1 DEF SharingInv, SharingTypes
  <2>3. /\ sharingWrite' \in SharingCalls /\ sharingWrite'.asks = sharing.shown
        /\ sharingWrite'.revision = sharing.revision /\ ~sharingWrite'.stored
    BY <2>1, CallIsWrite DEF SharingInv, SharingTypes
  <2>4. SharingTypes'
    BY <2>1, <2>2, <2>3 DEF SharingInv, SharingTypes
  <2>5. WriteIsOfAChoice'
    BY <1>1, <2>1, <2>2, <2>3 DEF SharingInv, SharingTypes, WriteIsOfAChoice
  <2>6. ReachedIsSaved'
    BY <2>2, <2>3 DEF ReachedIsSaved, Reached
  <2> QED BY <2>4, <2>5, <2>6 DEF SharingInv
<1> QED BY <1>4, <1>5

(* The store saves a write, loads the policy and keeps it.                 *)
LEMMA StoreKeeps ==
  ASSUME SharingInv, StoreSaves \/ StoreLoads \/ StoreLoaded
  PROVE  SharingInv'
<1>1. CASE StoreSaves
  <2>1. /\ sharing.busy /\ sharingWrite.asks \in Positions /\ sharing.shown = choice.wants
        /\ sharingWrite.revision = sharing.revision => sharingWrite.asks = choice.wants
    BY <1>1 DEF StoreSaves, SharingInv, WriteIsOfAChoice
  <2>2. /\ policyFile' = sharingWrite.asks /\ cached' = sharingWrite.asks
        /\ sharingWrite' = [sharingWrite EXCEPT !.stored = TRUE]
        /\ choice' = [choice EXCEPT !.raced = @ \/ loading # "none"]
        /\ UNCHANGED <<loading, sharing, passportReads, passportPoll, logout>>
    BY <1>1 DEF StoreSaves
  <2>3. /\ sharingWrite' \in SharingCalls /\ sharingWrite'.asks = sharingWrite.asks
        /\ sharingWrite'.revision = sharingWrite.revision
    BY <2>2 DEF SharingInv, SharingTypes, SharingCalls
  <2>4. /\ choice' \in [wants : Positions \cup {"none"}, failed : BOOLEAN, raced : BOOLEAN]
        /\ choice'.wants = choice.wants /\ (~choice'.raced => loading = "none")
    BY <2>2 DEF SharingInv, SharingTypes
  <2>5. policyFile' \in PolicyFiles /\ cached' \in Positions \cup {"none"}
    BY <2>1, <2>2 DEF Positions, PolicyFiles
  <2>6. SharingTypes'
    BY <2>2, <2>3, <2>4, <2>5 DEF SharingInv, SharingTypes, ReadTypes
  <2>7. WriteIsOfAChoice'
    BY <2>1, <2>2, <2>3, <2>4 DEF SharingInv, WriteIsOfAChoice
  <2>8. ReachedIsSaved'
    BY <2>1, <2>2, <2>3, <2>4 DEF ReachedIsSaved, Reached
  <2> QED BY <2>6, <2>7, <2>8 DEF SharingInv
<1>2. CASE StoreLoads
  <2>1. loading' = policyFile /\ loading' \in PolicyFiles
    BY <1>2 DEF StoreLoads, SharingInv, SharingTypes
  <2>2. UNCHANGED <<policyFile, cached, sharing, sharingWrite, passportReads, passportPoll, logout, choice>>
    BY <1>2 DEF StoreLoads
  <2> QED
    BY <2>1, <2>2 DEF SharingInv, SharingTypes, ReadTypes, WriteIsOfAChoice, ReachedIsSaved, Reached
<1>3. CASE StoreLoaded
  <2>1. /\ loading # "none" /\ cached' = Switch(loading) /\ loading' = "none"
        /\ policyFile' = IF loading \in {"old_on", "old_off"} THEN Switch(loading) ELSE policyFile
        /\ UNCHANGED <<sharing, sharingWrite, passportReads, passportPoll, logout, choice>>
    BY <1>3 DEF StoreLoaded
  <2>2. /\ cached' \in Positions /\ policyFile' \in PolicyFiles
        /\ loading \in Positions => cached' = loading /\ policyFile' = policyFile
    BY <2>1 DEF Switch, SharingInv, SharingTypes, Positions, PolicyFiles
  <2>3. SharingTypes' /\ WriteIsOfAChoice'
    BY <2>1, <2>2 DEF SharingInv, SharingTypes, ReadTypes, WriteIsOfAChoice
  <2>4. ReachedIsSaved'
    <3> SUFFICES ASSUME Reached, choice.wants # "none", ~choice.raced
                 PROVE  policyFile' = choice.wants /\ cached' = choice.wants
      BY <2>1 DEF ReachedIsSaved, Reached
    <3>1. policyFile = choice.wants /\ loading = choice.wants /\ choice.wants \in Positions
      BY <2>1 DEF SharingInv, SharingTypes, ReachedIsSaved
    <3> QED BY <2>2, <3>1
  <2> QED BY <2>3, <2>4 DEF SharingInv
<1> QED BY <1>1, <1>2, <1>3

(* A read changes the switch only while no choice is being written.        *)
LEMMA ReadingKeeps ==
  ASSUME SharingInv,
         \/ \E r \in {"poll", "mutation"} : ReadCaptured(r) \/ ReadAnswered(r)
         \/ PassportTimerFires \/ RefreshAfterMutation \/ LocalLogout
  PROVE  SharingInv'
<1>1. ReadTypes'
  <2>1. ASSUME NEW r \in {"poll", "mutation"}, ReadCaptured(r) PROVE ReadTypes'
    BY <2>1 DEF ReadCaptured, SharingInv, SharingTypes, ReadTypes, Positions
  <2>2. ASSUME NEW r \in {"poll", "mutation"}, ReadAnswered(r) PROVE ReadTypes'
    BY <2>2 DEF ReadAnswered, SharingInv, SharingTypes, ReadTypes
  <2>3. CASE PassportTimerFires
    BY <2>3 DEF PassportTimerFires, SharingInv, SharingTypes, ReadTypes
  <2>4. CASE RefreshAfterMutation
    BY <2>4 DEF RefreshAfterMutation, SharingInv, SharingTypes, ReadTypes
  <2>5. CASE LocalLogout
    <3>1. ReadTypes
      BY DEF SharingInv, SharingTypes
    <3>2. /\ logout' \in {"no", "confirm", "busy"}
          /\ \/ UNCHANGED passportPoll
             \/ passportPoll' = [active |-> FALSE, timer |-> FALSE]
             \/ passportPoll' = [passportPoll EXCEPT !.active = TRUE]
          /\ \/ UNCHANGED passportReads
             \/ passportReads' = [passportReads EXCEPT !.poll = IF @ = "none" THEN "asked" ELSE @]
      BY <2>5 DEF LocalLogout
    <3>3. passportPoll' \in [active : BOOLEAN, timer : BOOLEAN]
      <4>1. passportPoll \in [active : BOOLEAN, timer : BOOLEAN]
        BY <3>1 DEF ReadTypes
      <4>2. CASE UNCHANGED passportPoll
        BY <4>1, <4>2
      <4>3. CASE passportPoll' = [active |-> FALSE, timer |-> FALSE]
        BY <4>3
      <4>4. CASE passportPoll' = [passportPoll EXCEPT !.active = TRUE]
        BY <4>1, <4>4
      <4> QED BY <3>2, <4>2, <4>3, <4>4
    <3>4. passportReads' \in [{"poll", "mutation"} -> {"none", "asked", "on", "off"}]
      BY <3>1, <3>2 DEF ReadTypes
    <3> QED BY <3>2, <3>3, <3>4 DEF ReadTypes
  <2> QED BY <2>1, <2>2, <2>3, <2>4, <2>5
<1>2. /\ UNCHANGED <<policyFile, cached, loading, sharingWrite, choice>>
      /\ \/ UNCHANGED sharing
         \/ ~sharing.busy /\ \E v \in Positions : sharing' = [sharing EXCEPT !.shown = v, !.persisted = v]
  BY DEF ReadCaptured, ReadAnswered, PassportTimerFires, RefreshAfterMutation, LocalLogout, Positions
<1>3. /\ sharing' \in [shown : Positions, persisted : Positions, revision : Nat, busy : BOOLEAN]
      /\ sharing'.busy = sharing.busy /\ sharing'.revision = sharing.revision
      /\ sharing.busy => sharing'.shown = sharing.shown
  BY <1>2 DEF SharingInv, SharingTypes
<1> QED
  BY <1>1, <1>2, <1>3 DEF SharingInv, SharingTypes, WriteIsOfAChoice, ReachedIsSaved, Reached

(* A restart of the sidecar fails the write in flight and drops the reads. *)
LEMMA RestartKeeps ==
  ASSUME SharingInv, SharingSidecarRestarts
  PROVE  SharingInv'
<1>1. /\ policyFile' = policyFile /\ cached' = "none" /\ loading' = "none" /\ ReadTypes'
  BY DEF SharingSidecarRestarts, SharingInv, SharingTypes, ReadTypes
<1>2. CASE sharingWrite = NoCall
  <2>1. UNCHANGED <<sharing, sharingWrite, choice>>
    BY <1>2 DEF SharingSidecarRestarts
  <2> QED
    BY <1>1, <2>1 DEF SharingInv, SharingTypes, WriteIsOfAChoice, ReachedIsSaved, Reached
<1>3. CASE sharingWrite # NoCall
  <2>1. WriteEnds([sharing EXCEPT !.shown = sharing.persisted], TRUE)
    BY <1>3 DEF SharingSidecarRestarts
  <2> QED BY <1>1, <1>3, <2>1, AnswerKeeps
<1> QED BY <1>2, <1>3

(* Every step of desktop and store keeps the invariant.                    *)
THEOREM SharingInvariance == PassportConsoleSpec => []SharingInv
<1>1. SharingInv /\ [PassportConsoleNext]_consoleVars => SharingInv'
  <2> SUFFICES ASSUME SharingInv, [PassportConsoleNext]_consoleVars PROVE SharingInv'
    OBVIOUS
  <2>1. CASE UNCHANGED consoleVars
    BY <2>1 DEF consoleVars, SharingInv, SharingTypes, ReadTypes, WriteIsOfAChoice, ReachedIsSaved, Reached
  <2>2. CASE WriteAnswered
    <3> DEFINE next == [sharing EXCEPT !.shown = sharingWrite.asks, !.persisted = sharingWrite.asks]
    <3>1. WriteEnds(next, FALSE)
      BY <2>2 DEF WriteAnswered
    <3>2. /\ sharingWrite.stored /\ sharingWrite # NoCall
          /\ UNCHANGED <<policyFile, cached, loading>> /\ ReadTypes'
      BY <2>2 DEF WriteAnswered, NoCall, SharingInv, SharingTypes, ReadTypes
    <3> HIDE DEF next
    <3>3. next = [sharing EXCEPT !.shown = sharingWrite.asks, !.persisted = sharingWrite.asks]
      BY DEF next
    <3> QED BY <3>1, <3>2, <3>3, AnswerKeeps
  <2>3. CASE WriteFails
    <3> DEFINE next == [sharing EXCEPT !.shown = sharing.persisted]
    <3>1. /\ WriteEnds(next, TRUE) /\ sharingWrite # NoCall
          /\ UNCHANGED <<policyFile, cached, loading>> /\ ReadTypes'
      BY <2>3 DEF WriteFails, SharingInv, SharingTypes, ReadTypes
    <3> QED BY <3>1, AnswerKeeps
  <2> QED
    BY <2>1, <2>2, <2>3, ClickKeeps, StoreKeeps, ReadingKeeps, RestartKeeps DEF PassportConsoleNext
<1>2. PassportConsoleInit => SharingInv
  BY SharingBegins
<1> QED BY <1>1, <1>2, PTL DEF PassportConsoleSpec

(* A copy that counts as fresh is of the policy; with no write in flight   *)
(* the switch stands where the controller takes the policy to be saved.    *)
CopiesAreFresh ==
  /\ "persisted" \in freshCopies => sharing.persisted = Policy
  /\ \A r \in {"poll", "mutation"} : r \in freshCopies => passportReads[r] = Policy
  /\ "write" \in freshCopies => sharingWrite.stored /\ sharingWrite.asks = Policy
  /\ ~sharing.busy => sharing.shown = sharing.persisted

(* The policy is a position, and is read from the file and the memory.     *)
LEMMA PolicyIsAPosition ==
  /\ SharingInv => Policy \in Positions
  /\ UNCHANGED <<policyFile, cached>> => Policy' = Policy
BY DEF SharingInv, SharingTypes, Policy, Switch, Positions, PolicyFiles

(* The end of a write leaves its failure's fall-back or what it asked for. *)
LEMMA EndOfWrite ==
  ASSUME SharingInv, sharingWrite # NoCall, NEW next, NEW failed \in BOOLEAN, WriteEnds(next, failed),
         next \in [shown : Positions, persisted : Positions, revision : Nat, busy : BOOLEAN],
         next.shown = next.persisted
  PROVE  /\ sharing'.persisted = next.persisted
         /\ ~sharing'.busy => sharing'.shown = sharing'.persisted
<1>1. CASE sharingWrite.revision = sharing.revision
  BY <1>1 DEF WriteEnds
<1>2. CASE sharingWrite.revision # sharing.revision
  <2>1. sharing' = [sharing EXCEPT !.persisted = next.persisted]
    BY <1>2 DEF WriteEnds
  <2>2. sharing \in [shown : Positions, persisted : Positions, revision : Nat, busy : BOOLEAN]
    BY DEF SharingInv, SharingTypes
  <2>3. sharing.busy
    BY DEF SharingInv, WriteIsOfAChoice
  <2> QED BY <2>1, <2>2, <2>3
<1> QED BY <1>1, <1>2

(* Clicks, answers and failures.                                           *)
LEMMA WritesKeepCopies ==
  ASSUME SharingInv, CopiesAreFresh, SetResourceSharing \/ WriteAnswered \/ WriteFails
  PROVE  CopiesAreFresh'
<1>0. sharing \in [shown : Positions, persisted : Positions, revision : Nat, busy : BOOLEAN]
  BY DEF SharingInv, SharingTypes
<1>1. CASE SetResourceSharing
  <2>1. /\ sharing'.persisted = sharing.persisted /\ sharing'.busy
        /\ sharingWrite' = IF sharingWrite = NoCall THEN sharingWrite' ELSE sharingWrite
        /\ UNCHANGED <<policyFile, cached, passportReads, freshCopies>>
    BY <1>0, <1>1 DEF SetResourceSharing
  <2>2. "write" \in freshCopies => sharingWrite # NoCall
    BY DEF CopiesAreFresh, NoCall
  <2> QED BY <2>1, <2>2, PolicyIsAPosition DEF CopiesAreFresh
<1>2. CASE WriteAnswered
  <2> DEFINE next == [sharing EXCEPT !.shown = sharingWrite.asks, !.persisted = sharingWrite.asks]
  <2>0. sharingWrite # NoCall
    BY <1>2 DEF WriteAnswered, NoCall
  <2>1. /\ WriteEnds(next, FALSE) /\ freshCopies' = TakenForSaved("write")
        /\ UNCHANGED <<policyFile, cached, passportReads>>
    BY <1>2 DEF WriteAnswered
  <2>2. sharingWrite.asks \in Positions
    BY <1>2 DEF WriteAnswered, SharingInv, WriteIsOfAChoice, NoCall
  <2>3. /\ next \in [shown : Positions, persisted : Positions, revision : Nat, busy : BOOLEAN]
        /\ next.shown = sharingWrite.asks /\ next.persisted = sharingWrite.asks
    BY <1>0, <2>2
  <2> HIDE DEF next
  <2>4. sharing'.persisted = sharingWrite.asks /\ (~sharing'.busy => sharing'.shown = sharing'.persisted)
    BY <2>0, <2>1, <2>3, EndOfWrite
  <2> QED BY <2>1, <2>4, PolicyIsAPosition DEF CopiesAreFresh, TakenForSaved
<1>3. CASE WriteFails
  <2> DEFINE next == [sharing EXCEPT !.shown = sharing.persisted]
  <2>1. /\ WriteEnds(next, TRUE) /\ freshCopies' = freshCopies \ {"write"} /\ sharingWrite # NoCall
        /\ UNCHANGED <<policyFile, cached, passportReads>>
    BY <1>3 DEF WriteFails
  <2>2. /\ next \in [shown : Positions, persisted : Positions, revision : Nat, busy : BOOLEAN]
        /\ next.shown = sharing.persisted /\ next.persisted = sharing.persisted
    BY <1>0
  <2> HIDE DEF next
  <2>3. sharing'.persisted = sharing.persisted /\ (~sharing'.busy => sharing'.shown = sharing'.persisted)
    BY <2>1, <2>2, EndOfWrite
  <2> QED BY <2>1, <2>3, PolicyIsAPosition DEF CopiesAreFresh
<1> QED BY <1>1, <1>2, <1>3

(* A step of the store leaves only the copies that are still of its policy. *)
LEMMA StoreKeepsCopies ==
  ASSUME SharingInv, CopiesAreFresh, StoreSaves \/ StoreLoads \/ StoreLoaded \/ SharingSidecarRestarts
  PROVE  CopiesAreFresh'
<1>0. sharing \in [shown : Positions, persisted : Positions, revision : Nat, busy : BOOLEAN]
  BY DEF SharingInv, SharingTypes
<1>1. CASE StoreSaves
  <2>1. /\ policyFile' = sharingWrite.asks /\ cached' = sharingWrite.asks
        /\ sharingWrite' = [sharingWrite EXCEPT !.stored = TRUE]
        /\ freshCopies' = StillFresh \cup {"write"}
        /\ UNCHANGED <<sharing, passportReads>>
    BY <1>1 DEF StoreSaves
  <2>2. sharingWrite.asks \in Positions /\ sharingWrite \in SharingCalls
    BY <1>1 DEF StoreSaves, SharingInv, SharingTypes, WriteIsOfAChoice
  <2>3. Policy' = sharingWrite.asks /\ sharingWrite'.stored /\ sharingWrite'.asks = sharingWrite.asks
    BY <2>1, <2>2 DEF Policy, Positions, SharingCalls
  <2> QED BY <2>1, <2>3 DEF CopiesAreFresh, StillFresh
<1>2. CASE StoreLoads
  BY <1>2, PolicyIsAPosition DEF StoreLoads, CopiesAreFresh
<1>3. CASE StoreLoaded
  BY <1>3 DEF StoreLoaded, CopiesAreFresh, StillFresh
<1>4. CASE SharingSidecarRestarts
  <2>1. sharing'.persisted = sharing.persisted /\ (~sharing'.busy => sharing'.shown = sharing'.persisted)
    <3>1. CASE sharingWrite = NoCall
      BY <1>4, <3>1 DEF SharingSidecarRestarts, CopiesAreFresh
    <3>2. CASE sharingWrite # NoCall
      <4> DEFINE next == [sharing EXCEPT !.shown = sharing.persisted]
      <4>1. WriteEnds(next, TRUE)
        BY <1>4, <3>2 DEF SharingSidecarRestarts
      <4>2. /\ next \in [shown : Positions, persisted : Positions, revision : Nat, busy : BOOLEAN]
            /\ next.shown = sharing.persisted /\ next.persisted = sharing.persisted
        BY <1>0
      <4> HIDE DEF next
      <4> QED BY <3>2, <4>1, <4>2, EndOfWrite
    <3> QED BY <3>1, <3>2
  <2>2. freshCopies' = StillFresh \ {"write", "poll", "mutation"}
    BY <1>4 DEF SharingSidecarRestarts
  <2> QED BY <2>1, <2>2 DEF CopiesAreFresh, StillFresh
<1> QED BY <1>1, <1>2, <1>3, <1>4

(* A read that is applied is what the controller takes for saved.          *)
LEMMA ReadsKeepCopies ==
  ASSUME SharingInv, CopiesAreFresh,
         \/ \E r \in {"poll", "mutation"} : ReadCaptured(r) \/ ReadAnswered(r)
         \/ PassportTimerFires \/ RefreshAfterMutation \/ LocalLogout
  PROVE  CopiesAreFresh'
<1>0. /\ sharing \in [shown : Positions, persisted : Positions, revision : Nat, busy : BOOLEAN]
      /\ passportReads \in [{"poll", "mutation"} -> {"none", "asked", "on", "off"}]
      /\ UNCHANGED <<policyFile, cached>> => Policy' = Policy
      /\ Policy \in {"on", "off"}
  BY PolicyIsAPosition DEF SharingInv, SharingTypes, ReadTypes, Positions
<1>1. ASSUME NEW r \in {"poll", "mutation"}, ReadCaptured(r) PROVE CopiesAreFresh'
  <2>1. /\ passportReads' = [passportReads EXCEPT ![r] = Policy] /\ freshCopies' = freshCopies \cup {r}
        /\ UNCHANGED <<policyFile, cached, sharing, sharingWrite>>
    BY <1>1 DEF ReadCaptured, Policy
  <2> QED BY <1>0, <2>1 DEF CopiesAreFresh
<1>2. ASSUME NEW r \in {"poll", "mutation"}, ReadAnswered(r) PROVE CopiesAreFresh'
  <2>1. /\ passportReads' = [passportReads EXCEPT ![r] = "none"]
        /\ UNCHANGED <<policyFile, cached, sharingWrite>>
    BY <1>2 DEF ReadAnswered
  <2>2. r \notin freshCopies'
    BY <1>2 DEF ReadAnswered, TakenForSaved
  <2>3. freshCopies' \subseteq freshCopies \cup {"persisted"}
    BY <1>2 DEF ReadAnswered, TakenForSaved
  <2>4. CASE UNCHANGED sharing /\ freshCopies' = freshCopies \ {r}
    BY <1>0, <2>1, <2>2, <2>4 DEF CopiesAreFresh
  <2>5. CASE /\ sharing' = [sharing EXCEPT !.shown = passportReads[r], !.persisted = passportReads[r]]
             /\ freshCopies' = TakenForSaved(r)
    <3>1. sharing'.shown = passportReads[r] /\ sharing'.persisted = passportReads[r]
      BY <1>0, <2>5
    <3>2. "persisted" \in freshCopies' => r \in freshCopies
      BY <2>5 DEF TakenForSaved
    <3> QED BY <1>0, <2>1, <2>2, <2>3, <3>1, <3>2 DEF CopiesAreFresh
  <2> QED BY <1>2, <2>4, <2>5 DEF ReadAnswered
<1>3. CASE PassportTimerFires \/ RefreshAfterMutation \/ LocalLogout
  <2>1. UNCHANGED <<policyFile, cached, sharing, sharingWrite, freshCopies>>
    BY <1>3 DEF PassportTimerFires, RefreshAfterMutation, LocalLogout
  <2>2. \A r \in {"poll", "mutation"} : passportReads[r] \in {"on", "off"} => passportReads'[r] = passportReads[r]
    BY <1>0, <1>3 DEF PassportTimerFires, RefreshAfterMutation, LocalLogout
  <2> QED BY <1>0, <2>1, <2>2 DEF CopiesAreFresh
<1> QED BY <1>1, <1>2, <1>3

(* Whichever copy the controller shows, it is of the policy if it is fresh. *)
LEMMA CopiesInvariance == PassportConsoleSpec => []CopiesAreFresh
<1>1. PassportConsoleInit => CopiesAreFresh
  BY DEF PassportConsoleInit, CopiesAreFresh
<1>2. SharingInv /\ CopiesAreFresh /\ [PassportConsoleNext]_consoleVars => CopiesAreFresh'
  <2> SUFFICES ASSUME SharingInv, CopiesAreFresh, [PassportConsoleNext]_consoleVars PROVE CopiesAreFresh'
    OBVIOUS
  <2>1. CASE UNCHANGED consoleVars
    BY <2>1, PolicyIsAPosition DEF consoleVars, CopiesAreFresh
  <2> QED
    BY <2>1, WritesKeepCopies, StoreKeepsCopies, ReadsKeepCopies DEF PassportConsoleNext
<1> QED BY <1>1, <1>2, SharingInvariance, PTL DEF PassportConsoleSpec

(* Once no write is in flight the last choice is saved and what the        *)
(* runtime shares by; the switch shows the policy if the copy it comes     *)
(* from was taken since the policy changed; an active controller keeps     *)
(* reading (passport/controller.ts, flushSharingWrites and readSnapshot;   *)
(* sharing.ts, load and save).                                             *)
THEOREM ThePassportViewIsTrue == PassportConsoleSpec => []PassportViewIsTrue
<1>1. SharingInv /\ CopiesAreFresh => SharingChoiceIsSaved /\ SwitchShowsThePolicy
  BY DEF SharingInv, ReachedIsSaved, Reached, SharingChoiceIsSaved, CopiesAreFresh, SwitchShowsThePolicy
<1>2. PassportConsoleInit => PassportKeepsReading
  BY SharingBegins
<1>3. SharingInv /\ PassportKeepsReading /\ [PassportConsoleNext]_consoleVars => PassportKeepsReading'
  <2> SUFFICES ASSUME SharingInv, PassportKeepsReading, [PassportConsoleNext]_consoleVars
               PROVE  PassportKeepsReading'
    OBVIOUS
  <2>1. ReadTypes
    BY DEF SharingInv, SharingTypes
  <2>2. CASE \/ UNCHANGED consoleVars \/ SetResourceSharing \/ WriteAnswered \/ WriteFails
             \/ StoreSaves \/ StoreLoads \/ StoreLoaded
    <3>1. UNCHANGED <<passportReads, passportPoll>>
      BY <2>2 DEF consoleVars, SetResourceSharing, WriteAnswered, WriteFails, StoreSaves, StoreLoads, StoreLoaded
    <3> QED BY <3>1 DEF PassportKeepsReading
  <2>3. CASE SharingSidecarRestarts
    BY <2>1, <2>3 DEF SharingSidecarRestarts, ReadTypes, PassportKeepsReading
  <2>4. ASSUME NEW r \in {"poll", "mutation"}, ReadCaptured(r) \/ ReadAnswered(r)
        PROVE  PassportKeepsReading'
    BY <2>1, <2>4 DEF ReadCaptured, ReadAnswered, ReadTypes, PassportKeepsReading
  <2>5. CASE PassportTimerFires \/ RefreshAfterMutation \/ LocalLogout
    BY <2>1, <2>5 DEF PassportTimerFires, RefreshAfterMutation, LocalLogout, ReadTypes, PassportKeepsReading
  <2> QED BY <2>2, <2>3, <2>4, <2>5 DEF PassportConsoleNext
<1> QED BY <1>1, <1>2, <1>3, SharingInvariance, CopiesInvariance, PTL DEF PassportConsoleSpec, PassportViewIsTrue

-----------------------------------------------------------------------------
(* The native window                                                       *)

Modes == PanelModes \cup {"connection_detail", "idle", "onboarding"}
QueueCalls ==
  [kind : {"mode"}, mode : Modes, revision : Nat, sent : BOOLEAN]
    \cup [kind : {"height"}, mode : Modes, revision : Nat, requested : Nat, sent : BOOLEAN]
MainCalls == QueueCalls \cup [kind : {"refresh"}, mode : Modes]

NativeTypes ==
  /\ modeQueue \in Seq(QueueCalls)
  /\ mainQueue \in Seq(MainCalls)
  /\ modeCalls \in Nat /\ refreshes \in Nat
  /\ currentMode \in Modes
  /\ panel = [size |-> panel.size, mode |-> panel.mode, requested |-> panel.requested,
              by |-> panel.by, key |-> panel.key]

(* Call i asks for the mode asked for last.                                *)
AsksLatest(i) == modeQueue[i].kind = "mode" /\ modeQueue[i].revision = modeCalls

(* Only the first call has been sent; a call that has been overtaken has   *)
(* the call that overtook it behind it.                                    *)
CallsInOrder ==
  \A i \in 1 .. Len(modeQueue) :
    /\ modeQueue[i].revision <= modeCalls
    /\ AsksLatest(i) => modeQueue[i].mode = latestMode
    /\ i > 1 => ~modeQueue[i].sent
    /\ modeQueue[i].revision < modeCalls => \E k \in 1 .. Len(modeQueue) : k > i /\ AsksLatest(k)

(* A closure of the controller on the main thread is its first call.       *)
MainFollows ==
  \A j \in 1 .. Len(mainQueue) : mainQueue[j].kind # "refresh" =>
    /\ modeQueue # << >> /\ modeQueue[1].sent
    /\ mainQueue[j].kind = modeQueue[1].kind /\ mainQueue[j].mode = modeQueue[1].mode

ModeIsPosted == \E j \in 1 .. Len(mainQueue) : mainQueue[j].kind = "mode"

(* The mode asked for last is set, or still on its way.                    *)
LatestIsPending ==
  \E i \in 1 .. Len(modeQueue) : AsksLatest(i) /\ (modeQueue[i].sent => ModeIsPosted)
ModeArrives == modeCalls > 0 => LatestIsPending \/ currentMode = latestMode

(* A window that does not fit the screen has a refresh coming.             *)
RefreshIsDue == refreshes \in sleeping \/ \E j \in 1 .. Len(mainQueue) : mainQueue[j].kind = "refresh"
WindowFits == panel.by # "failed" => panel.size = TargetSize(panel.mode, panel.requested, screen)

NativeInv ==
  NativeTypes /\ CallsInOrder /\ MainFollows /\ ModeArrives /\ (WindowFits \/ RefreshIsDue)

(* The window as it is created.                                            *)
LEMMA NativeBegins == NativeInit => NativeInv
<1> SUFFICES ASSUME NativeInit PROVE NativeInv
  OBVIOUS
<1>1. NativeTypes
  BY DEF NativeInit, NativeTypes, Panel, Modes, InitialIslandMode
<1>2. CallsInOrder /\ MainFollows /\ ModeArrives
  BY DEF NativeInit, CallsInOrder, MainFollows, ModeArrives
<1>3. WindowFits
  BY DEF NativeInit, WindowFits, Panel
<1> QED BY <1>1, <1>2, <1>3 DEF NativeInv

(* A call joins the queue of the controller.                               *)
LEMMA CallJoins ==
  ASSUME NativeInv, NEW call \in QueueCalls, ~call.sent, call.revision = modeCalls',
         modeQueue' = Append(modeQueue, call),
         UNCHANGED <<platform, screen, mainQueue, currentMode, panel, refreshes, sleeping>>,
         \/ call.kind = "mode" /\ call.mode = latestMode' /\ modeCalls' = modeCalls + 1
         \/ call.kind = "height" /\ UNCHANGED <<modeCalls, latestMode>>
  PROVE  NativeInv'
<1>0. PICK n \in Nat : n = Len(modeQueue)
  BY DEF NativeInv, NativeTypes
<1>1. /\ modeQueue' \in Seq(QueueCalls) /\ Len(modeQueue') = n + 1 /\ modeQueue'[n + 1] = call
      /\ \A i \in 1 .. n : modeQueue'[i] = modeQueue[i] /\ modeQueue[i].revision \in Nat
      /\ n \in Nat /\ modeCalls \in Nat
  BY <1>0, AppendProperties DEF NativeInv, NativeTypes, QueueCalls
<1>2. NativeTypes'
  BY <1>0, <1>1 DEF NativeInv, NativeTypes
<1>3. MainFollows'
  <2>1. modeQueue # << >> => modeQueue' # << >> /\ modeQueue'[1] = modeQueue[1]
    BY <1>0, <1>1 DEF NativeInv, NativeTypes
  <2> QED BY <2>1 DEF NativeInv, MainFollows
<1>4. WindowFits' \/ RefreshIsDue'
  BY DEF NativeInv, WindowFits, RefreshIsDue, TargetSize
<1>5. CASE call.kind = "mode" /\ call.mode = latestMode' /\ modeCalls' = modeCalls + 1
  <2>1. n + 1 \in 1 .. Len(modeQueue') /\ AsksLatest(n + 1)'
    BY <1>0, <1>1, <1>5 DEF AsksLatest
  <2>2. CallsInOrder'
    <3> SUFFICES ASSUME NEW i \in 1 .. Len(modeQueue')
                 PROVE  /\ modeQueue'[i].revision <= modeCalls'
                        /\ AsksLatest(i)' => modeQueue'[i].mode = latestMode'
                        /\ i > 1 => ~modeQueue'[i].sent
                        /\ modeQueue'[i].revision < modeCalls' =>
                             \E k \in 1 .. Len(modeQueue') : k > i /\ AsksLatest(k)'
      BY DEF CallsInOrder
    <3>1. CASE i = n + 1
      BY <1>0, <1>1, <1>5, <3>1
    <3>2. CASE i \in 1 .. n
      <4>1. modeQueue'[i].revision < modeCalls' /\ (i > 1 => ~modeQueue'[i].sent)
        BY <1>0, <1>1, <1>5, <3>2 DEF NativeInv, CallsInOrder
      <4>2. modeQueue'[i].revision # modeCalls'
        BY <1>0, <1>1, <1>5, <3>2, <4>1
      <4> QED BY <1>0, <1>1, <2>1, <3>2, <4>1, <4>2 DEF AsksLatest
    <3> QED BY <1>0, <1>1, <3>1, <3>2
  <2>3. ModeArrives'
    BY <1>0, <1>1, <2>1 DEF ModeArrives, LatestIsPending
  <2> QED BY <1>2, <1>3, <1>4, <2>2, <2>3 DEF NativeInv
<1>6. CASE call.kind = "height" /\ UNCHANGED <<modeCalls, latestMode>>
  <2>1. /\ \A i \in 1 .. n : AsksLatest(i)' <=> AsksLatest(i)
        /\ ~AsksLatest(n + 1)'
    BY <1>0, <1>1, <1>6 DEF AsksLatest
  <2>2. CallsInOrder'
    <3> SUFFICES ASSUME NEW i \in 1 .. Len(modeQueue')
                 PROVE  /\ modeQueue'[i].revision <= modeCalls'
                        /\ AsksLatest(i)' => modeQueue'[i].mode = latestMode'
                        /\ i > 1 => ~modeQueue'[i].sent
                        /\ modeQueue'[i].revision < modeCalls' =>
                             \E k \in 1 .. Len(modeQueue') : k > i /\ AsksLatest(k)'
      BY DEF CallsInOrder
    <3>1. CASE i = n + 1
      BY <1>0, <1>1, <1>6, <2>1, <3>1
    <3>2. CASE i \in 1 .. n
      <4>1. /\ modeQueue[i].revision <= modeCalls
            /\ AsksLatest(i) => modeQueue[i].mode = latestMode
            /\ i > 1 => ~modeQueue[i].sent
            /\ modeQueue[i].revision < modeCalls => \E k \in 1 .. n : k > i /\ AsksLatest(k)
        BY <1>0, <3>2 DEF NativeInv, CallsInOrder
      <4> QED BY <1>0, <1>1, <1>6, <2>1, <3>2, <4>1
    <3> QED BY <1>0, <1>1, <3>1, <3>2
  <2>3. ModeArrives'
    <3>1. LatestIsPending => LatestIsPending'
      BY <1>0, <1>1, <2>1 DEF LatestIsPending, ModeIsPosted
    <3> QED BY <1>6, <3>1 DEF NativeInv, ModeArrives
  <2> QED BY <1>2, <1>3, <1>4, <2>2, <2>3 DEF NativeInv
<1> QED BY <1>5, <1>6

(* The first call leaves the queue: overtaken, or settled.                 *)
LEMMA CallLeaves ==
  ASSUME NativeInv, modeQueue # << >>, modeQueue' = Tail(modeQueue),
         modeQueue[1].sent \/ modeQueue[1].revision # modeCalls,
         \A j \in 1 .. Len(mainQueue) : mainQueue[j].kind = "refresh",
         UNCHANGED <<platform, screen, modeCalls, latestMode, mainQueue, currentMode, panel, refreshes, sleeping>>
  PROVE  NativeInv'
<1>0. PICK n \in Nat : n = Len(modeQueue)
  BY DEF NativeInv, NativeTypes
<1>1. /\ modeQueue' \in Seq(QueueCalls) /\ Len(modeQueue') = n - 1 /\ n >= 1
      /\ \A i \in 1 .. n - 1 : modeQueue'[i] = modeQueue[i + 1] /\ i + 1 \in 1 .. n
  BY <1>0, HeadTailProperties DEF NativeInv, NativeTypes
<1>2. NativeTypes'
  BY <1>1 DEF NativeInv, NativeTypes
<1>3. MainFollows'
  BY DEF MainFollows
<1>4. \A i \in 1 .. n - 1 : AsksLatest(i)' <=> AsksLatest(i + 1)
  BY <1>1 DEF AsksLatest
<1>5. CallsInOrder'
  <2> SUFFICES ASSUME NEW i \in 1 .. n - 1
               PROVE  /\ modeQueue'[i].revision <= modeCalls
                      /\ AsksLatest(i)' => modeQueue'[i].mode = latestMode
                      /\ i > 1 => ~modeQueue'[i].sent
                      /\ modeQueue'[i].revision < modeCalls => \E k \in 1 .. n - 1 : k > i /\ AsksLatest(k)'
    BY <1>1 DEF CallsInOrder
  <2>1. i + 1 \in 1 .. n /\ modeQueue'[i] = modeQueue[i + 1]
    BY <1>1
  <2>2. /\ modeQueue[i + 1].revision <= modeCalls
        /\ AsksLatest(i + 1) => modeQueue[i + 1].mode = latestMode
        /\ ~modeQueue[i + 1].sent
        /\ modeQueue[i + 1].revision < modeCalls => \E k \in 1 .. n : k > i + 1 /\ AsksLatest(k)
    BY <1>0, <2>1 DEF NativeInv, CallsInOrder
  <2>3. ASSUME modeQueue'[i].revision < modeCalls
        PROVE  \E k \in 1 .. n - 1 : k > i /\ AsksLatest(k)'
    <3>1. PICK k \in 1 .. n : k > i + 1 /\ AsksLatest(k)
      BY <2>1, <2>2, <2>3
    <3>2. k - 1 \in 1 .. n - 1 /\ k - 1 > i /\ (k - 1) + 1 = k
      BY <3>1
    <3>3. PICK h \in 1 .. n - 1 : h > i /\ h + 1 = k
      BY <3>2
    <3> QED BY <1>4, <3>1, <3>3
  <2> QED BY <1>4, <2>1, <2>2, <2>3
<1>6. ModeArrives'
  <2> SUFFICES ASSUME LatestIsPending PROVE LatestIsPending'
    BY DEF NativeInv, ModeArrives
  <2>1. ~ModeIsPosted
    BY DEF ModeIsPosted
  <2>2. PICK i \in 1 .. n : AsksLatest(i) /\ ~modeQueue[i].sent
    BY <1>0, <2>1 DEF LatestIsPending
  <2>3. i # 1
    BY <2>2 DEF AsksLatest
  <2>4. PICK h \in 1 .. n - 1 : h + 1 = i
    <3>1. i - 1 \in 1 .. n - 1 /\ (i - 1) + 1 = i
      BY <2>2, <2>3
    <3> QED BY <3>1
  <2>5. AsksLatest(h)' /\ ~modeQueue'[h].sent
    BY <1>1, <1>4, <2>2, <2>4
  <2> QED BY <1>1, <2>4, <2>5 DEF LatestIsPending
<1>7. WindowFits' \/ RefreshIsDue'
  BY DEF NativeInv, WindowFits, RefreshIsDue, TargetSize
<1> QED BY <1>2, <1>3, <1>5, <1>6, <1>7 DEF NativeInv

(* A call that has not been overtaken is sent to the main thread.          *)
LEMMA CallIsSent ==
  ASSUME NativeInv, modeQueue # << >>, ~modeQueue[1].sent,
         modeQueue' = [modeQueue EXCEPT ![1].sent = TRUE],
         mainQueue' = Append(mainQueue, modeQueue[1]),
         UNCHANGED <<platform, screen, modeCalls, latestMode, currentMode, panel, refreshes, sleeping>>
  PROVE  NativeInv'
<1>0. PICK n, m \in Nat : n = Len(modeQueue) /\ m = Len(mainQueue)
  <2>1. Len(modeQueue) \in Nat /\ Len(mainQueue) \in Nat
    BY LenProperties DEF NativeInv, NativeTypes
  <2> QED BY <2>1
<1>1. modeQueue \in Seq(QueueCalls) /\ mainQueue \in Seq(MainCalls) /\ 1 \in 1 .. n
  <2>1. modeQueue \in Seq(QueueCalls) /\ mainQueue \in Seq(MainCalls)
    BY DEF NativeInv, NativeTypes
  <2>2. Len(modeQueue) \in Nat \ {0}
    BY <2>1, EmptySeq
  <2> QED BY <1>0, <2>1, <2>2
<1>2. modeQueue[1] \in QueueCalls /\ modeQueue[1] \in MainCalls
  BY <1>0, <1>1 DEF MainCalls
<1>3. PICK call : call = [modeQueue[1] EXCEPT !.sent = TRUE]
  OBVIOUS
<1>4. /\ call \in QueueCalls /\ call.sent /\ call.kind = modeQueue[1].kind
      /\ call.mode = modeQueue[1].mode /\ call.revision = modeQueue[1].revision
  BY <1>2, <1>3 DEF QueueCalls
<1>5. modeQueue' = [modeQueue EXCEPT ![1] = call]
  BY <1>1, <1>3
<1>6. /\ modeQueue' \in Seq(QueueCalls) /\ Len(modeQueue') = n /\ modeQueue' # << >> /\ modeQueue'[1] = call
      /\ \A i \in 2 .. n : modeQueue'[i] = modeQueue[i]
  <2>1. /\ modeQueue' \in Seq(QueueCalls) /\ Len(modeQueue') = Len(modeQueue)
        /\ \A i \in 1 .. Len(modeQueue) : modeQueue'[i] = IF i = 1 THEN call ELSE modeQueue[i]
    <3>1. 1 \in 1 .. Len(modeQueue)
      BY <1>0, <1>1
    <3>2. ASSUME NEW t, t = [modeQueue EXCEPT ![1] = call]
          PROVE  /\ t \in Seq(QueueCalls) /\ Len(t) = Len(modeQueue)
                 /\ \A i \in 1 .. Len(modeQueue) : t[i] = IF i = 1 THEN call ELSE modeQueue[i]
      <4>1. /\ [modeQueue EXCEPT ![1] = call] \in Seq(QueueCalls)
            /\ Len([modeQueue EXCEPT ![1] = call]) = Len(modeQueue)
            /\ \A j \in 1 .. Len(modeQueue) :
                 [modeQueue EXCEPT ![1] = call][j] = IF j = 1 THEN call ELSE modeQueue[j]
        <5>1. modeQueue \in Seq(QueueCalls) /\ call \in QueueCalls
          BY <1>1, <1>4
        <5> HIDE DEF QueueCalls
        <5> QED BY <3>1, <5>1, ExceptSeq
      <4> QED BY <3>2, <4>1
    <3> QED BY <1>5, <3>2
  <2>2. modeQueue'[1] = call /\ \A i \in 2 .. n : modeQueue'[i] = modeQueue[i]
    BY <1>0, <1>1, <2>1
  <2>3. modeQueue' # << >>
    BY <1>0, <1>1, <2>1
  <2> QED BY <1>0, <2>1, <2>2, <2>3
<1>7. /\ mainQueue' \in Seq(MainCalls) /\ Len(mainQueue') = m + 1 /\ mainQueue'[m + 1] = modeQueue[1]
      /\ \A j \in 1 .. m : mainQueue'[j] = mainQueue[j] /\ mainQueue[j].kind = "refresh"
  BY <1>0, <1>1, <1>2, AppendProperties DEF NativeInv, MainFollows
<1>8. NativeTypes'
  BY <1>6, <1>7 DEF NativeInv, NativeTypes
<1>9. \A i \in 1 .. n : /\ AsksLatest(i)' <=> AsksLatest(i)
                        /\ modeQueue'[i].revision = modeQueue[i].revision
                        /\ modeQueue'[i].mode = modeQueue[i].mode
                        /\ i > 1 => modeQueue'[i].sent = modeQueue[i].sent
  <2> SUFFICES ASSUME NEW i \in 1 .. n
               PROVE  /\ AsksLatest(i)' <=> AsksLatest(i)
                      /\ modeQueue'[i].revision = modeQueue[i].revision
                      /\ modeQueue'[i].mode = modeQueue[i].mode
                      /\ i > 1 => modeQueue'[i].sent = modeQueue[i].sent
    OBVIOUS
  <2>1. CASE i = 1
    BY <1>4, <1>6, <2>1 DEF AsksLatest
  <2>2. CASE i \in 2 .. n
    BY <1>6, <2>2 DEF AsksLatest
  <2>3. i = 1 \/ i \in 2 .. n
    OBVIOUS
  <2> QED BY <2>1, <2>2, <2>3
<1>10. CallsInOrder'
  <2> SUFFICES ASSUME NEW i \in 1 .. n
               PROVE  /\ modeQueue'[i].revision <= modeCalls
                      /\ AsksLatest(i)' => modeQueue'[i].mode = latestMode
                      /\ i > 1 => ~modeQueue'[i].sent
                      /\ modeQueue'[i].revision < modeCalls => \E k \in 1 .. n : k > i /\ AsksLatest(k)'
    BY <1>6 DEF CallsInOrder
  <2>1. /\ modeQueue[i].revision <= modeCalls
        /\ AsksLatest(i) => modeQueue[i].mode = latestMode
        /\ i > 1 => ~modeQueue[i].sent
        /\ modeQueue[i].revision < modeCalls => \E k \in 1 .. n : k > i /\ AsksLatest(k)
    BY <1>0 DEF NativeInv, CallsInOrder
  <2> QED BY <1>9, <2>1
<1>11. MainFollows'
  <2> SUFFICES ASSUME NEW j \in 1 .. m + 1, mainQueue'[j].kind # "refresh"
               PROVE  /\ modeQueue' # << >> /\ modeQueue'[1].sent
                      /\ mainQueue'[j].kind = modeQueue'[1].kind /\ mainQueue'[j].mode = modeQueue'[1].mode
    BY <1>7 DEF MainFollows
  <2>1. j = m + 1
    BY <1>7
  <2> QED BY <1>4, <1>6, <1>7, <2>1
<1>12. ModeArrives'
  <2> SUFFICES ASSUME LatestIsPending PROVE LatestIsPending'
    BY DEF NativeInv, ModeArrives
  <2>1. PICK i \in 1 .. n : AsksLatest(i) /\ (modeQueue[i].sent => ModeIsPosted)
    BY <1>0 DEF LatestIsPending
  <2>2. CASE i = 1
    <3>1. ModeIsPosted'
      <4>1. m + 1 \in 1 .. Len(mainQueue') /\ mainQueue'[m + 1].kind = "mode"
        BY <1>7, <2>1, <2>2 DEF AsksLatest
      <4> QED BY <4>1 DEF ModeIsPosted
    <3> QED BY <1>6, <1>9, <2>1, <3>1 DEF LatestIsPending
  <2>3. CASE i > 1
    <3>1. ~modeQueue[i].sent
      BY <1>0, <2>3 DEF NativeInv, CallsInOrder
    <3> QED BY <1>6, <1>9, <2>1, <2>3, <3>1 DEF LatestIsPending
  <2> QED BY <2>2, <2>3
<1>13. WindowFits' \/ RefreshIsDue'
  <2>1. RefreshIsDue => RefreshIsDue'
    BY <1>0, <1>7 DEF RefreshIsDue
  <2>2. WindowFits => WindowFits'
    BY DEF WindowFits, TargetSize
  <2> QED BY <2>1, <2>2 DEF NativeInv
<1> QED BY <1>8, <1>10, <1>11, <1>12, <1>13 DEF NativeInv

(* The main thread runs the oldest closure: a mode is stored, and the      *)
(* window fits, or is as it was.                                           *)
LEMMA ClosureRuns ==
  ASSUME NativeInv, mainQueue # << >>, mainQueue' = Tail(mainQueue),
         currentMode' = IF mainQueue[1].kind = "mode" THEN mainQueue[1].mode ELSE currentMode,
         panel' = [size |-> panel'.size, mode |-> panel'.mode, requested |-> panel'.requested,
                   by |-> panel'.by, key |-> panel'.key],
         WindowFits' \/ (UNCHANGED panel /\ mainQueue[1].kind # "refresh"),
         UNCHANGED <<platform, screen, modeQueue, modeCalls, latestMode, refreshes, sleeping>>
  PROVE  NativeInv'
<1>0. PICK m \in Nat : m = Len(mainQueue)
  BY DEF NativeInv, NativeTypes
<1>1. /\ mainQueue' \in Seq(MainCalls) /\ Len(mainQueue') = m - 1 /\ m >= 1 /\ mainQueue[1] \in MainCalls
      /\ \A j \in 1 .. m - 1 : mainQueue'[j] = mainQueue[j + 1] /\ j + 1 \in 1 .. m
  BY <1>0, HeadTailProperties DEF NativeInv, NativeTypes
<1>2. \A j \in 2 .. m : \E h \in 1 .. m - 1 : mainQueue'[h] = mainQueue[j]
  <2> SUFFICES ASSUME NEW j \in 2 .. m PROVE \E h \in 1 .. m - 1 : mainQueue'[h] = mainQueue[j]
    OBVIOUS
  <2>0. m \in Nat /\ j \in Int /\ 2 <= j /\ j <= m
    BY <1>0
  <2>1. PICK h \in Int : h = j - 1
    BY <2>0
  <2>2. h \in 1 .. m - 1 /\ h + 1 = j
    BY <2>0, <2>1
  <2>3. mainQueue'[h] = mainQueue[h + 1]
    BY <1>1, <2>2
  <2> QED BY <2>2, <2>3
<1>3. NativeTypes'
  BY <1>1 DEF NativeInv, NativeTypes, MainCalls, QueueCalls
<1>4. CallsInOrder'
  BY DEF NativeInv, CallsInOrder, AsksLatest
<1>5. MainFollows'
  <2> SUFFICES ASSUME NEW j \in 1 .. m - 1, mainQueue'[j].kind # "refresh"
               PROVE  /\ modeQueue # << >> /\ modeQueue[1].sent
                      /\ mainQueue'[j].kind = modeQueue[1].kind /\ mainQueue'[j].mode = modeQueue[1].mode
    BY <1>1 DEF MainFollows
  <2> QED BY <1>0, <1>1 DEF NativeInv, MainFollows
<1>6. ModeArrives'
  <2>1. CASE mainQueue[1].kind = "mode"
    <3>1. /\ modeQueue # << >> /\ modeQueue[1].kind = "mode" /\ mainQueue[1].mode = modeQueue[1].mode
      BY <1>0, <1>1, <2>1 DEF NativeInv, MainFollows
    <3>2. 1 \in 1 .. Len(modeQueue)
      BY <3>1 DEF NativeInv, NativeTypes
    <3>3. /\ modeQueue[1].revision <= modeCalls
          /\ AsksLatest(1) => modeQueue[1].mode = latestMode
          /\ modeQueue[1].revision < modeCalls => \E k \in 1 .. Len(modeQueue) : k > 1 /\ AsksLatest(k)
      BY <3>2 DEF NativeInv, CallsInOrder
    <3>4. CASE modeQueue[1].revision = modeCalls
      BY <2>1, <3>1, <3>3, <3>4 DEF AsksLatest, ModeArrives
    <3>5. CASE modeQueue[1].revision # modeCalls
      <4>1. modeQueue[1].revision \in Nat /\ modeCalls \in Nat
        BY <3>2 DEF NativeInv, NativeTypes, QueueCalls
      <4>2. PICK k \in 1 .. Len(modeQueue) : k > 1 /\ AsksLatest(k)
        BY <3>3, <3>5, <4>1
      <4>3. ~modeQueue[k].sent /\ AsksLatest(k)'
        BY <4>2 DEF NativeInv, CallsInOrder, AsksLatest
      <4> QED BY <4>2, <4>3 DEF ModeArrives, LatestIsPending
    <3> QED BY <3>4, <3>5
  <2>2. CASE mainQueue[1].kind # "mode"
    <3>1. ModeIsPosted => ModeIsPosted'
      <4> SUFFICES ASSUME NEW j \in 1 .. m, mainQueue[j].kind = "mode" PROVE ModeIsPosted'
        BY <1>0 DEF ModeIsPosted
      <4>1. j \in 2 .. m
        BY <2>2
      <4> QED BY <1>1, <1>2, <4>1 DEF ModeIsPosted
    <3>2. LatestIsPending => LatestIsPending'
      BY <3>1 DEF LatestIsPending, AsksLatest
    <3> QED BY <2>2, <3>2 DEF NativeInv, ModeArrives
  <2> QED BY <2>1, <2>2
<1>7. WindowFits' \/ RefreshIsDue'
  <2> SUFFICES ASSUME UNCHANGED panel, mainQueue[1].kind # "refresh" PROVE WindowFits' \/ RefreshIsDue'
    OBVIOUS
  <2>1. RefreshIsDue => RefreshIsDue'
    <3> SUFFICES ASSUME NEW j \in 1 .. m, mainQueue[j].kind = "refresh" PROVE RefreshIsDue'
      BY <1>0 DEF RefreshIsDue
    <3>1. j \in 2 .. m
      OBVIOUS
    <3> QED BY <1>1, <1>2, <3>1 DEF RefreshIsDue
  <2>2. WindowFits => WindowFits'
    BY DEF WindowFits, TargetSize
  <2> QED BY <2>1, <2>2 DEF NativeInv
<1> QED BY <1>3, <1>4, <1>5, <1>6, <1>7 DEF NativeInv

(* A window that was just sized fits; one whose sizing failed says so.     *)
LEMMA SizedWindowFits ==
  ASSUME NativeInv, UNCHANGED <<platform, screen>>, NEW m, NEW requested, NEW by,
         \/ panel' = Panel(TargetSize(m, requested, screen), m, requested, by)
         \/ panel' = [panel EXCEPT !.by = "failed"]
  PROVE  /\ WindowFits'
         /\ panel' = [size |-> panel'.size, mode |-> panel'.mode, requested |-> panel'.requested,
                      by |-> panel'.by, key |-> panel'.key]
<1>1. CASE panel' = Panel(TargetSize(m, requested, screen), m, requested, by)
  <2>1. /\ panel'.size = TargetSize(m, requested, screen) /\ panel'.mode = m /\ panel'.requested = requested
        /\ panel' = [size |-> panel'.size, mode |-> panel'.mode, requested |-> panel'.requested,
                     by |-> panel'.by, key |-> panel'.key]
    BY <1>1 DEF Panel
  <2> QED BY <2>1 DEF WindowFits, TargetSize
<1>2. CASE panel' = [panel EXCEPT !.by = "failed"]
  <2>1. panel = [size |-> panel.size, mode |-> panel.mode, requested |-> panel.requested,
                 by |-> panel.by, key |-> panel.key]
    BY DEF NativeInv, NativeTypes
  <2>2. panel' = [size |-> panel.size, mode |-> panel.mode, requested |-> panel.requested,
                  by |-> "failed", key |-> panel.key]
    BY <1>2, <2>1
  <2> QED BY <2>2 DEF WindowFits
<1> QED BY <1>1, <1>2

(* Every step of the controller and of the main thread keeps the invariant. *)
THEOREM NativeInvariance == NativeSpec => []NativeInv
<1>1. NativeInv /\ [NativeNext]_nativeVars => NativeInv'
  <2> SUFFICES ASSUME NativeInv, [NativeNext]_nativeVars PROVE NativeInv'
    OBVIOUS
  <2>1. CASE UNCHANGED nativeVars
    BY <2>1 DEF nativeVars, NativeInv, NativeTypes, CallsInOrder, AsksLatest, MainFollows, ModeArrives,
       LatestIsPending, ModeIsPosted, WindowFits, RefreshIsDue, TargetSize
  <2>2. CASE SetMode
    <3>1. PICK m \in PanelModes :
            /\ modeQueue' = Append(modeQueue, [kind |-> "mode", mode |-> m, revision |-> modeCalls + 1, sent |-> FALSE])
            /\ latestMode' = m
      BY <2>2 DEF SetMode
    <3>2. PICK call : call = [kind |-> "mode", mode |-> m, revision |-> modeCalls + 1, sent |-> FALSE]
      OBVIOUS
    <3>3. call \in QueueCalls /\ ~call.sent /\ call.revision = modeCalls + 1 /\ call.kind = "mode" /\ call.mode = m
      BY <3>2 DEF NativeInv, NativeTypes, QueueCalls, Modes
    <3>4. /\ modeCalls' = modeCalls + 1 /\ modeQueue' = Append(modeQueue, call) /\ call.mode = latestMode'
          /\ UNCHANGED <<platform, screen, mainQueue, currentMode, panel, refreshes, sleeping>>
      BY <2>2, <3>1, <3>2, <3>3 DEF SetMode
    <3> QED BY <3>3, <3>4, CallJoins
  <2>3. CASE SetConnectionDetailHeight
    <3>1. PICK requested \in {400, 2000} : modeQueue' = Append(modeQueue, Height(requested))
      BY <2>3 DEF SetConnectionDetailHeight
    <3>2. PICK call : call = Height(requested)
      OBVIOUS
    <3>3. call \in QueueCalls /\ ~call.sent /\ call.revision = modeCalls /\ call.kind = "height"
      BY <3>2 DEF Height, NativeInv, NativeTypes, QueueCalls, Modes
    <3>4. UNCHANGED <<platform, screen, modeCalls, latestMode, mainQueue, currentMode, panel, refreshes, sleeping>>
      BY <2>3 DEF SetConnectionDetailHeight
    <3> QED BY <3>1, <3>2, <3>3, <3>4, CallJoins
  <2>4. CASE TakeTurn
    <3>1. /\ modeQueue # << >> /\ ~modeQueue[1].sent
          /\ UNCHANGED <<platform, screen, modeCalls, latestMode, currentMode, panel, refreshes, sleeping>>
          /\ \/ modeQueue[1].revision # modeCalls /\ modeQueue' = Tail(modeQueue) /\ UNCHANGED mainQueue
             \/ /\ modeQueue' = [modeQueue EXCEPT ![1].sent = TRUE]
                /\ mainQueue' = Append(mainQueue, modeQueue[1])
      BY <2>4 DEF TakeTurn, NativeInv, NativeTypes
    <3>2. \A j \in 1 .. Len(mainQueue) : mainQueue[j].kind = "refresh"
      BY <3>1 DEF NativeInv, MainFollows
    <3> QED BY <3>1, <3>2, CallLeaves, CallIsSent
  <2>5. CASE Settle
    <3>1. /\ modeQueue # << >> /\ modeQueue[1].sent /\ modeQueue' = Tail(modeQueue)
          /\ \A j \in 1 .. Len(mainQueue) : mainQueue[j].kind = "refresh"
          /\ UNCHANGED <<platform, screen, modeCalls, latestMode, mainQueue, currentMode, panel, refreshes, sleeping>>
      BY <2>5 DEF Settle, NativeInv, NativeTypes
    <3> QED BY <3>1, CallLeaves
  <2>6. CASE RunSetIslandMode
    <3>1. /\ mainQueue # << >> /\ mainQueue[1].kind = "mode" /\ mainQueue' = Tail(mainQueue)
          /\ currentMode' = mainQueue[1].mode
          /\ UNCHANGED <<platform, screen, modeQueue, modeCalls, latestMode, refreshes, sleeping>>
          /\ \/ panel' = Panel(TargetSize(mainQueue[1].mode, BaseHeight, screen), mainQueue[1].mode, BaseHeight, "set")
             \/ panel' = [panel EXCEPT !.by = "failed"]
      BY <2>6 DEF RunSetIslandMode, MainThreadRuns, NativeInv, NativeTypes
    <3> QED BY <3>1, SizedWindowFits, ClosureRuns
  <2>7. CASE RunSetDetailHeight
    <3>1. /\ mainQueue # << >> /\ mainQueue[1].kind = "height" /\ mainQueue' = Tail(mainQueue)
          /\ UNCHANGED <<platform, screen, modeQueue, modeCalls, latestMode, currentMode, refreshes, sleeping>>
      BY <2>7 DEF RunSetDetailHeight, MainThreadRuns, NativeInv, NativeTypes
    <3>2. \/ UNCHANGED panel
          \/ \E requested : panel' = Panel(TargetSize("connection_detail", requested, screen), "connection_detail", requested, "set")
          \/ panel' = [panel EXCEPT !.by = "failed"]
      BY <2>7 DEF RunSetDetailHeight
    <3>3. CASE UNCHANGED panel
      <4>1. panel' = [size |-> panel'.size, mode |-> panel'.mode, requested |-> panel'.requested,
                      by |-> panel'.by, key |-> panel'.key]
        BY <3>3 DEF NativeInv, NativeTypes
      <4> QED BY <3>1, <3>3, <4>1, ClosureRuns
    <3> QED BY <3>1, <3>2, <3>3, SizedWindowFits, ClosureRuns
  <2>8. CASE RunRefresh
    <3>1. /\ mainQueue # << >> /\ mainQueue[1].kind = "refresh" /\ mainQueue' = Tail(mainQueue)
          /\ UNCHANGED <<platform, screen, modeQueue, modeCalls, latestMode, currentMode, refreshes, sleeping>>
      BY <2>8 DEF RunRefresh, MainThreadRuns, NativeInv, NativeTypes
    <3>2. \E m, requested : \/ panel' = Panel(TargetSize(m, requested, screen), m, requested, "refresh")
                            \/ panel' = [panel EXCEPT !.by = "failed"]
      BY <2>8 DEF RunRefresh
    <3> QED BY <3>1, <3>2, SizedWindowFits, ClosureRuns
  <2>9. CASE ScreenChanges
    <3>1. /\ refreshes' = refreshes + 1 /\ refreshes' \in sleeping'
          /\ UNCHANGED <<modeQueue, modeCalls, latestMode, mainQueue, currentMode, panel>>
      BY <2>9 DEF ScreenChanges
    <3> QED
      BY <3>1 DEF NativeInv, NativeTypes, CallsInOrder, AsksLatest, MainFollows, ModeArrives,
         LatestIsPending, ModeIsPosted, RefreshIsDue
  <2>10. CASE RefreshWakes
    <3>1. /\ UNCHANGED <<platform, screen, modeQueue, modeCalls, latestMode, currentMode, panel, refreshes>>
          /\ \/ UNCHANGED mainQueue /\ (refreshes \in sleeping => refreshes \in sleeping')
             \/ mainQueue' = Append(mainQueue, [kind |-> "refresh", mode |-> currentMode])
      BY <2>10 DEF RefreshWakes
    <3>2. CASE UNCHANGED mainQueue /\ (refreshes \in sleeping => refreshes \in sleeping')
      BY <3>1, <3>2 DEF NativeInv, NativeTypes, CallsInOrder, AsksLatest, MainFollows, ModeArrives,
         LatestIsPending, ModeIsPosted, RefreshIsDue, WindowFits, TargetSize
    <3>3. CASE mainQueue' = Append(mainQueue, [kind |-> "refresh", mode |-> currentMode])
      <4>1. PICK m \in Nat : m = Len(mainQueue)
        BY DEF NativeInv, NativeTypes
      <4>2. [kind |-> "refresh", mode |-> currentMode] \in MainCalls
        BY DEF NativeInv, NativeTypes, MainCalls
      <4>3. /\ mainQueue' \in Seq(MainCalls) /\ Len(mainQueue') = m + 1 /\ mainQueue'[m + 1].kind = "refresh"
            /\ \A j \in 1 .. m : mainQueue'[j] = mainQueue[j]
        BY <3>3, <4>1, <4>2, AppendProperties DEF NativeInv, NativeTypes
      <4>4. NativeTypes' /\ CallsInOrder' /\ RefreshIsDue'
        BY <3>1, <4>3 DEF NativeInv, NativeTypes, CallsInOrder, AsksLatest, RefreshIsDue
      <4>5. MainFollows'
        BY <3>1, <4>1, <4>3 DEF NativeInv, MainFollows
      <4>6. ModeArrives'
        BY <3>1, <4>1, <4>3 DEF NativeInv, ModeArrives, LatestIsPending, ModeIsPosted, AsksLatest
      <4> QED BY <4>4, <4>5, <4>6 DEF NativeInv
    <3> QED BY <3>1, <3>2, <3>3
  <2> QED
    BY <2>1, <2>2, <2>3, <2>4, <2>5, <2>6, <2>7, <2>8, <2>9, <2>10 DEF NativeNext
<1> QED BY <1>1, NativeBegins, PTL DEF NativeSpec

(* The last call of the queue is of the latest mode, and asks for the      *)
(* height last asked for.                                                  *)
LastCallAsks ==
  \A i \in 1 .. Len(modeQueue) : i = Len(modeQueue) =>
    /\ modeQueue[i].revision = modeCalls
    /\ modeQueue[i].kind = "mode" => askedHeight = BaseHeight
    /\ modeQueue[i].kind = "height" => askedHeight = modeQueue[i].requested

(* A height on the main thread is the one its call asks for.               *)
HeightIsPosted ==
  \A j \in 1 .. Len(mainQueue) :
    mainQueue[j].kind = "height" => mainQueue[j].requested = modeQueue[1].requested

(* Every call has been run or dropped, the last one perhaps not settled.   *)
NothingPosted == \A j \in 1 .. Len(mainQueue) : mainQueue[j].kind = "refresh"
CallsAreDone == NothingPosted /\ \A i \in 1 .. Len(modeQueue) : Len(modeQueue) = 1 /\ modeQueue[i].sent

(* The native side then has the height last asked for.                     *)
HeightIsGiven ==
  CallsAreDone =>
    /\ platform = "macos" /\ currentMode = "connection_detail" => detailHeight = askedHeight
    /\ panel.by = "set" /\ panel.mode = "connection_detail" => panel.requested = askedHeight

(* What sized the window last, and from which mode and height.             *)
SizedBy ==
  /\ platform \in {"macos", "windows"} /\ panel.by \in {"set", "refresh", "failed"}
  /\ panel.by = "set" => \/ panel.mode = currentMode
                         \/ platform = "windows" /\ panel.mode = "connection_detail"
  /\ panel.by = "refresh" => panel.requested = IF platform = "macos" THEN detailHeight ELSE BaseHeight

HeightInv == LastCallAsks /\ HeightIsPosted /\ HeightIsGiven /\ SizedBy

(* A call joins the queue and asks for a height.                           *)
LEMMA HeightJoins ==
  ASSUME NativeInv, HeightInv, NEW call \in QueueCalls, ~call.sent, call.revision = modeCalls',
         modeQueue' = Append(modeQueue, call),
         call.kind = "mode" => askedHeight' = BaseHeight,
         call.kind = "height" => askedHeight' = call.requested,
         UNCHANGED <<platform, mainQueue, currentMode, detailHeight, panel>>
  PROVE  HeightInv'
<1>0. PICK n \in Nat : n = Len(modeQueue)
  BY DEF NativeInv, NativeTypes
<1>1. /\ modeQueue' \in Seq(QueueCalls) /\ Len(modeQueue') = n + 1 /\ modeQueue'[n + 1] = call
      /\ \A i \in 1 .. n : modeQueue'[i] = modeQueue[i]
  BY <1>0, AppendProperties DEF NativeInv, NativeTypes
<1>2. LastCallAsks'
  BY <1>0, <1>1 DEF LastCallAsks
<1>3. HeightIsPosted'
  <2>1. modeQueue # << >> => modeQueue'[1] = modeQueue[1]
    BY <1>0, <1>1 DEF NativeInv, NativeTypes
  <2> QED BY <2>1 DEF HeightInv, HeightIsPosted, NativeInv, MainFollows
<1>4. HeightIsGiven'
  <2>1. n + 1 \in 1 .. Len(modeQueue') /\ ~modeQueue'[n + 1].sent
    BY <1>0, <1>1
  <2> QED BY <2>1 DEF HeightIsGiven, CallsAreDone
<1> QED BY <1>2, <1>3, <1>4 DEF HeightInv, SizedBy

(* The first call leaves the queue; an overtaken one is not the last.      *)
LEMMA HeightLeaves ==
  ASSUME NativeInv, HeightInv, modeQueue # << >>, modeQueue' = Tail(modeQueue),
         modeQueue[1].sent \/ modeQueue[1].revision # modeCalls, NothingPosted,
         UNCHANGED <<platform, modeCalls, askedHeight, mainQueue, currentMode, detailHeight, panel>>
  PROVE  HeightInv'
<1>0. PICK n \in Nat : n = Len(modeQueue)
  BY DEF NativeInv, NativeTypes
<1>1. /\ modeQueue' \in Seq(QueueCalls) /\ Len(modeQueue') = n - 1 /\ n >= 1
      /\ \A i \in 1 .. n - 1 : modeQueue'[i] = modeQueue[i + 1] /\ i + 1 \in 1 .. n
  BY <1>0, HeadTailProperties DEF NativeInv, NativeTypes
<1>2. LastCallAsks'
  <2> SUFFICES ASSUME n - 1 >= 1
               PROVE  /\ modeQueue'[n - 1].revision = modeCalls
                      /\ modeQueue'[n - 1].kind = "mode" => askedHeight = BaseHeight
                      /\ modeQueue'[n - 1].kind = "height" => askedHeight = modeQueue'[n - 1].requested
    BY <1>0, <1>1 DEF LastCallAsks
  <2>1. modeQueue'[n - 1] = modeQueue[n] /\ n \in 1 .. Len(modeQueue)
    BY <1>0, <1>1
  <2> QED BY <1>0, <2>1 DEF HeightInv, LastCallAsks
<1>3. HeightIsPosted'
  BY DEF HeightIsPosted, NothingPosted
<1>4. HeightIsGiven'
  <2>1. CASE n = 1
    <3>1. modeQueue[1].revision = modeCalls
      BY <1>0, <2>1 DEF HeightInv, LastCallAsks
    <3>2. CallsAreDone
      BY <1>0, <2>1, <3>1 DEF CallsAreDone
    <3> QED BY <3>2 DEF HeightInv, HeightIsGiven
  <2>2. CASE n # 1
    <3>1. 1 \in 1 .. n - 1 /\ modeQueue'[1] = modeQueue[2] /\ 2 \in 1 .. n
      BY <1>0, <1>1, <2>2
    <3>2. ~modeQueue'[1].sent
      BY <1>0, <3>1 DEF NativeInv, CallsInOrder
    <3> QED BY <1>1, <3>1, <3>2 DEF HeightIsGiven, CallsAreDone
  <2> QED BY <2>1, <2>2
<1> QED BY <1>2, <1>3, <1>4 DEF HeightInv, SizedBy

(* The first call is sent.                                                 *)
LEMMA HeightIsSent ==
  ASSUME NativeInv, HeightInv, modeQueue # << >>, ~modeQueue[1].sent,
         modeQueue' = [modeQueue EXCEPT ![1].sent = TRUE],
         mainQueue' = Append(mainQueue, modeQueue[1]), NothingPosted,
         UNCHANGED <<platform, modeCalls, askedHeight, currentMode, detailHeight, panel>>
  PROVE  HeightInv'
<1>0. PICK n, m \in Nat : n = Len(modeQueue) /\ m = Len(mainQueue)
  <2>1. Len(modeQueue) \in Nat /\ Len(mainQueue) \in Nat
    BY LenProperties DEF NativeInv, NativeTypes
  <2> QED BY <2>1
<1>1. modeQueue \in Seq(QueueCalls) /\ mainQueue \in Seq(MainCalls) /\ 1 \in 1 .. n
  <2>1. modeQueue \in Seq(QueueCalls) /\ mainQueue \in Seq(MainCalls)
    BY DEF NativeInv, NativeTypes
  <2>2. Len(modeQueue) \in Nat \ {0}
    BY <2>1, EmptySeq
  <2> QED BY <1>0, <2>1, <2>2
<1>2. modeQueue[1] \in QueueCalls /\ modeQueue[1] \in MainCalls
  BY <1>0, <1>1 DEF MainCalls
<1>3. PICK call : call = [modeQueue[1] EXCEPT !.sent = TRUE]
  OBVIOUS
<1>4. /\ call.kind = modeQueue[1].kind /\ call.revision = modeQueue[1].revision
      /\ call.kind = "height" => call.requested = modeQueue[1].requested
  BY <1>2, <1>3 DEF QueueCalls
<1>5. /\ Len(modeQueue') = n
      /\ \A i \in 1 .. n : modeQueue'[i] = IF i = 1 THEN call ELSE modeQueue[i]
  BY <1>0, <1>1, <1>3
<1>6. /\ Len(mainQueue') = m + 1 /\ mainQueue'[m + 1] = modeQueue[1]
      /\ \A j \in 1 .. m : mainQueue'[j] = mainQueue[j]
  BY <1>0, <1>1, <1>2, AppendProperties
<1>7. LastCallAsks'
  <2> SUFFICES ASSUME NEW i \in 1 .. n, i = n
               PROVE  /\ modeQueue'[i].revision = modeCalls
                      /\ modeQueue'[i].kind = "mode" => askedHeight = BaseHeight
                      /\ modeQueue'[i].kind = "height" => askedHeight = modeQueue'[i].requested
    BY <1>5 DEF LastCallAsks
  <2>1. /\ modeQueue[i].revision = modeCalls
        /\ modeQueue[i].kind = "mode" => askedHeight = BaseHeight
        /\ modeQueue[i].kind = "height" => askedHeight = modeQueue[i].requested
    BY <1>0 DEF HeightInv, LastCallAsks
  <2> QED BY <1>4, <1>5, <2>1
<1>8. HeightIsPosted'
  <2>1. \A j \in 1 .. m : mainQueue'[j].kind = "refresh"
    BY <1>0, <1>6 DEF NothingPosted
  <2> QED BY <1>1, <1>4, <1>5, <1>6, <2>1 DEF HeightIsPosted
<1>9. HeightIsGiven'
  <2>1. modeQueue[1].kind # "refresh"
    BY <1>2 DEF QueueCalls
  <2>2. m + 1 \in 1 .. Len(mainQueue')
    BY <1>0, <1>6
  <2> QED BY <1>6, <2>1, <2>2 DEF HeightIsGiven, CallsAreDone, NothingPosted
<1> QED BY <1>7, <1>8, <1>9 DEF HeightInv, SizedBy

(* The closures of the main thread: after the last call's the native side  *)
(* has what it asked for.                                                  *)
LEMMA ClosureGivesHeight ==
  ASSUME NativeInv, HeightInv, RunSetIslandMode \/ RunSetDetailHeight \/ RunRefresh
  PROVE  HeightInv'
<1>0. PICK m \in Nat : m = Len(mainQueue)
  BY DEF NativeInv, NativeTypes
<1>1. /\ mainQueue # << >> /\ mainQueue' = Tail(mainQueue) /\ Head(mainQueue) = mainQueue[1]
      /\ UNCHANGED <<platform, modeQueue, modeCalls, askedHeight>>
  BY DEF RunSetIslandMode, RunSetDetailHeight, RunRefresh, MainThreadRuns, NativeInv, NativeTypes
<1>2. /\ Len(mainQueue') = m - 1 /\ m >= 1 /\ mainQueue[1] \in MainCalls
      /\ \A j \in 1 .. m - 1 : mainQueue'[j] = mainQueue[j + 1] /\ j + 1 \in 1 .. m
  BY <1>0, <1>1, HeadTailProperties DEF NativeInv, NativeTypes
<1>3. LastCallAsks' /\ HeightIsPosted'
  BY <1>0, <1>1, <1>2 DEF HeightInv, LastCallAsks, HeightIsPosted
<1>4. panel = [size |-> panel.size, mode |-> panel.mode, requested |-> panel.requested,
               by |-> panel.by, key |-> panel.key]
  BY DEF NativeInv, NativeTypes
<1>5. panel' = [panel EXCEPT !.by = "failed"] => panel'.by = "failed"
  BY <1>4
<1>6. ASSUME NEW h \in {"mode", "height"}, mainQueue[1].kind = h, CallsAreDone'
      PROVE  /\ modeQueue[1].kind = h /\ modeQueue[1].mode = mainQueue[1].mode
             /\ h = "mode" => askedHeight = BaseHeight
             /\ h = "height" => askedHeight = mainQueue[1].requested
  <2>1. /\ modeQueue # << >> /\ modeQueue[1].kind = h /\ modeQueue[1].mode = mainQueue[1].mode
        /\ h = "height" => mainQueue[1].requested = modeQueue[1].requested
    BY <1>0, <1>2, <1>6 DEF NativeInv, MainFollows, HeightInv, HeightIsPosted
  <2>2. 1 \in 1 .. Len(modeQueue)
    BY <2>1 DEF NativeInv, NativeTypes
  <2>3. Len(modeQueue) = 1
    BY <1>1, <1>6, <2>2 DEF CallsAreDone
  <2> QED BY <2>1, <2>2, <2>3 DEF HeightInv, LastCallAsks
<1>7. CASE RunSetIslandMode
  <2>1. /\ mainQueue[1].kind = "mode" /\ currentMode' = mainQueue[1].mode
        /\ platform = "macos" /\ currentMode' = "connection_detail" => detailHeight' = BaseHeight
        /\ \/ panel' = Panel(TargetSize(mainQueue[1].mode, BaseHeight, screen), mainQueue[1].mode, BaseHeight, "set")
           \/ panel' = [panel EXCEPT !.by = "failed"]
    BY <1>1, <1>7 DEF RunSetIslandMode, MainThreadRuns
  <2>2. \/ panel'.by = "failed"
        \/ panel'.by = "set" /\ panel'.mode = currentMode' /\ panel'.requested = BaseHeight
    BY <1>5, <2>1 DEF Panel
  <2>3. SizedBy'
    BY <1>1, <2>2 DEF HeightInv, SizedBy
  <2>4. HeightIsGiven'
    BY <1>1, <1>6, <2>1, <2>2 DEF HeightIsGiven
  <2> QED BY <1>3, <2>3, <2>4 DEF HeightInv
<1>8. CASE RunSetDetailHeight
  <2>1. mainQueue[1].kind = "height" /\ currentMode' = currentMode
    BY <1>1, <1>8 DEF RunSetDetailHeight, MainThreadRuns
  <2>2. CASE platform = "macos" /\ currentMode # "connection_detail"
    <3>1. UNCHANGED <<detailHeight, panel>>
      BY <1>8, <2>2 DEF RunSetDetailHeight
    <3> QED BY <1>1, <1>3, <2>1, <2>2, <3>1 DEF HeightInv, HeightIsGiven, SizedBy
  <2>3. CASE ~(platform = "macos" /\ currentMode # "connection_detail")
    <3>1. /\ platform = "macos" => detailHeight' = mainQueue[1].requested
          /\ \/ panel' = Panel(TargetSize("connection_detail", mainQueue[1].requested, screen), "connection_detail",
                                mainQueue[1].requested, "set")
             \/ panel' = [panel EXCEPT !.by = "failed"]
      BY <1>1, <1>8, <2>3 DEF RunSetDetailHeight
    <3>2. \/ panel'.by = "failed"
          \/ /\ panel'.by = "set" /\ panel'.mode = "connection_detail"
             /\ panel'.requested = mainQueue[1].requested
      BY <1>5, <3>1 DEF Panel
    <3>3. SizedBy'
      BY <1>1, <2>1, <2>3, <3>2 DEF HeightInv, SizedBy
    <3>4. HeightIsGiven'
      BY <1>1, <1>6, <2>1, <3>1, <3>2 DEF HeightIsGiven
    <3> QED BY <1>3, <3>3, <3>4 DEF HeightInv
  <2> QED BY <2>2, <2>3
<1>9. CASE RunRefresh
  <2>1. /\ mainQueue[1].kind = "refresh" /\ UNCHANGED <<currentMode, detailHeight>>
        /\ \/ panel' = Panel(TargetSize(mainQueue[1].mode, IF platform = "macos" THEN detailHeight ELSE BaseHeight, screen),
                              mainQueue[1].mode, IF platform = "macos" THEN detailHeight ELSE BaseHeight, "refresh")
           \/ panel' = [panel EXCEPT !.by = "failed"]
    BY <1>1, <1>9 DEF RunRefresh, MainThreadRuns
  <2>2. \/ panel'.by = "failed"
        \/ /\ panel'.by = "refresh"
           /\ panel'.requested = IF platform = "macos" THEN detailHeight ELSE BaseHeight
    BY <1>5, <2>1 DEF Panel
  <2>3. SizedBy'
    BY <1>1, <2>1, <2>2 DEF HeightInv, SizedBy
  <2>4. CallsAreDone' => CallsAreDone
    <3> SUFFICES ASSUME CallsAreDone' PROVE CallsAreDone
      OBVIOUS
    <3>1. ASSUME NEW j \in 1 .. m PROVE mainQueue[j].kind = "refresh"
      <4>1. CASE j = 1
        BY <2>1, <4>1
      <4>2. CASE j # 1
        <5>1. PICK h \in 1 .. m - 1 : h + 1 = j
          <6>1. j - 1 \in 1 .. m - 1 /\ (j - 1) + 1 = j
            BY <4>2
          <6> QED BY <6>1
        <5> QED BY <1>2, <5>1 DEF CallsAreDone, NothingPosted
      <4> QED BY <4>1, <4>2
    <3> QED BY <1>0, <1>1, <3>1 DEF CallsAreDone, NothingPosted
  <2>5. HeightIsGiven'
    BY <1>1, <2>1, <2>2, <2>4 DEF HeightInv, HeightIsGiven
  <2> QED BY <1>3, <2>3, <2>5 DEF HeightInv
<1> QED BY <1>7, <1>8, <1>9

(* Only an open connection has a height of its own.                        *)
LEMMA OtherModesHaveNoHeight ==
  ASSUME NEW m, NEW h1, NEW h2, NEW display, m = "connection_detail" => h1 = h2
  PROVE  TargetSize(m, h1, display) = TargetSize(m, h2, display)
BY DEF TargetSize

(* Every step keeps what the heights rest on.                              *)
LEMMA HeightInvariance == NativeSpec => []HeightInv
<1>1. NativeInit => HeightInv
  BY DEF NativeInit, HeightInv, LastCallAsks, HeightIsPosted, HeightIsGiven, SizedBy, Panel
<1>2. NativeInv /\ HeightInv /\ [NativeNext]_nativeVars => HeightInv'
  <2> SUFFICES ASSUME NativeInv, HeightInv, [NativeNext]_nativeVars PROVE HeightInv'
    OBVIOUS
  <2>1. CASE UNCHANGED nativeVars
    BY <2>1 DEF nativeVars, HeightInv, LastCallAsks, HeightIsPosted, HeightIsGiven, CallsAreDone, NothingPosted, SizedBy
  <2>2. CASE SetMode
    <3>1. PICK m \in PanelModes :
            modeQueue' = Append(modeQueue, [kind |-> "mode", mode |-> m, revision |-> modeCalls + 1, sent |-> FALSE])
      BY <2>2 DEF SetMode
    <3>2. PICK call : call = [kind |-> "mode", mode |-> m, revision |-> modeCalls + 1, sent |-> FALSE]
      OBVIOUS
    <3>3. call \in QueueCalls /\ ~call.sent /\ call.revision = modeCalls + 1 /\ call.kind = "mode"
      BY <3>2 DEF NativeInv, NativeTypes, QueueCalls, Modes
    <3>4. /\ modeCalls' = modeCalls + 1 /\ modeQueue' = Append(modeQueue, call) /\ askedHeight' = BaseHeight
          /\ UNCHANGED <<platform, mainQueue, currentMode, detailHeight, panel>>
      BY <2>2, <3>1, <3>2 DEF SetMode
    <3> QED BY <3>3, <3>4, HeightJoins
  <2>3. CASE SetConnectionDetailHeight
    <3>1. PICK requested \in {400, 2000} :
            modeQueue' = Append(modeQueue, Height(requested)) /\ askedHeight' = requested
      BY <2>3 DEF SetConnectionDetailHeight
    <3>2. PICK call : call = Height(requested)
      OBVIOUS
    <3>3. /\ call \in QueueCalls /\ ~call.sent /\ call.revision = modeCalls /\ call.kind = "height"
          /\ call.requested = requested
      BY <3>2 DEF Height, NativeInv, NativeTypes, QueueCalls, Modes
    <3>4. UNCHANGED <<platform, modeCalls, mainQueue, currentMode, detailHeight, panel>>
      BY <2>3 DEF SetConnectionDetailHeight
    <3> QED BY <3>1, <3>2, <3>3, <3>4, HeightJoins
  <2>4. CASE TakeTurn
    <3>1. /\ modeQueue # << >> /\ ~modeQueue[1].sent
          /\ UNCHANGED <<platform, modeCalls, askedHeight, currentMode, detailHeight, panel>>
          /\ \/ modeQueue[1].revision # modeCalls /\ modeQueue' = Tail(modeQueue) /\ UNCHANGED mainQueue
             \/ /\ modeQueue' = [modeQueue EXCEPT ![1].sent = TRUE]
                /\ mainQueue' = Append(mainQueue, modeQueue[1])
      BY <2>4 DEF TakeTurn, NativeInv, NativeTypes
    <3>2. NothingPosted
      BY <3>1 DEF NativeInv, MainFollows, NothingPosted
    <3> QED BY <3>1, <3>2, HeightLeaves, HeightIsSent
  <2>5. CASE Settle
    <3>1. /\ modeQueue # << >> /\ modeQueue[1].sent /\ modeQueue' = Tail(modeQueue) /\ NothingPosted
          /\ UNCHANGED <<platform, modeCalls, askedHeight, mainQueue, currentMode, detailHeight, panel>>
      BY <2>5 DEF Settle, NativeInv, NativeTypes, NothingPosted
    <3> QED BY <3>1, HeightLeaves
  <2>6. CASE ScreenChanges
    BY <2>6 DEF ScreenChanges, HeightInv, LastCallAsks, HeightIsPosted, HeightIsGiven, CallsAreDone,
       NothingPosted, SizedBy
  <2>7. CASE RefreshWakes
    <3>1. /\ UNCHANGED <<platform, modeQueue, modeCalls, askedHeight, currentMode, detailHeight, panel>>
          /\ mainQueue' = mainQueue \/ mainQueue' = Append(mainQueue, [kind |-> "refresh", mode |-> currentMode])
      BY <2>7 DEF RefreshWakes
    <3>2. PICK m \in Nat : m = Len(mainQueue)
      BY DEF NativeInv, NativeTypes
    <3>3. [kind |-> "refresh", mode |-> currentMode] \in MainCalls
      BY DEF NativeInv, NativeTypes, MainCalls
    <3>4. /\ Len(mainQueue') >= m /\ \A j \in 1 .. m : mainQueue'[j] = mainQueue[j]
          /\ \A j \in 1 .. Len(mainQueue') : j \in 1 .. m \/ mainQueue'[j].kind = "refresh"
      <4>1. CASE mainQueue' = mainQueue
        BY <3>2, <4>1
      <4>2. CASE mainQueue' = Append(mainQueue, [kind |-> "refresh", mode |-> currentMode])
        BY <3>2, <3>3, <4>2, AppendProperties DEF NativeInv, NativeTypes
      <4> QED BY <3>1, <4>1, <4>2
    <3>5. CallsAreDone' => CallsAreDone
      <4>1. 1 .. m \subseteq 1 .. Len(mainQueue')
        <5>1. Len(mainQueue') \in Nat
          BY <3>1, <3>2, <3>3, AppendProperties DEF NativeInv, NativeTypes
        <5> QED BY <3>4, <5>1
      <4> QED BY <3>1, <3>2, <3>4, <4>1 DEF CallsAreDone, NothingPosted
    <3> QED BY <3>1, <3>2, <3>4, <3>5 DEF HeightInv, LastCallAsks, HeightIsPosted, HeightIsGiven, SizedBy
  <2> QED
    BY <2>1, <2>2, <2>3, <2>4, <2>5, <2>6, <2>7, ClosureGivesHeight DEF NativeNext
<1> QED BY <1>1, <1>2, NativeInvariance, PTL DEF NativeSpec

(* When nothing is under way any more the native side is in the mode asked *)
(* for last, and the window has the size that mode, the height last asked  *)
(* for in it and the present screen call for, unless the last sizing       *)
(* failed, was a late one for another mode or was a refresh on Windows     *)
(* (tauri-notch-window.ts, setMode; window.rs and macos_panel.rs).         *)
THEOREM TheWindowFollows == NativeSpec => []WindowFollowsLatestMode
<1>1. NativeInv /\ HeightInv => WindowFollowsLatestMode
  <2> SUFFICES ASSUME NativeInv, HeightInv, AtRest, modeCalls > 0
               PROVE  /\ currentMode = latestMode
                      /\ \/ panel.size = TargetSize(currentMode, askedHeight, screen)
                         \/ panel.by = "failed" \/ SizedForAnotherMode \/ ResetByRefresh
    BY DEF WindowFollowsLatestMode
  <2>1. Len(modeQueue) = 0 /\ Len(mainQueue) = 0 /\ sleeping = {}
    BY DEF AtRest
  <2>2. currentMode = latestMode /\ WindowFits
    BY <2>1 DEF NativeInv, ModeArrives, LatestIsPending, RefreshIsDue
  <2>3. CallsAreDone
    BY <2>1 DEF CallsAreDone, NothingPosted
  <2>4. CASE panel.mode # currentMode
    BY <2>2, <2>4 DEF HeightInv, SizedBy, SizedForAnotherMode
  <2>5. CASE panel.mode = currentMode /\ panel.by = "set"
    <3>1. panel.size = TargetSize(currentMode, panel.requested, screen)
      BY <2>2, <2>5 DEF WindowFits
    <3>2. currentMode = "connection_detail" => panel.requested = askedHeight
      BY <2>3, <2>5 DEF HeightInv, HeightIsGiven
    <3> QED BY <2>2, <3>1, <3>2, OtherModesHaveNoHeight
  <2>6. CASE panel.mode = currentMode /\ panel.by = "refresh"
    <3>1. panel.size = TargetSize(currentMode, panel.requested, screen)
      BY <2>2, <2>6 DEF WindowFits
    <3>2. CASE platform = "macos"
      <4>1. currentMode = "connection_detail" => panel.requested = askedHeight
        BY <2>3, <2>6, <3>2 DEF HeightInv, HeightIsGiven, SizedBy
      <4> QED BY <2>2, <3>1, <4>1, OtherModesHaveNoHeight
    <3>3. CASE platform = "windows"
      BY <2>2, <2>6, <3>1, <3>3 DEF HeightInv, SizedBy, ResetByRefresh
    <3> QED BY <3>2, <3>3 DEF HeightInv, SizedBy
  <2> QED BY <2>2, <2>4, <2>5, <2>6 DEF HeightInv, SizedBy
<1> QED BY <1>1, NativeInvariance, HeightInvariance, PTL

-----------------------------------------------------------------------------
(* The panels of the window                                                *)

PanelStates == {"idle", "opening", "connecting"} \cup {"editing", "error", "success", "closing"}
PeerPanels ==
  [open : BOOLEAN, expanded : BOOLEAN, state : PanelStates,
   timer : {"none", "opened", "success", "closed"}, call : {"none", "request", "refresh"},
   dismiss : BOOLEAN, collapse : BOOLEAN, detail : BOOLEAN, inside : BOOLEAN, busy : BOOLEAN]
TaskPanels == [open : BOOLEAN, busy : BOOLEAN, dismiss : BOOLEAN]

(* A connect panel's live timer is the one its state waits for.            *)
TimerOfState(p) ==
  /\ p.timer = "opened" <=> p.state = "opening"
  /\ p.timer = "success" <=> p.state = "success"
  /\ p.timer = "closed" <=> p.state = "closing"

(* A request in flight has its panel open before it; only it puts a        *)
(* dismissal off.                                                          *)
CallHasPanel(p) ==
  /\ p.state = "connecting" <=> p.call # "none"
  /\ p.call # "none" => p.open
  /\ p.dismiss => p.call # "none"

(* An open island that nobody uses collapses.                              *)
UnusedCollapses(p) ==
  p.open /\ p.state = "idle" /\ ~p.busy /\ ~p.inside => p.collapse

PeerIsSound(p) == p \in PeerPanels /\ TimerOfState(p) /\ CallHasPanel(p) /\ UnusedCollapses(p)

TaskIsSound(t) == t \in TaskPanels /\ (t.dismiss => t.busy)

PanelInv == PeerIsSound(peerPanel) /\ TaskIsSound(taskPanel)

(* What opens, closes and touches the island leaves it sound.              *)
LEMMA TouchIsSound == ASSUME NEW p, PeerIsSound(p) PROVE PeerIsSound(Touch(p))
BY DEF PeerIsSound, PeerPanels, PanelStates, TimerOfState, CallHasPanel, UnusedCollapses, Touch

(* Opening the island keeps its panel sound.                               *)
LEMMA OpenedIsSound == ASSUME NEW p, PeerIsSound(p) PROVE PeerIsSound(OpenedPeers(p))
BY DEF PeerIsSound, PeerPanels, PanelStates, TimerOfState, CallHasPanel, UnusedCollapses, Touch,
   OpenedPeers, ResetConnectPanel

(* Closing it does.                                                        *)
LEMMA ClosedIsSound == ASSUME NEW p, PeerIsSound(p) PROVE PeerIsSound(ClosesPeers(p))
BY DEF PeerIsSound, PeerPanels, PanelStates, TimerOfState, CallHasPanel, UnusedCollapses,
   ClosesPeers, ResetConnectPanel

(* Closing a connection's details does.                                    *)
LEMMA DetailsAreSound == ASSUME NEW p, PeerIsSound(p) PROVE PeerIsSound(ClosesDetails(p))
BY DEF PeerIsSound, PeerPanels, PanelStates, TimerOfState, CallHasPanel, UnusedCollapses,
   ClosesDetails, Touch

(* So does the connect panel's own closing, which it begins in a state     *)
(* that has no call.                                                       *)
LEMMA ClosingIsSound ==
  ASSUME NEW p, PeerIsSound(p), p.state \in Closable PROVE PeerIsSound(BeginsPanelClose(p))
BY DEF PeerIsSound, PeerPanels, PanelStates, TimerOfState, CallHasPanel, UnusedCollapses,
   BeginsPanelClose, Closable

(* Closing the Task panel keeps that one sound.                            *)
LEMMA ClosesTaskIsSound == ASSUME NEW t, TaskIsSound(t) PROVE TaskIsSound(ClosesTask(t))
BY DEF TaskIsSound, TaskPanels, ClosesTask

(* The panels begin closed or opened, and sound.                           *)
LEMMA PanelsBegin == PanelsInit => PanelInv
<1>1. PeerIsSound(ClosedPeers)
  BY DEF PeerIsSound, PeerPanels, PanelStates, TimerOfState, CallHasPanel, UnusedCollapses, ClosedPeers
<1>2. TaskIsSound(ClosedTask)
  BY DEF TaskIsSound, TaskPanels, ClosedTask
<1> QED BY <1>1, <1>2, OpenedIsSound DEF PanelsInit, PanelInv

(* A handler of one panel leaves the other as it was.                      *)
LEMMA PeersStep == ASSUME PanelInv, NEW p, NEW m, Peers(p, m), PeerIsSound(p) PROVE PanelInv'
BY DEF PanelInv, Peers

(* A handler of the Task panel leaves the island as it was.                *)
LEMMA TasksStep == ASSUME PanelInv, NEW t, NEW m, Tasks(t, m), TaskIsSound(t) PROVE PanelInv'
BY DEF PanelInv, Tasks

(* A dismissal closes what is free and is put off by what is busy.         *)
LEMMA DismissalIsSound == ASSUME PanelInv, Dismisses PROVE PanelInv'
<1> DEFINE t == IF taskPanel.busy THEN [taskPanel EXCEPT !.dismiss = TRUE] ELSE ClosesTask(taskPanel)
           p == IF peerPanel.state = "connecting" THEN [peerPanel EXCEPT !.dismiss = TRUE]
                ELSE ClosesPeers(peerPanel)
<1>1. TaskIsSound(t)
  BY ClosesTaskIsSound DEF PanelInv, TaskIsSound, TaskPanels
<1>2. PeerIsSound(p)
  <2>1. CASE peerPanel.state = "connecting"
    BY <2>1 DEF PanelInv, PeerIsSound, PeerPanels, TimerOfState, CallHasPanel, UnusedCollapses
  <2> QED BY <2>1, ClosedIsSound DEF PanelInv
<1>3. taskPanel' \in {t, taskPanel} /\ peerPanel' \in {p, peerPanel}
  BY DEF Dismisses
<1> HIDE DEF t, p
<1> QED BY <1>1, <1>2, <1>3 DEF PanelInv

(* The island's handlers.                                                  *)
LEMMA IslandKeepsPanels ==
  ASSUME PanelInv,
         \/ FaceOpensPeers \/ PanelActivity \/ PointerEnters \/ PointerLeaves \/ ActivateEyes
         \/ HandleEscape \/ OpenDetails \/ CloseDetails \/ UpdateInput \/ Connect
         \/ DetailTimerFires \/ CollapseTimerFires \/ MutationBegins \/ MutationEnds
  PROVE  PanelInv'
<1> USE DEF Closable
<1>0. PeerIsSound(peerPanel)
  BY DEF PanelInv
<1>1. CASE FaceOpensPeers
  BY <1>0, <1>1, OpenedIsSound, PeersStep DEF FaceOpensPeers
<1>2. CASE PanelActivity
  BY <1>0, <1>2, TouchIsSound, PeersStep DEF PanelActivity
<1>3. CASE PointerEnters
  <2>1. PeerIsSound([peerPanel EXCEPT !.inside = TRUE, !.collapse = FALSE])
    BY <1>0 DEF PeerIsSound, PeerPanels, TimerOfState, CallHasPanel, UnusedCollapses
  <2> QED BY <1>3, <2>1, PeersStep DEF PointerEnters
<1>4. CASE PointerLeaves
  <2>1. PeerIsSound(Touch([peerPanel EXCEPT !.inside = FALSE]))
    BY <1>0 DEF PeerIsSound, PeerPanels, TimerOfState, CallHasPanel, UnusedCollapses, Touch
  <2> QED BY <1>4, <2>1, PeersStep DEF PointerLeaves
<1>5. CASE ActivateEyes
  <2>1. CASE peerPanel.state = "idle" /\ Peers([peerPanel EXCEPT !.state = "opening", !.timer = "opened"], mode)
    <3>1. PeerIsSound([peerPanel EXCEPT !.state = "opening", !.timer = "opened"])
      BY <1>0, <2>1 DEF PeerIsSound, PeerPanels, PanelStates, TimerOfState, CallHasPanel, UnusedCollapses
    <3> QED BY <2>1, <3>1, PeersStep
  <2>2. CASE peerPanel.state \in Closable /\ Peers(BeginsPanelClose(peerPanel), mode)
    BY <1>0, <2>2, ClosingIsSound, PeersStep
  <2> QED BY <1>5, <2>1, <2>2 DEF ActivateEyes
<1>6. CASE HandleEscape
  <2> DEFINE p == Touch(peerPanel)
  <2>0. PeerIsSound(p)
    BY <1>0, TouchIsSound
  <2>1. \/ Peers(ClosesDetails(p), mode)
        \/ Peers(ClosesPeers(p), "idle")
        \/ p.state \in Closable /\ Peers(BeginsPanelClose(p), mode)
    BY <1>6 DEF HandleEscape
  <2> HIDE DEF p
  <2> QED BY <2>0, <2>1, DetailsAreSound, ClosedIsSound, ClosingIsSound, PeersStep
<1>7. CASE OpenDetails
  <2>1. PeerIsSound(Touch([peerPanel EXCEPT !.expanded = TRUE, !.detail = FALSE]))
    BY <1>0 DEF PeerIsSound, PeerPanels, TimerOfState, CallHasPanel, UnusedCollapses, Touch
  <2> QED BY <1>7, <2>1, PeersStep DEF OpenDetails
<1>8. CASE CloseDetails
  BY <1>0, <1>8, DetailsAreSound, PeersStep DEF CloseDetails
<1>9. CASE UpdateInput
  <2>1. PICK s \in {"editing", "error"} : Peers(Touch([peerPanel EXCEPT !.state = s]), mode)
    BY <1>9 DEF UpdateInput
  <2>2. peerPanel.state \in {"editing", "error"}
    BY <1>9 DEF UpdateInput
  <2>3. PeerIsSound(Touch([peerPanel EXCEPT !.state = s]))
    BY <1>0, <2>2 DEF PeerIsSound, PeerPanels, PanelStates, TimerOfState, CallHasPanel, UnusedCollapses, Touch
  <2> QED BY <2>1, <2>3, PeersStep
<1>10. CASE Connect
  <2>1. peerPanel.state \in {"editing", "error"} /\ peerPanel.open
    BY <1>10 DEF Connect, OnIsland
  <2>2. PeerIsSound([peerPanel EXCEPT !.state = "error"])
    BY <1>0, <2>1 DEF PeerIsSound, PeerPanels, PanelStates, TimerOfState, CallHasPanel, UnusedCollapses
  <2>3. PeerIsSound(Touch([peerPanel EXCEPT !.state = "connecting", !.call = "request"]))
    BY <1>0, <2>1 DEF PeerIsSound, PeerPanels, PanelStates, TimerOfState, CallHasPanel, UnusedCollapses, Touch
  <2> QED BY <1>10, <2>2, <2>3, PeersStep DEF Connect
<1>11. CASE DetailTimerFires
  <2>1. PeerIsSound([peerPanel EXCEPT !.detail = FALSE])
    BY <1>0 DEF PeerIsSound, PeerPanels, TimerOfState, CallHasPanel, UnusedCollapses
  <2> QED BY <1>11, <2>1, PeersStep DEF DetailTimerFires
<1>12. CASE CollapseTimerFires
  <2>1. CASE peerPanel.open /\ ~peerPanel.busy /\ peerPanel.state = "idle" /\ ~peerPanel.inside
    BY <1>0, <1>12, <2>1, ClosedIsSound, PeersStep DEF CollapseTimerFires
  <2>2. CASE ~(peerPanel.open /\ ~peerPanel.busy /\ peerPanel.state = "idle" /\ ~peerPanel.inside)
    <3>1. PeerIsSound([peerPanel EXCEPT !.collapse = FALSE])
      BY <1>0, <2>2 DEF PeerIsSound, PeerPanels, TimerOfState, CallHasPanel, UnusedCollapses
    <3> QED BY <1>12, <2>2, <3>1, PeersStep DEF CollapseTimerFires
  <2> QED BY <2>1, <2>2
<1>13. CASE MutationBegins
  <2>1. PeerIsSound(Touch([peerPanel EXCEPT !.busy = TRUE]))
    BY <1>0 DEF PeerIsSound, PeerPanels, TimerOfState, CallHasPanel, UnusedCollapses, Touch
  <2> QED BY <1>13, <2>1, PeersStep DEF MutationBegins
<1>14. CASE MutationEnds
  <2>1. PeerIsSound(Touch([peerPanel EXCEPT !.busy = FALSE]))
    BY <1>0 DEF PeerIsSound, PeerPanels, TimerOfState, CallHasPanel, UnusedCollapses, Touch
  <2> QED BY <1>14, <2>1, PeersStep DEF MutationEnds
<1> QED
  BY <1>1, <1>2, <1>3, <1>4, <1>5, <1>6, <1>7, <1>8, <1>9, <1>10, <1>11, <1>12, <1>13, <1>14

(* The answer to a connection request, and the timers of the connect panel. *)
LEMMA ConnectKeepsPanels ==
  ASSUME PanelInv, ConnectAnswered \/ PanelTimerFires PROVE PanelInv'
<1>0. PeerIsSound(peerPanel)
  BY DEF PanelInv
<1>1. ASSUME NEW s, NEW timer, (s = "error" /\ timer = "none") \/ (s = "success" /\ timer = "success"),
             peerPanel.call # "none", ConnectEnds([peerPanel EXCEPT !.state = s, !.timer = timer])
      PROVE  PanelInv'
  <2> DEFINE q == [peerPanel EXCEPT !.state = s, !.timer = timer, !.call = "none", !.dismiss = FALSE]
  <2>1. PeerIsSound(q)
    BY <1>0, <1>1 DEF PeerIsSound, PeerPanels, PanelStates, TimerOfState, CallHasPanel, UnusedCollapses
  <2>2. Peers(ClosesPeers(q), "idle") \/ Peers(q, Rendered(mode))
    BY <1>1 DEF ConnectEnds
  <2> HIDE DEF q
  <2> QED BY <2>1, <2>2, ClosedIsSound, PeersStep
<1>2. CASE ConnectAnswered
  <2>1. peerPanel.call # "none" /\ peerPanel.timer = "none"
    BY <1>0, <1>2 DEF ConnectAnswered, PeerIsSound, PeerPanels, TimerOfState, CallHasPanel
  <2>2. [peerPanel EXCEPT !.state = "error"] = [peerPanel EXCEPT !.state = "error", !.timer = "none"]
    BY <1>0, <2>1 DEF PeerIsSound, PeerPanels
  <2>3. CASE Peers([peerPanel EXCEPT !.call = "refresh"], mode)
    <3>1. PeerIsSound([peerPanel EXCEPT !.call = "refresh"])
      BY <1>0, <2>1 DEF PeerIsSound, PeerPanels, TimerOfState, CallHasPanel, UnusedCollapses
    <3> QED BY <2>3, <3>1, PeersStep
  <2>4. CASE ConnectEnds([peerPanel EXCEPT !.state = "error"])
    <3>1. ConnectEnds([peerPanel EXCEPT !.state = "error", !.timer = "none"])
      BY <2>2, <2>4
    <3> QED BY <1>1, <2>1, <3>1
  <2>5. CASE ConnectEnds([peerPanel EXCEPT !.state = "success", !.timer = "success"])
    BY <1>1, <2>1, <2>5
  <2> QED BY <1>2, <2>3, <2>4, <2>5 DEF ConnectAnswered
<1>3. CASE PanelTimerFires
  <2>1. CASE peerPanel.timer = "opened" /\ Peers([peerPanel EXCEPT !.state = "editing", !.timer = "none"], Rendered(mode))
    <3>1. PeerIsSound([peerPanel EXCEPT !.state = "editing", !.timer = "none"])
      BY <1>0, <2>1 DEF PeerIsSound, PeerPanels, PanelStates, TimerOfState, CallHasPanel, UnusedCollapses
    <3> QED BY <2>1, <3>1, PeersStep
  <2>2. CASE peerPanel.timer = "success" /\ Peers(BeginsPanelClose(peerPanel), Rendered(mode))
    BY <1>0, <2>2, ClosingIsSound, PeersStep DEF PeerIsSound, TimerOfState, Closable
  <2>3. CASE peerPanel.timer = "closed" /\ Peers(Touch(ResetConnectPanel(peerPanel)), Rendered(mode))
    <3>1. PeerIsSound(Touch(ResetConnectPanel(peerPanel)))
      BY <1>0, <2>3 DEF PeerIsSound, PeerPanels, PanelStates, TimerOfState, CallHasPanel,
         UnusedCollapses, ResetConnectPanel, Touch
    <3> QED BY <2>3, <3>1, PeersStep
  <2> QED BY <1>3, <2>1, <2>2, <2>3 DEF PanelTimerFires
<1> QED BY <1>2, <1>3

(* The Passport's connections, the task workspace, focus and the dock.     *)
LEMMA WindowKeepsPanels ==
  ASSUME PanelInv,
         \/ SyncPassportConnections \/ FaceOpensTask \/ IslandOpensTask \/ TaskNavigates
         \/ TaskBackToIsland \/ TaskRunBegins \/ TaskRunEnds \/ FocusGained \/ FocusLost
         \/ DockActivates \/ DockSettles \/ DockReasserts \/ GuardsPass \/ BrandOpens \/ ReleaseChanges
  PROVE  PanelInv'
<1>0. PeerIsSound(peerPanel) /\ TaskIsSound(taskPanel)
  BY DEF PanelInv
<1>1. CASE SyncPassportConnections
  <2>1. PICK c \in Cards : peerPanel' \in {peerPanel, ClosesDetails(peerPanel), OpenedPeers(peerPanel),
                                           OpenedPeers(ClosesDetails(peerPanel))}
                           /\ UNCHANGED taskPanel
    BY <1>1 DEF SyncPassportConnections
  <2> QED BY <1>0, <2>1, DetailsAreSound, OpenedIsSound DEF PanelInv
<1>2. CASE FaceOpensTask
  <2>1. TaskIsSound([taskPanel EXCEPT !.open = TRUE])
    BY <1>0 DEF TaskIsSound, TaskPanels
  <2> QED BY <1>2, <2>1, TasksStep DEF FaceOpensTask
<1>3. CASE IslandOpensTask
  <2>1. TaskIsSound([taskPanel EXCEPT !.open = TRUE])
    BY <1>0 DEF TaskIsSound, TaskPanels
  <2> QED BY <1>0, <1>3, <2>1, ClosedIsSound DEF IslandOpensTask, PanelInv
<1>4. CASE TaskNavigates
  BY <1>0, <1>4, TasksStep DEF TaskNavigates
<1>5. CASE TaskBackToIsland
  BY <1>0, <1>5, ClosesTaskIsSound, OpenedIsSound DEF TaskBackToIsland, PanelInv
<1>6. CASE TaskRunBegins
  <2>1. TaskIsSound([taskPanel EXCEPT !.busy = TRUE])
    BY <1>0 DEF TaskIsSound, TaskPanels
  <2> QED BY <1>6, <2>1, TasksStep DEF TaskRunBegins
<1>7. CASE TaskRunEnds
  <2> DEFINE t == [taskPanel EXCEPT !.busy = FALSE]
  <2>1. TaskIsSound(ClosesTask(t)) /\ TaskIsSound([t EXCEPT !.dismiss = FALSE])
    BY <1>0 DEF TaskIsSound, TaskPanels, ClosesTask
  <2>2. Tasks(ClosesTask(t), "idle") \/ Tasks([t EXCEPT !.dismiss = FALSE], Rendered(mode))
    BY <1>7 DEF TaskRunEnds
  <2> QED BY <2>1, <2>2, TasksStep
<1>8. CASE FocusGained
  <2>1. TaskIsSound([taskPanel EXCEPT !.dismiss = FALSE])
    BY <1>0 DEF TaskIsSound, TaskPanels
  <2>2. PeerIsSound([peerPanel EXCEPT !.dismiss = FALSE])
    BY <1>0 DEF PeerIsSound, PeerPanels, TimerOfState, CallHasPanel, UnusedCollapses
  <2> QED BY <1>8, <2>1, <2>2 DEF FocusGained, PanelInv
<1>9. CASE FocusLost
  BY <1>9, DismissalIsSound DEF FocusLost, PanelInv
<1>10. CASE DockActivates
  <2>1. taskPanel' \in {taskPanel, ClosesTask(taskPanel)} /\ peerPanel' \in {peerPanel, OpenedPeers(peerPanel)}
    BY <1>10 DEF DockActivates
  <2> QED BY <1>0, <2>1, ClosesTaskIsSound, OpenedIsSound DEF PanelInv
<1>11. CASE DockReasserts
  BY <1>11, DismissalIsSound DEF DockReasserts, PanelInv
<1>12. CASE DockSettles \/ GuardsPass \/ BrandOpens \/ ReleaseChanges
  BY <1>12 DEF DockSettles, GuardsPass, BrandOpens, ReleaseChanges, PanelInv
<1> QED BY <1>1, <1>2, <1>3, <1>4, <1>5, <1>6, <1>7, <1>8, <1>9, <1>10, <1>11, <1>12

(* Every handler and every timer keeps the panels sound.                   *)
LEMMA PanelInvariance == PanelsSpec => []PanelInv
<1>1. PanelInv /\ [PanelsNext]_panelVars => PanelInv'
  <2> SUFFICES ASSUME PanelInv, [PanelsNext]_panelVars PROVE PanelInv'
    OBVIOUS
  <2>1. CASE PanelsNext
    BY <2>1, IslandKeepsPanels, ConnectKeepsPanels, WindowKeepsPanels DEF PanelsNext
  <2>2. CASE UNCHANGED panelVars
    BY <2>2 DEF panelVars, PanelInv
  <2> QED BY <2>1, <2>2
<1> QED BY <1>1, PanelsBegin, PTL DEF PanelsSpec

(* However answers, timers, focus changes and the dock cross, no panel of  *)
(* the window waits for a timer or an answer that will not come            *)
(* (connections/controller.ts, app.ts dismissPanelsFromOutside).           *)
THEOREM PanelsAreNeverStuck == PanelsSpec => []PanelIsNeverStuck
<1>1. PanelInv => PanelIsNeverStuck
  BY DEF PanelInv, PeerIsSound, PeerPanels, PanelStates, TimerOfState, CallHasPanel, UnusedCollapses,
     TaskIsSound, PanelIsNeverStuck
<1> QED BY <1>1, PanelInvariance, PTL

-----------------------------------------------------------------------------
(* The memory of Child Agents                                              *)

MemRecords == [n : Nat, scope : Scopes]

ChainOps ==
  [kind : {"list", "export"}, by : {"ui", "nobody"}]
    \union [kind : {"authorize"}, by : {"ui", "nobody"}, scope : Scopes, on : BOOLEAN]
    \union [kind : {"save"}, by : {"ui", "nobody"}, scope : Scopes]
    \union [kind : {"delete"}, by : {"ui", "nobody"}, record : MemRecords]
    \union [kind : {"select"}, by : {"nobody"}]

(* A chain of operations: it deletes only records made so far, asks back   *)
(* no revoked scope, and at most one caller waits, with nothing but the    *)
(* kernel's selections behind its operation.                               *)
Chain(q, waiting, saves, gone) ==
  /\ q \in Seq(ChainOps)
  /\ \A i \in 1..Len(q) : q[i].kind = "delete" => q[i].record.n <= saves
  /\ \A i \in 1..Len(q) : q[i].kind = "authorize" /\ q[i].on => q[i].scope \notin gone
  /\ \A i \in 1..Len(q) : q[i].by = "ui" => waiting /\ \A j \in (i + 1)..Len(q) : q[j].kind = "select"

ChildTypes ==
  /\ memoryFile \in [records : SUBSET MemRecords, authorizations : SUBSET Scopes]
  /\ loadedState \in [records : SUBSET MemRecords, authorizations : SUBSET Scopes, read : BOOLEAN]
  /\ memoryUi = [busy |-> memoryUi.busy, shown |-> memoryUi.shown]
  /\ memoryUi.shown \subseteq MemRecords /\ removed \subseteq MemRecords /\ memorySaves \in Nat

(* What is read is what the file holds, less the records that have lapsed: *)
(* no other operation saves before the one that has read it.               *)
ReadIsCurrent ==
  loadedState.read => /\ operation # << >>
                      /\ loadedState.records \subseteq memoryFile.records
                      /\ loadedState.authorizations = memoryFile.authorizations

(* Every record that is stored, shown or deleted has been made, so the     *)
(* next one is none of them.                                               *)
RecordsAreMade ==
  \A r \in memoryFile.records \union memoryUi.shown \union removed : r.n <= memorySaves

ChildInv ==
  /\ ChildTypes /\ ReadIsCurrent /\ RecordsAreMade
  /\ Chain(operation, memoryUi.busy # "no", memorySaves, revoked)
  /\ removed \intersect memoryFile.records = {}
  /\ revoked \intersect memoryFile.authorizations = {}

(* A caller that does not wait yet asks for an operation.                  *)
LEMMA ChainAppends ==
  ASSUME NEW q, NEW saves, NEW gone, NEW op \in ChainOps, Chain(q, FALSE, saves, gone),
         op.kind = "delete" => op.record.n <= saves,
         op.kind = "authorize" /\ op.on => op.scope \notin gone
  PROVE  Chain(Append(q, op), TRUE, saves, gone)
<1>1. /\ q \in Seq(ChainOps) /\ \A i \in 1..Len(q) : q[i].by # "ui"
      /\ \A i \in 1..Len(q) : q[i].kind = "delete" => q[i].record.n <= saves
      /\ \A i \in 1..Len(q) : q[i].kind = "authorize" /\ q[i].on => q[i].scope \notin gone
  BY DEF Chain
<1> HIDE DEF ChainOps
<1> DEFINE a == Append(q, op)
<1>2. /\ a \in Seq(ChainOps) /\ Len(a) = Len(q) + 1 /\ a[Len(q) + 1] = op /\ Len(q) \in Nat
      /\ \A i \in 1..Len(q) : a[i] = q[i]
  BY <1>1, AppendProperties, LenProperties
<1> HIDE DEF a
<1>3. \A i \in 1..Len(a) : i \in 1..Len(q) \/ i = Len(a)
  BY <1>2
<1>4. \A i \in 1..Len(a) : a[i].kind = "delete" => a[i].record.n <= saves
  BY <1>1, <1>2, <1>3
<1>5. \A i \in 1..Len(a) : a[i].kind = "authorize" /\ a[i].on => a[i].scope \notin gone
  BY <1>1, <1>2, <1>3
<1>6. \A i \in 1..Len(a) : a[i].by = "ui" => i = Len(a)
  BY <1>1, <1>2, <1>3
<1>7. \A i \in 1..Len(a) : a[i].by = "ui" => \A j \in (i + 1)..Len(a) : a[j].kind = "select"
  BY <1>2, <1>6
<1> QED BY <1>2, <1>4, <1>5, <1>7 DEF Chain, a

(* A selection of the kernel may come behind any operation.                *)
LEMMA ChainSelects ==
  ASSUME NEW q, NEW waiting, NEW saves, NEW gone, Chain(q, waiting, saves, gone)
  PROVE  Chain(Append(q, [kind |-> "select", by |-> "nobody"]), waiting, saves, gone)
<1> DEFINE op == [kind |-> "select", by |-> "nobody"]
           a  == Append(q, op)
<1>1. op \in ChainOps /\ op.kind = "select" /\ op.by = "nobody"
  BY DEF ChainOps
<1>2. /\ q \in Seq(ChainOps)
      /\ \A i \in 1..Len(q) : q[i].kind = "delete" => q[i].record.n <= saves
      /\ \A i \in 1..Len(q) : q[i].kind = "authorize" /\ q[i].on => q[i].scope \notin gone
      /\ \A i \in 1..Len(q) : q[i].by = "ui" => waiting /\ \A j \in (i + 1)..Len(q) : q[j].kind = "select"
  BY DEF Chain
<1> HIDE DEF op, ChainOps
<1>3. /\ a \in Seq(ChainOps) /\ Len(a) = Len(q) + 1 /\ a[Len(q) + 1] = op /\ Len(q) \in Nat
      /\ \A i \in 1..Len(q) : a[i] = q[i]
  BY <1>1, <1>2, AppendProperties, LenProperties
<1> HIDE DEF a
<1>4. \A i \in 1..Len(a) : i \in 1..Len(q) \/ i = Len(a)
  BY <1>3
<1>5. \A i \in 1..Len(a) : a[i].kind = "delete" => a[i].record.n <= saves
  BY <1>1, <1>2, <1>3, <1>4
<1>6. \A i \in 1..Len(a) : a[i].kind = "authorize" /\ a[i].on => a[i].scope \notin gone
  BY <1>1, <1>2, <1>3, <1>4
<1>7. \A i \in 1..Len(a) : a[i].by = "ui" => waiting /\ \A j \in (i + 1)..Len(a) : a[j].kind = "select"
  <2> SUFFICES ASSUME NEW i \in 1..Len(a), a[i].by = "ui"
               PROVE  waiting /\ \A j \in (i + 1)..Len(a) : a[j].kind = "select"
    OBVIOUS
  <2>1. i \in 1..Len(q) /\ q[i].by = "ui"
    BY <1>1, <1>3, <1>4
  <2>2. \A j \in (i + 1)..Len(a) : j \in (i + 1)..Len(q) \/ j = Len(a)
    BY <1>3
  <2>3. \A j \in (i + 1)..Len(q) : a[j] = q[j] /\ q[j].kind = "select"
    BY <1>2, <1>3, <2>1
  <2> QED BY <1>1, <1>2, <1>3, <2>1, <2>2, <2>3
<1> QED BY <1>3, <1>5, <1>6, <1>7 DEF Chain, a, op

(* An operation whose caller has given up is still the same operation.     *)
LEMMA OperationIsForgotten ==
  ASSUME NEW op \in ChainOps
  PROVE  LET new == [op EXCEPT !.by = "nobody"]
         IN  /\ new \in ChainOps /\ new.kind = op.kind /\ new.by = "nobody"
             /\ op.kind = "delete" => new.record = op.record
             /\ op.kind = "authorize" => new.on = op.on /\ new.scope = op.scope
<1>1. CASE op \in [kind : {"list", "export"}, by : {"ui", "nobody"}]
  BY <1>1 DEF ChainOps
<1>2. CASE op \in [kind : {"authorize"}, by : {"ui", "nobody"}, scope : Scopes, on : BOOLEAN]
  BY <1>2 DEF ChainOps
<1>3. CASE op \in [kind : {"save"}, by : {"ui", "nobody"}, scope : Scopes]
  BY <1>3 DEF ChainOps
<1>4. CASE op \in [kind : {"delete"}, by : {"ui", "nobody"}, record : MemRecords]
  BY <1>4 DEF ChainOps
<1>5. CASE op \in [kind : {"select"}, by : {"nobody"}]
  BY <1>5 DEF ChainOps
<1> QED BY <1>1, <1>2, <1>3, <1>4, <1>5 DEF ChainOps

(* The bridge gives up on an answer: nobody waits for the chain any more.  *)
LEMMA ChainForgets ==
  ASSUME NEW q, NEW waiting, NEW saves, NEW gone, Chain(q, waiting, saves, gone)
  PROVE  Chain([i \in DOMAIN q |-> [q[i] EXCEPT !.by = "nobody"]], FALSE, saves, gone)
<1> DEFINE a == [i \in DOMAIN q |-> [q[i] EXCEPT !.by = "nobody"]]
<1>1. q \in Seq(ChainOps) /\ Len(q) \in Nat /\ DOMAIN q = 1..Len(q)
  BY LenProperties DEF Chain
<1>2. \A i \in 1..Len(q) :
        /\ a[i] \in ChainOps /\ a[i].kind = q[i].kind /\ a[i].by = "nobody"
        /\ q[i].kind = "delete" => a[i].record = q[i].record
        /\ q[i].kind = "authorize" => a[i].on = q[i].on /\ a[i].scope = q[i].scope
  <2> SUFFICES ASSUME NEW i \in 1..Len(q)
               PROVE  /\ a[i] \in ChainOps /\ a[i].kind = q[i].kind /\ a[i].by = "nobody"
                      /\ q[i].kind = "delete" => a[i].record = q[i].record
                      /\ q[i].kind = "authorize" => a[i].on = q[i].on /\ a[i].scope = q[i].scope
    OBVIOUS
  <2>1. q[i] \in ChainOps /\ a[i] = [q[i] EXCEPT !.by = "nobody"]
    BY <1>1, ElementOfSeq
  <2> HIDE DEF a
  <2> QED BY <2>1, OperationIsForgotten
<1>3. a \in [1..Len(q) -> ChainOps]
  BY <1>1, <1>2
<1>4. a \in Seq(ChainOps) /\ Len(a) = Len(q)
  <2> HIDE DEF a, ChainOps
  <2>1. a \in Seq(ChainOps)
    BY <1>1, <1>3, IsASeq
  <2> QED BY <1>1, <1>3, <2>1, LenProperties
<1> HIDE DEF a, ChainOps
<1> QED BY <1>2, <1>4 DEF Chain, a

(* The operation at the head is through: if its caller waits, nothing but  *)
(* selections is left, and nobody waits for those.                         *)
LEMMA ChainMoves ==
  ASSUME NEW q, NEW waiting, NEW saves, NEW gone, Chain(q, waiting, saves, gone), q # << >>
  PROVE  /\ Head(q) \in ChainOps
         /\ Head(q).kind = "delete" => Head(q).record.n <= saves
         /\ Head(q).kind = "authorize" /\ Head(q).on => Head(q).scope \notin gone
         /\ Chain(Tail(q), waiting, saves, gone)
         /\ Head(q).by = "ui" => waiting /\ \A left : Chain(Tail(q), FALSE, saves, left)
<1>1. /\ q \in Seq(ChainOps)
      /\ \A i \in 1..Len(q) : q[i].kind = "delete" => q[i].record.n <= saves
      /\ \A i \in 1..Len(q) : q[i].kind = "authorize" /\ q[i].on => q[i].scope \notin gone
      /\ \A i \in 1..Len(q) : q[i].by = "ui" => waiting /\ \A j \in (i + 1)..Len(q) : q[j].kind = "select"
  BY DEF Chain
<1> DEFINE t == Tail(q)
<1>2. /\ Len(q) \in Nat \ {0} /\ Head(q) = q[1] /\ t \in Seq(ChainOps) /\ Len(t) = Len(q) - 1
      /\ \A i \in 1..Len(t) : t[i] = q[i + 1]
  <2> HIDE DEF ChainOps
  <2>1. Head(q) = q[1] /\ t \in Seq(ChainOps) /\ Len(t) = Len(q) - 1
    BY <1>1, HeadTailProperties
  <2>2. Len(q) \in Nat \ {0}
    BY <1>1, LenProperties, EmptySeq
  <2> QED BY <1>1, <2>1, <2>2, HeadTailProperties
<1>3. q[1] \in ChainOps /\ \A i \in 1..Len(q) : q[i] \in ChainOps
  BY <1>1, <1>2, ElementOfSeq
<1>4. /\ \A i \in 1..Len(t) : i + 1 \in 1..Len(q)
      /\ \A i \in 1..Len(t) : \A j \in (i + 1)..Len(t) : j \in 1..Len(t) /\ j + 1 \in ((i + 1) + 1)..Len(q)
  BY <1>2
<1> HIDE DEF t
<1>5. /\ \A i \in 1..Len(t) : t[i].kind = "delete" => t[i].record.n <= saves
      /\ \A i \in 1..Len(t) : t[i].kind = "authorize" /\ t[i].on => t[i].scope \notin gone
  <2> HIDE DEF ChainOps
  <2> QED BY <1>1, <1>2, <1>4
<1>6. \A i \in 1..Len(t) : t[i].by = "ui" => waiting /\ \A j \in (i + 1)..Len(t) : t[j].kind = "select"
  <2> SUFFICES ASSUME NEW i \in 1..Len(t), t[i].by = "ui"
               PROVE  waiting /\ \A j \in (i + 1)..Len(t) : t[j].kind = "select"
    OBVIOUS
  <2> HIDE DEF ChainOps
  <2>1. waiting /\ \A j \in ((i + 1) + 1)..Len(q) : q[j].kind = "select"
    BY <1>1, <1>2, <1>4
  <2>2. \A j \in (i + 1)..Len(t) : t[j] = q[j + 1] /\ j + 1 \in ((i + 1) + 1)..Len(q)
    BY <1>2, <1>4
  <2> QED BY <2>1, <2>2
<1>7. ASSUME q[1].by = "ui" PROVE waiting /\ \A i \in 1..Len(t) : t[i].kind = "select" /\ t[i].by # "ui"
  <2>1. waiting /\ \A j \in 2..Len(q) : q[j].kind = "select"
    BY <1>1, <1>2, <1>7
  <2>2. \A o \in ChainOps : o.kind = "select" => o.by # "ui"
    BY DEF ChainOps
  <2> HIDE DEF ChainOps
  <2> QED BY <1>2, <1>3, <2>1, <2>2
<1> HIDE DEF ChainOps
<1>8. q[1].by = "ui" => waiting /\ \A left : Chain(t, FALSE, saves, left)
  BY <1>2, <1>5, <1>7 DEF Chain
<1>9. Chain(t, waiting, saves, gone)
  BY <1>2, <1>5, <1>6 DEF Chain
<1>10. /\ q[1].kind = "delete" => q[1].record.n <= saves
       /\ q[1].kind = "authorize" /\ q[1].on => q[1].scope \notin gone
  BY <1>1, <1>2
<1> QED BY <1>2, <1>3, <1>8, <1>9, <1>10 DEF t

(* A record more is made: what the chain deletes has been made before.     *)
LEMMA ChainOutlives ==
  ASSUME NEW q, NEW waiting, NEW saves \in Nat, NEW gone, Chain(q, waiting, saves, gone)
  PROVE  Chain(q, waiting, saves + 1, gone)
<1>1. q \in Seq(ChainOps) /\ \A o \in ChainOps : o.kind = "delete" => o.record.n \in Nat
  BY DEF Chain, ChainOps, MemRecords
<1>2. \A i \in 1..Len(q) : q[i] \in ChainOps
  BY <1>1, ElementOfSeq
<1>3. \A i \in 1..Len(q) : q[i].kind = "delete" => q[i].record.n <= saves + 1
  <2> HIDE DEF ChainOps
  <2> QED BY <1>1, <1>2 DEF Chain
<1> QED BY <1>3 DEF Chain

(* Deleted records have a number.                                          *)
LEMMA DeletesAreOfRecords ==
  ASSUME NEW op \in ChainOps
  PROVE  /\ op.by \in {"ui", "nobody"}
         /\ op.kind = "delete" => op.record \in MemRecords /\ op.record.n \in Nat
         /\ op.kind \in {"authorize", "save"} => op.scope \in Scopes
         /\ op.kind = "authorize" => op.on \in BOOLEAN
         /\ op.kind \in {"list", "export", "authorize", "save", "delete", "select"}
BY DEF ChainOps, MemRecords

(* The file is empty at first.                                             *)
LEMMA ChildMemoryBegins == ChildMemoryInit => ChildInv
<1> SUFFICES ASSUME ChildMemoryInit PROVE ChildInv
  OBVIOUS
<1>1. /\ memoryFile = [records |-> {}, authorizations |-> {}] /\ operation = << >>
      /\ loadedState = [records |-> {}, authorizations |-> Scopes, read |-> FALSE]
      /\ memoryUi = [busy |-> "no", shown |-> {}] /\ memorySaves = 0 /\ removed = {} /\ revoked = {}
  BY DEF ChildMemoryInit, NotLoaded
<1>2. Chain(operation, memoryUi.busy # "no", memorySaves, revoked)
  <2>1. operation \in Seq(ChainOps) /\ Len(operation) = 0
    BY <1>1, EmptySeq
  <2> QED BY <2>1 DEF Chain
<1>3. ChildTypes
  BY <1>1 DEF ChildTypes
<1> QED BY <1>1, <1>2, <1>3 DEF ChildInv, ReadIsCurrent, RecordsAreMade

(* A call of the memory tab: an operation more, and one that waits.        *)
LEMMA UiAsksKeeps ==
  ASSUME ChildInv, NEW op \in ChainOps, UiAsks(op), op.kind # "no", revoked' \subseteq revoked,
         op.kind = "delete" => op.record.n <= memorySaves,
         op.kind = "authorize" /\ op.on => op.scope \notin revoked'
  PROVE  ChildInv'
<1>1. /\ memoryUi.busy = "no" /\ memoryUi' = [memoryUi EXCEPT !.busy = op.kind]
      /\ operation' = Append(operation, op)
      /\ UNCHANGED <<memoryFile, loadedState, memorySaves, removed>>
  BY DEF UiAsks, Asks
<1>2. memoryUi'.busy # "no" /\ memoryUi'.shown = memoryUi.shown
      /\ memoryUi' = [busy |-> memoryUi'.busy, shown |-> memoryUi'.shown]
  BY <1>1 DEF ChildInv, ChildTypes
<1>3. Chain(operation, FALSE, memorySaves, revoked) /\ memorySaves \in Nat /\ operation \in Seq(ChainOps)
  <2>1. Chain(operation, memoryUi.busy # "no", memorySaves, revoked)
    BY DEF ChildInv
  <2> QED BY <1>1, <2>1 DEF ChildInv, ChildTypes, Chain
<1>4. Chain(operation, FALSE, memorySaves, revoked')
  BY <1>3 DEF Chain
<1>5. Chain(operation', TRUE, memorySaves, revoked')
  BY <1>1, <1>4, ChainAppends
<1>6. Chain(operation', memoryUi'.busy # "no", memorySaves', revoked')
  BY <1>1, <1>2, <1>5
<1>7. operation # << >> => operation' # << >>
  BY <1>1, <1>3, AppendProperties
<1>8. ChildTypes'
  BY <1>1, <1>2 DEF ChildInv, ChildTypes
<1>9. ReadIsCurrent' /\ RecordsAreMade'
  BY <1>1, <1>2, <1>7 DEF ChildInv, ReadIsCurrent, RecordsAreMade
<1>10. removed' \intersect memoryFile'.records = {} /\ revoked' \intersect memoryFile'.authorizations = {}
  BY <1>1 DEF ChildInv
<1> QED BY <1>6, <1>8, <1>9, <1>10 DEF ChildInv

(* The calls of the memory tab; a scope that is asked for again is no      *)
(* longer taken for revoked.                                               *)
LEMMA UiCallsKeep ==
  ChildInv /\ (UiReads \/ UiAuthorizes \/ UiSaves \/ UiDeletes \/ UiExports) => ChildInv'
<1> SUFFICES ASSUME ChildInv, UiReads \/ UiAuthorizes \/ UiSaves \/ UiDeletes \/ UiExports PROVE ChildInv'
  OBVIOUS
<1>1. CASE UiReads \/ UiExports
  <2>1. PICK k \in {"list", "export"} : UiAsks([kind |-> k, by |-> "ui"]) /\ revoked' = revoked
    BY <1>1 DEF UiReads, UiExports
  <2>2. [kind |-> k, by |-> "ui"] \in ChainOps
    BY DEF ChainOps
  <2> QED BY <2>1, <2>2, UiAsksKeeps
<1>2. CASE UiAuthorizes
  <2>1. PICK s \in Scopes, on \in BOOLEAN :
           /\ UiAsks([kind |-> "authorize", by |-> "ui", scope |-> s, on |-> on])
           /\ revoked' = IF on THEN revoked \ {s} ELSE revoked
    BY <1>2 DEF UiAuthorizes
  <2>2. [kind |-> "authorize", by |-> "ui", scope |-> s, on |-> on] \in ChainOps
    BY DEF ChainOps
  <2>3. revoked' \subseteq revoked /\ (on => s \notin revoked')
    BY <2>1
  <2> QED BY <2>1, <2>2, <2>3, UiAsksKeeps
<1>3. CASE UiSaves
  <2>1. PICK s \in Scopes : UiAsks([kind |-> "save", by |-> "ui", scope |-> s]) /\ revoked' = revoked
    BY <1>3 DEF UiSaves
  <2>2. [kind |-> "save", by |-> "ui", scope |-> s] \in ChainOps
    BY DEF ChainOps
  <2> QED BY <2>1, <2>2, UiAsksKeeps
<1>4. CASE UiDeletes
  <2>1. PICK r \in memoryUi.shown : UiAsks([kind |-> "delete", by |-> "ui", record |-> r]) /\ revoked' = revoked
    BY <1>4 DEF UiDeletes
  <2>2. [kind |-> "delete", by |-> "ui", record |-> r] \in ChainOps
    BY DEF ChainOps, ChildInv, ChildTypes
  <2>3. r.n <= memorySaves
    BY DEF ChildInv, RecordsAreMade
  <2> QED BY <2>1, <2>2, <2>3, UiAsksKeeps
<1> QED BY <1>1, <1>2, <1>3, <1>4

(* What ends the wait, what the kernel asks for, what is read and what     *)
(* lapses.                                                                 *)
LEMMA QuietStepsKeep ==
  ChildInv /\ (UiTimesOut \/ KernelSelects \/ OperationLoads \/ RecordLapses) => ChildInv'
<1> SUFFICES ASSUME ChildInv, UiTimesOut \/ KernelSelects \/ OperationLoads \/ RecordLapses PROVE ChildInv'
  OBVIOUS
<1>0. /\ Chain(operation, memoryUi.busy # "no", memorySaves, revoked) /\ operation \in Seq(ChainOps)
      /\ Len(operation) \in Nat /\ DOMAIN operation = 1..Len(operation)
  BY LenProperties DEF ChildInv, Chain
<1>1. CASE UiTimesOut
  <2>1. /\ memoryUi' = [memoryUi EXCEPT !.busy = "no"]
        /\ operation' = [i \in DOMAIN operation |-> [operation[i] EXCEPT !.by = "nobody"]]
        /\ UNCHANGED <<memoryFile, loadedState, memorySaves, removed, revoked>>
    BY <1>1 DEF UiTimesOut
  <2>2. memoryUi'.busy = "no" /\ memoryUi'.shown = memoryUi.shown
        /\ memoryUi' = [busy |-> memoryUi'.busy, shown |-> memoryUi'.shown]
    BY <2>1 DEF ChildInv, ChildTypes
  <2>3. Chain(operation', FALSE, memorySaves, revoked)
    BY <1>0, <2>1, ChainForgets
  <2>4. Chain(operation', memoryUi'.busy # "no", memorySaves', revoked')
    BY <2>1, <2>2, <2>3
  <2>5. operation # << >> => operation' # << >>
    BY <1>0, <2>1
  <2>6. ChildTypes'
    BY <2>1, <2>2 DEF ChildInv, ChildTypes
  <2>7. ReadIsCurrent' /\ RecordsAreMade'
    BY <2>1, <2>2, <2>5 DEF ChildInv, ReadIsCurrent, RecordsAreMade
  <2> QED BY <2>1, <2>4, <2>6, <2>7 DEF ChildInv
<1>2. CASE KernelSelects
  <2>1. /\ operation' = Append(operation, [kind |-> "select", by |-> "nobody"])
        /\ UNCHANGED <<memoryFile, memoryUi, loadedState, memorySaves, removed, revoked>>
    BY <1>2 DEF KernelSelects, Asks
  <2>2. Chain(operation', memoryUi'.busy # "no", memorySaves', revoked')
    BY <1>0, <2>1, ChainSelects
  <2>3. operation' # << >>
    <3>1. [kind |-> "select", by |-> "nobody"] \in ChainOps
      BY DEF ChainOps
    <3> QED BY <1>0, <2>1, <3>1, AppendProperties
  <2>4. ChildTypes'
    BY <2>1 DEF ChildInv, ChildTypes
  <2>5. ReadIsCurrent' /\ RecordsAreMade'
    BY <2>1, <2>3 DEF ChildInv, ReadIsCurrent, RecordsAreMade
  <2> QED BY <2>1, <2>2, <2>4, <2>5 DEF ChildInv
<1>3. CASE OperationLoads
  <2>1. /\ operation # << >> /\ loadedState' = Loads(memoryFile)
        /\ UNCHANGED <<memoryFile, operation, memoryUi, memorySaves, removed, revoked>>
    BY <1>3 DEF OperationLoads
  <2>2. /\ loadedState' \in [records : SUBSET MemRecords, authorizations : SUBSET Scopes, read : BOOLEAN]
        /\ loadedState'.records \subseteq memoryFile.records
        /\ loadedState'.authorizations = memoryFile.authorizations
    BY <2>1 DEF Loads, ChildInv, ChildTypes
  <2>3. ChildTypes'
    BY <2>1, <2>2 DEF ChildInv, ChildTypes
  <2>4. ReadIsCurrent' /\ RecordsAreMade'
    BY <2>1, <2>2 DEF ChildInv, ReadIsCurrent, RecordsAreMade
  <2>5. Chain(operation', memoryUi'.busy # "no", memorySaves', revoked')
    BY <1>0, <2>1
  <2> QED BY <2>1, <2>3, <2>4, <2>5 DEF ChildInv
<1>4. CASE RecordLapses
  <2>1. UNCHANGED <<memoryFile, loadedState, operation, memoryUi, memorySaves, removed, revoked>>
    BY <1>4 DEF RecordLapses
  <2>2. Chain(operation', memoryUi'.busy # "no", memorySaves', revoked')
    BY <1>0, <2>1
  <2> QED BY <2>1, <2>2 DEF ChildInv, ChildTypes, ReadIsCurrent, RecordsAreMade
<1> QED BY <1>1, <1>2, <1>3, <1>4

(* The file an operation leaves: no record but a new one, and no scope but *)
(* the one that is asked for.                                              *)
LEMMA AppliedBounds ==
  ASSUME ChildInv, loadedState.read, NEW op \in ChainOps
  PROVE  LET state == Applied(op, loadedState)
         IN  /\ state.records \subseteq MemRecords /\ state.authorizations \subseteq Scopes
             /\ state.records \subseteq memoryFile.records \union
                  (IF op.kind = "save" THEN {[n |-> memorySaves + 1, scope |-> op.scope]} ELSE {})
             /\ op.kind = "delete" => op.record \notin state.records
             /\ state.authorizations \subseteq memoryFile.authorizations \union
                  (IF op.kind = "authorize" /\ op.on THEN {op.scope} ELSE {})
             /\ op.kind = "authorize" /\ ~op.on => op.scope \notin state.authorizations
             /\ op.kind = "select" => state = loadedState
<1>1. /\ loadedState.records \subseteq memoryFile.records /\ loadedState.records \subseteq MemRecords
      /\ loadedState.authorizations = memoryFile.authorizations /\ loadedState.authorizations \subseteq Scopes
      /\ loadedState = [records |-> loadedState.records, authorizations |-> loadedState.authorizations,
                        read |-> loadedState.read]
      /\ memorySaves \in Nat
  BY DEF ChildInv, ChildTypes, ReadIsCurrent
<1>2. /\ op.kind = "delete" => op.record \in MemRecords
      /\ op.kind \in {"authorize", "save"} => op.scope \in Scopes
      /\ op.kind = "authorize" => op.on \in BOOLEAN
  BY DeletesAreOfRecords
<1> HIDE DEF ChainOps
<1>3. CASE op.kind = "authorize"
  <2> DEFINE s == [loadedState EXCEPT !.authorizations = IF op.on THEN @ \union {op.scope} ELSE @ \ {op.scope}]
  <2>1. Applied(op, loadedState) = s
    BY <1>3 DEF Applied
  <2>2. s.records = loadedState.records
        /\ s.authorizations = IF op.on THEN loadedState.authorizations \union {op.scope}
                              ELSE loadedState.authorizations \ {op.scope}
    BY <1>1
  <2> HIDE DEF s
  <2> QED BY <1>1, <1>2, <1>3, <2>1, <2>2
<1>4. CASE op.kind = "save"
  <2> DEFINE new == [n |-> memorySaves + 1, scope |-> op.scope]
             s   == [loadedState EXCEPT !.records = @ \union {new}]
  <2>1. Applied(op, loadedState) = s
    BY <1>4 DEF Applied
  <2>2. s.records = loadedState.records \union {new} /\ s.authorizations = loadedState.authorizations
    BY <1>1
  <2>3. new \in MemRecords
    BY <1>1, <1>2, <1>4 DEF MemRecords
  <2> HIDE DEF s
  <2> QED BY <1>1, <1>4, <2>1, <2>2, <2>3
<1>5. CASE op.kind = "delete"
  <2> DEFINE s == [loadedState EXCEPT !.records = @ \ {op.record}]
  <2>1. Applied(op, loadedState) = s
    BY <1>5 DEF Applied
  <2>2. s.records = loadedState.records \ {op.record} /\ s.authorizations = loadedState.authorizations
    BY <1>1
  <2> HIDE DEF s
  <2> QED BY <1>1, <1>5, <2>1, <2>2
<1>6. CASE op.kind \notin {"authorize", "save", "delete"}
  <2>1. Applied(op, loadedState) = loadedState
    BY <1>6 DEF Applied
  <2> QED BY <1>1, <1>6, <2>1
<1> QED BY <1>3, <1>4, <1>5, <1>6

(* The file is saved: what was deleted and revoked before is not in it.    *)
LEMMA SavedFileIsClean ==
  ASSUME ChildInv, loadedState.read,
         LET op == Head(operation)
             state == Applied(op, loadedState)
         IN  /\ memoryFile' = [records |-> state.records, authorizations |-> state.authorizations]
             /\ memorySaves' = IF op.kind = "save" THEN memorySaves + 1 ELSE memorySaves
  PROVE  /\ memoryFile' \in [records : SUBSET MemRecords, authorizations : SUBSET Scopes]
         /\ memorySaves' \in Nat /\ memorySaves <= memorySaves'
         /\ \A r \in memoryFile'.records : r.n <= memorySaves'
         /\ removed \intersect memoryFile'.records = {}
         /\ revoked \intersect memoryFile'.authorizations = {}
<1> DEFINE op == Head(operation)
           state == Applied(op, loadedState)
<1>1. Chain(operation, memoryUi.busy # "no", memorySaves, revoked) /\ operation # << >>
  BY DEF ChildInv, ReadIsCurrent
<1>2. op \in ChainOps /\ (op.kind = "authorize" /\ op.on => op.scope \notin revoked)
  BY <1>1, ChainMoves
<1>3. /\ state.records \subseteq MemRecords /\ state.authorizations \subseteq Scopes
      /\ state.records \subseteq memoryFile.records \union
           (IF op.kind = "save" THEN {[n |-> memorySaves + 1, scope |-> op.scope]} ELSE {})
      /\ state.authorizations \subseteq memoryFile.authorizations \union
           (IF op.kind = "authorize" /\ op.on THEN {op.scope} ELSE {})
  <2> HIDE DEF op
  <2> QED BY <1>2, AppliedBounds
<1>4. /\ memoryFile' = [records |-> state.records, authorizations |-> state.authorizations]
      /\ memorySaves' = IF op.kind = "save" THEN memorySaves + 1 ELSE memorySaves
  OBVIOUS
<1> HIDE DEF state, op
<1>5. /\ memorySaves \in Nat /\ memoryFile.records \subseteq MemRecords /\ removed \subseteq MemRecords
      /\ \A r \in memoryFile.records \union removed : r.n <= memorySaves
      /\ removed \intersect memoryFile.records = {} /\ revoked \intersect memoryFile.authorizations = {}
      /\ \A r \in MemRecords : r.n \in Nat
  BY DEF ChildInv, ChildTypes, RecordsAreMade, MemRecords
<1>6. memorySaves' \in Nat /\ memorySaves <= memorySaves'
  BY <1>4, <1>5
<1>7. ASSUME NEW r \in memoryFile'.records PROVE r.n <= memorySaves' /\ r \notin removed
  <2>0. r \in state.records
    BY <1>4, <1>7
  <2>1. r \in memoryFile.records \/ (op.kind = "save" /\ r = [n |-> memorySaves + 1, scope |-> op.scope])
    BY <1>3, <2>0
  <2>2. CASE r \in memoryFile.records
    BY <1>4, <1>5, <2>2
  <2>3. CASE op.kind = "save" /\ r = [n |-> memorySaves + 1, scope |-> op.scope]
    <3>1. r.n = memorySaves + 1 /\ memorySaves' = memorySaves + 1
      BY <1>4, <2>3
    <3> QED BY <1>5, <3>1
  <2> QED BY <2>1, <2>2, <2>3
<1>8. revoked \intersect memoryFile'.authorizations = {}
  BY <1>2, <1>3, <1>4, <1>5
<1>9. memoryFile' \in [records : SUBSET MemRecords, authorizations : SUBSET Scopes]
  BY <1>3, <1>4
<1> QED BY <1>6, <1>7, <1>8, <1>9

(* An operation saves and its caller is answered; a save and a delete of   *)
(* the memory tab are followed by a list, for which it waits on.           *)
LEMMA OperationSavesKeeps == ChildInv /\ OperationSaves => ChildInv'
<1> SUFFICES ASSUME ChildInv, OperationSaves PROVE ChildInv'
  OBVIOUS
<1> DEFINE op == Head(operation)
           rest == Tail(operation)
           state == Applied(op, loadedState)
<1>1. /\ loadedState.read /\ loadedState' = NotLoaded
      /\ memoryFile' = [records |-> state.records, authorizations |-> state.authorizations]
      /\ memorySaves' = IF op.kind = "save" THEN memorySaves + 1 ELSE memorySaves
      /\ memoryUi' = IF op.by # "ui" \/ op.kind \in {"save", "delete"} THEN memoryUi
                     ELSE [busy |-> "no",
                           shown |-> IF op.kind = "export" THEN memoryUi.shown ELSE state.records]
      /\ operation' = IF op.by = "ui" /\ op.kind \in {"save", "delete"}
                      THEN Append(rest, [kind |-> "list", by |-> "ui"]) ELSE rest
      /\ removed' = IF op.by = "ui" /\ op.kind = "delete" THEN removed \union {op.record} ELSE removed
      /\ revoked' = IF op.by = "ui" /\ op.kind = "authorize" /\ ~op.on
                    THEN revoked \union {op.scope} ELSE revoked
  BY DEF OperationSaves, SavesAnd, Answers
<1>2. Chain(operation, memoryUi.busy # "no", memorySaves, revoked) /\ operation # << >>
  BY <1>1 DEF ChildInv, ReadIsCurrent
<1>3. /\ op \in ChainOps
      /\ op.kind = "delete" => op.record.n <= memorySaves
      /\ Chain(rest, memoryUi.busy # "no", memorySaves, revoked)
      /\ op.by = "ui" => memoryUi.busy # "no" /\ \A left : Chain(rest, FALSE, memorySaves, left)
  <2>1. op \in ChainOps /\ (op.kind = "delete" => op.record.n <= memorySaves)
        /\ Chain(rest, memoryUi.busy # "no", memorySaves, revoked)
    BY <1>2, ChainMoves
  <2>2. op.by = "ui" => memoryUi.busy # "no" /\ \A left : Chain(rest, FALSE, memorySaves, left)
    BY <1>2, ChainMoves
  <2> QED BY <2>1, <2>2
<1>4. /\ memoryFile' \in [records : SUBSET MemRecords, authorizations : SUBSET Scopes]
      /\ memorySaves' \in Nat /\ memorySaves <= memorySaves' /\ memorySaves \in Nat
      /\ \A r \in memoryFile'.records : r.n <= memorySaves'
      /\ removed \intersect memoryFile'.records = {}
      /\ revoked \intersect memoryFile'.authorizations = {}
  BY <1>1, SavedFileIsClean DEF ChildInv, ChildTypes
<1>5. /\ op.kind = "delete" => op.record \notin memoryFile'.records /\ op.record \in MemRecords
      /\ op.kind = "authorize" /\ ~op.on => op.scope \notin memoryFile'.authorizations
  <2>1. /\ op.kind = "delete" => op.record \notin state.records
        /\ op.kind = "authorize" /\ ~op.on => op.scope \notin state.authorizations
    <3> HIDE DEF op
    <3> QED BY <1>1, <1>3, AppliedBounds
  <2> HIDE DEF op, state
  <2> QED BY <1>1, <1>3, <2>1, DeletesAreOfRecords
<1>6. memoryFile'.records = state.records /\ op.by \in {"ui", "nobody"}
  BY <1>1, <1>3, DeletesAreOfRecords
<1> HIDE DEF op, rest, state, ChainOps
<1>7. /\ memoryUi = [busy |-> memoryUi.busy, shown |-> memoryUi.shown]
      /\ memoryUi.shown \subseteq MemRecords /\ removed \subseteq MemRecords
      /\ \A r \in MemRecords : r.n \in Nat
      /\ \A r \in memoryUi.shown \union removed : r.n <= memorySaves
  BY DEF ChildInv, ChildTypes, RecordsAreMade, MemRecords
<1>8. /\ loadedState' \in [records : SUBSET MemRecords, authorizations : SUBSET Scopes, read : BOOLEAN]
      /\ ~loadedState'.read
  BY <1>1 DEF NotLoaded
<1>9. /\ memoryUi' = [busy |-> memoryUi'.busy, shown |-> memoryUi'.shown]
      /\ memoryUi'.shown \subseteq memoryUi.shown \union memoryFile'.records
  <2>1. CASE memoryUi' = memoryUi
    BY <1>7, <2>1
  <2>2. CASE memoryUi' = [busy |-> "no", shown |-> IF op.kind = "export" THEN memoryUi.shown ELSE state.records]
    BY <1>6, <2>2
  <2> QED BY <1>1, <2>1, <2>2
<1>10. removed' \subseteq MemRecords /\ (\A r \in removed' : r.n <= memorySaves')
       /\ removed' \intersect memoryFile'.records = {}
  <2>1. CASE op.by = "ui" /\ op.kind = "delete"
    BY <1>1, <1>3, <1>4, <1>5, <1>7, <2>1
  <2>2. CASE ~(op.by = "ui" /\ op.kind = "delete")
    BY <1>1, <1>4, <1>7, <2>2
  <2> QED BY <2>1, <2>2
<1>11. revoked' \intersect memoryFile'.authorizations = {}
  BY <1>1, <1>4, <1>5
<1>12. RecordsAreMade'
  <2>1. \A r \in memoryUi'.shown : r.n <= memorySaves'
    BY <1>4, <1>7, <1>9
  <2> QED BY <1>4, <1>10, <2>1 DEF RecordsAreMade
<1>13. ChildTypes'
  BY <1>4, <1>7, <1>8, <1>9, <1>10 DEF ChildTypes
<1>14. Chain(operation', memoryUi'.busy # "no", memorySaves', revoked')
  <2>1. CASE op.by # "ui"
    <3>1. operation' = rest /\ memoryUi' = memoryUi /\ revoked' = revoked
      BY <1>1, <2>1
    <3>2. Chain(rest, memoryUi.busy # "no", memorySaves + 1, revoked)
      BY <1>3, <1>4, ChainOutlives
    <3>3. memorySaves' = memorySaves \/ memorySaves' = memorySaves + 1
      BY <1>1
    <3> QED BY <1>3, <3>1, <3>2, <3>3
  <2>2. CASE op.by = "ui" /\ op.kind \in {"save", "delete"}
    <3> DEFINE list == [kind |-> "list", by |-> "ui"]
    <3>1. operation' = Append(rest, list) /\ memoryUi' = memoryUi /\ revoked' = revoked
          /\ memoryUi.busy # "no"
      BY <1>1, <1>3, <2>2
    <3>2. Chain(rest, FALSE, memorySaves, revoked)
      BY <1>3, <2>2
    <3>3. Chain(rest, FALSE, memorySaves + 1, revoked)
      BY <1>4, <3>2, ChainOutlives
    <3>4. Chain(rest, FALSE, memorySaves', revoked)
      BY <1>1, <3>2, <3>3
    <3>5. list \in ChainOps /\ list.kind = "list"
      BY DEF ChainOps
    <3>6. Chain(Append(rest, list), TRUE, memorySaves', revoked)
      <4> HIDE DEF list
      <4> QED BY <3>4, <3>5, ChainAppends
    <3> QED BY <3>1, <3>6
  <2>3. CASE op.by = "ui" /\ op.kind \notin {"save", "delete"}
    <3>1. operation' = rest /\ memoryUi'.busy = "no" /\ memorySaves' = memorySaves
      BY <1>1, <2>3
    <3>2. Chain(rest, FALSE, memorySaves, revoked')
      BY <1>3, <2>3
    <3> QED BY <3>1, <3>2
  <2> QED BY <2>1, <2>2, <2>3
<1> QED BY <1>8, <1>10, <1>11, <1>12, <1>13, <1>14 DEF ChildInv, ReadIsCurrent

(* An operation fails before or after its save; its caller stops waiting.  *)
LEMMA OperationFailsKeeps == ChildInv /\ OperationFails => ChildInv'
<1> SUFFICES ASSUME ChildInv, OperationFails PROVE ChildInv'
  OBVIOUS
<1> DEFINE op == Head(operation)
           rest == Tail(operation)
           state == Applied(op, loadedState)
<1>1. /\ loadedState.read /\ loadedState' = NotLoaded
      /\ \/ UNCHANGED <<memoryFile, memorySaves>>
         \/ /\ memoryFile' = [records |-> state.records, authorizations |-> state.authorizations]
            /\ memorySaves' = IF op.kind = "save" THEN memorySaves + 1 ELSE memorySaves
      /\ memoryUi' = IF op.by = "ui" THEN [memoryUi EXCEPT !.busy = "no"] ELSE memoryUi
      /\ operation' = rest /\ UNCHANGED <<removed, revoked>>
  BY DEF OperationFails
<1>2. Chain(operation, memoryUi.busy # "no", memorySaves, revoked) /\ operation # << >>
  BY <1>1 DEF ChildInv, ReadIsCurrent
<1>3. Chain(rest, memoryUi.busy # "no", memorySaves, revoked)
  BY <1>2, ChainMoves
<1>4. op.by = "ui" => Chain(rest, FALSE, memorySaves, revoked)
  BY <1>2, ChainMoves
<1>5. /\ memoryFile' \in [records : SUBSET MemRecords, authorizations : SUBSET Scopes]
      /\ memorySaves' \in Nat /\ memorySaves <= memorySaves' /\ memorySaves \in Nat
      /\ \A r \in memoryFile'.records : r.n <= memorySaves'
      /\ removed \intersect memoryFile'.records = {}
      /\ revoked \intersect memoryFile'.authorizations = {}
  <2>1. CASE UNCHANGED <<memoryFile, memorySaves>>
    BY <2>1 DEF ChildInv, ChildTypes, RecordsAreMade
  <2>2. CASE /\ memoryFile' = [records |-> state.records, authorizations |-> state.authorizations]
             /\ memorySaves' = IF op.kind = "save" THEN memorySaves + 1 ELSE memorySaves
    BY <1>1, <2>2, SavedFileIsClean DEF ChildInv, ChildTypes
  <2> QED BY <1>1, <2>1, <2>2
<1>6. memorySaves' = memorySaves \/ memorySaves' = memorySaves + 1
  BY <1>1
<1> HIDE DEF op, rest, state
<1>7. /\ memoryUi = [busy |-> memoryUi.busy, shown |-> memoryUi.shown]
      /\ memoryUi.shown \subseteq MemRecords /\ removed \subseteq MemRecords
      /\ \A r \in MemRecords : r.n \in Nat
      /\ \A r \in memoryUi.shown \union removed : r.n <= memorySaves
  BY DEF ChildInv, ChildTypes, RecordsAreMade, MemRecords
<1>8. /\ memoryUi' = [busy |-> memoryUi'.busy, shown |-> memoryUi'.shown] /\ memoryUi'.shown = memoryUi.shown
      /\ op.by = "ui" => memoryUi'.busy = "no"
      /\ op.by # "ui" => memoryUi' = memoryUi
  BY <1>1, <1>7
<1>9. /\ loadedState' \in [records : SUBSET MemRecords, authorizations : SUBSET Scopes, read : BOOLEAN]
      /\ ~loadedState'.read
  BY <1>1 DEF NotLoaded
<1>10. ChildTypes'
  BY <1>1, <1>5, <1>7, <1>8, <1>9 DEF ChildTypes
<1>11. RecordsAreMade'
  BY <1>1, <1>5, <1>7, <1>8 DEF RecordsAreMade
<1>12. Chain(operation', memoryUi'.busy # "no", memorySaves', revoked')
  <2>1. CASE op.by = "ui"
    <3>1. Chain(rest, FALSE, memorySaves, revoked)
      BY <1>4, <2>1
    <3>2. Chain(rest, FALSE, memorySaves + 1, revoked)
      BY <1>5, <3>1, ChainOutlives
    <3>3. Chain(rest, FALSE, memorySaves', revoked)
      BY <1>6, <3>1, <3>2
    <3> QED BY <1>1, <1>8, <2>1, <3>3
  <2>2. CASE op.by # "ui"
    <3>1. Chain(rest, memoryUi.busy # "no", memorySaves + 1, revoked)
      BY <1>3, <1>5, ChainOutlives
    <3> QED BY <1>1, <1>3, <1>6, <1>8, <2>2, <3>1
  <2> QED BY <2>1, <2>2
<1> QED BY <1>1, <1>5, <1>9, <1>10, <1>11, <1>12 DEF ChildInv, ReadIsCurrent

(* Every step keeps the invariant.                                         *)
LEMMA ChildMemoryStep == ChildInv /\ [ChildMemoryNext]_childMemoryVars => ChildInv'
<1> SUFFICES ASSUME ChildInv, [ChildMemoryNext]_childMemoryVars PROVE ChildInv'
  OBVIOUS
<1>1. CASE UNCHANGED childMemoryVars
  <2>1. UNCHANGED <<memoryFile, operation, loadedState, memoryUi, memorySaves, removed, revoked>>
    BY <1>1 DEF childMemoryVars
  <2>2. Chain(operation', memoryUi'.busy # "no", memorySaves', revoked')
    BY <2>1 DEF ChildInv
  <2> QED BY <2>1, <2>2 DEF ChildInv, ChildTypes, ReadIsCurrent, RecordsAreMade
<1>2. CASE UiReads \/ UiAuthorizes \/ UiSaves \/ UiDeletes \/ UiExports
  BY <1>2, UiCallsKeep
<1>3. CASE UiTimesOut \/ KernelSelects \/ OperationLoads \/ RecordLapses
  BY <1>3, QuietStepsKeep
<1>4. CASE OperationSaves \/ OperationFails
  BY <1>4, OperationSavesKeeps, OperationFailsKeeps
<1> QED BY <1>1, <1>2, <1>3, <1>4 DEF ChildMemoryNext

(* Only a selection changes what a Child Agent is given, and it takes what *)
(* the file holds and authorizes.                                          *)
LEMMA SelectionIsAllowed ==
  ChildInv /\ [ChildMemoryNext]_childMemoryVars /\ given' # given
    => \A r \in given' : r \notin removed /\ r.scope \notin revoked
<1> SUFFICES ASSUME ChildInv, [ChildMemoryNext]_childMemoryVars, given' # given, NEW r \in given'
             PROVE  r \notin removed /\ r.scope \notin revoked
  OBVIOUS
<1>1. OperationSaves
  BY DEF ChildMemoryNext, childMemoryVars, UiReads, UiAuthorizes, UiSaves, UiDeletes, UiExports, UiAsks,
         UiTimesOut, KernelSelects, OperationLoads, OperationFails, RecordLapses
<1> DEFINE op == Head(operation)
           state == Applied(op, loadedState)
<1>2. /\ loadedState.read /\ op.kind = "select"
      /\ given' = {m \in state.records : m.scope \in state.authorizations}
  BY <1>1 DEF OperationSaves, SavesAnd, Answers, SelectsContext
<1>3. state = loadedState
  <2>1. op \in ChainOps
    BY <1>2, ChainMoves DEF ChildInv, ReadIsCurrent
  <2> HIDE DEF op
  <2> QED BY <1>2, <2>1, AppliedBounds
<1> HIDE DEF op, state
<1> QED BY <1>2, <1>3 DEF ChildInv, ReadIsCurrent

(* For any number of records, operations and time-outs, whatever the chain *)
(* still holds and whichever operation fails around its save: a record     *)
(* whose deletion was acknowledged and a scope whose revocation was        *)
(* acknowledged are not in the file again, and no later selection gives a  *)
(* Child Agent anything of theirs (memory/service.ts, serialize).          *)
THEOREM WithdrawnMemoryIsKeptOut == ChildMemorySpec => WithdrawnMemoryStaysOut
<1>1. ChildInv /\ [ChildMemoryNext]_childMemoryVars
      => ChildInv' /\ [/\ removed' \intersect memoryFile'.records = {}
                       /\ revoked' \intersect memoryFile'.authorizations = {}
                       /\ given' # given => \A r \in given' : r \notin removed /\ r.scope \notin revoked
                      ]_childMemoryVars
  <2> SUFFICES ASSUME ChildInv, [ChildMemoryNext]_childMemoryVars
               PROVE  /\ ChildInv'
                      /\ removed' \intersect memoryFile'.records = {}
                      /\ revoked' \intersect memoryFile'.authorizations = {}
                      /\ given' # given => \A r \in given' : r \notin removed /\ r.scope \notin revoked
    OBVIOUS
  <2>1. ChildInv'
    BY ChildMemoryStep
  <2>2. removed' \intersect memoryFile'.records = {} /\ revoked' \intersect memoryFile'.authorizations = {}
    BY <2>1 DEF ChildInv
  <2> QED BY <2>1, <2>2, SelectionIsAllowed
<1> QED BY <1>1, ChildMemoryBegins, PTL DEF ChildMemorySpec, WithdrawnMemoryStaysOut
=============================================================================
