---------------------------- MODULE TaskConsole ----------------------------
(* The desktop's Task surface: one controller whose snapshot is written by the  *)
(* user's commands, by the operation in flight (run, one at a time) and by the  *)
(* polling loop (refresh), each of which awaits the sidecar between its writes. *)
(* The screen shows the snapshot of the last onChange, not the current one.     *)
EXTENDS Naturals, FiniteSets

CONSTANTS ConsoleTasks,  \* Tasks received, each waiting for a decision
          MaxNews        \* bound on the updates of each Task

ASSUME ConsoleAssumption == ConsoleTasks # {} /\ "own" \notin ConsoleTasks /\ MaxNews \in Nat

VARIABLES conView,    \* open, screen, the draft and the selected record
          conSummary, \* the summaries last read
          conShown,   \* what the last render put on the screen
          conOp,      \* the operation run holds busy for
          conPoll,    \* the refresh in flight
          conTimer,   \* the poll timer is set
          conDismiss, \* outsideDismissPending
          conActive,  \* started and not disposed
          conFocus,   \* the window is in the foreground
          conTask,    \* the sidecar's records
          conNews     \* updates so far

conVars == <<conView, conSummary, conShown, conOp, conPoll, conTimer, conDismiss,
             conActive, conFocus, conTask, conNews>>

ConIds == ConsoleTasks \cup {"own"}   \* "own" is the Task this user sends
NoRecord == [task |-> "none", decided |-> TRUE, unread |-> FALSE]
RecordOf(t) == [task |-> t, decided |-> conTask[t].decided, unread |-> conTask[t].unread]
NoOp == [kind |-> "none", task |-> "none", at |-> "none"]
NoPoll == [at |-> "none", task |-> "none", key |-> <<>>, unread |-> FALSE]
Busy == conOp # NoOp

ConsoleInit ==
  /\ conView = [open |-> FALSE, screen |-> "inbox", draft |-> FALSE, record |-> NoRecord]
  /\ conTask = [t \in ConIds |-> [decided |-> t = "own", unread |-> t # "own"]]
  /\ conSummary = conTask
  /\ conShown = [screen |-> "closed", task |-> "none", decide |-> FALSE]
  /\ conOp = NoOp /\ conPoll = NoPoll
  /\ conTimer = TRUE /\ conDismiss = FALSE /\ conActive = TRUE
  /\ conFocus = TRUE /\ conNews = [t \in ConsoleTasks |-> 0]

\* createTaskWorkspace and createTaskDetail: a record waiting for a decision is
\* drawn with the buttons that take it.
Drawn(view) ==
  IF ~view.open THEN [screen |-> "closed", task |-> "none", decide |-> FALSE]
  ELSE IF view.screen = "detail" /\ view.record # NoRecord
  THEN [screen |-> "detail", task |-> view.record.task, decide |-> ~view.record.decided]
  ELSE [screen |-> IF view.screen = "compose" THEN "compose" ELSE "inbox",
        task |-> "none", decide |-> FALSE]
Render == conShown' = Drawn(conView')

VisibleDetail(t) == conView.open /\ conView.screen = "detail" /\ conView.record.task = t
Presentation(view, summary) ==
  <<summary, IF view.open /\ view.screen = "detail" THEN view.record ELSE NoRecord>>

\* scheduleNextRefresh
Schedules == conTimer' = (conTimer \/ (conActive /\ conPoll = NoPoll))

StartsPoll ==
  /\ conTimer' = FALSE
  /\ conPoll' = [at |-> "read", unread |-> FALSE,
                 task |-> IF conView'.open /\ conView'.screen = "detail"
                          THEN conView'.record.task ELSE "none",
                 key |-> Presentation(conView', conSummary)]

\* refresh: none while one is in flight; put off while an operation is.
Refreshes ==
  IF ~conActive \/ conPoll # NoPoll THEN UNCHANGED <<conPoll, conTimer>>
  ELSE IF Busy THEN conTimer' = TRUE /\ UNCHANGED conPoll
  ELSE StartsPoll

-----------------------------------------------------------------------------
(* The user *)

openInbox ==
  /\ conActive /\ conShown.screen = "closed"
  /\ conView' = [conView EXCEPT !.open = TRUE, !.screen = "inbox"]
  /\ Render /\ Refreshes
  /\ UNCHANGED <<conSummary, conOp, conDismiss, conActive, conFocus, conTask, conNews>>

openCompose ==
  /\ conShown.screen = "inbox" /\ ~Busy
  /\ conView' = [conView EXCEPT !.open = TRUE, !.screen = "compose", !.draft = TRUE]
  /\ Render /\ Schedules
  /\ UNCHANGED <<conSummary, conOp, conPoll, conDismiss, conActive, conFocus, conTask, conNews>>

Closes ==
  /\ conView' = [conView EXCEPT !.open = FALSE]
  /\ conDismiss' = FALSE
  /\ Render /\ Schedules

ConsoleBack ==
  /\ conShown.screen # "closed"
  /\ IF conView.screen = "inbox" THEN Closes
     ELSE /\ conView' = [conView EXCEPT !.screen = "inbox", !.record = NoRecord]
          /\ Render /\ Schedules /\ UNCHANGED conDismiss
  /\ UNCHANGED <<conSummary, conOp, conPoll, conActive, conFocus, conTask, conNews>>

\* dismissFromOutside: put off until the operation in flight has ended.
ConsoleLosesFocus ==
  /\ conFocus /\ conFocus' = FALSE
  /\ IF conView.open /\ ~Busy THEN Closes
     ELSE /\ conDismiss' = (conDismiss \/ conView.open)
          /\ UNCHANGED <<conView, conShown, conTimer>>
  /\ UNCHANGED <<conSummary, conOp, conPoll, conActive, conTask, conNews>>

\* noteForegroundChanged and cancelPendingOutsideDismiss
ConsoleGainsFocus ==
  /\ ~conFocus /\ conFocus' = TRUE
  /\ conDismiss' = FALSE /\ UNCHANGED conView
  /\ IF conView.open /\ conView.screen = "detail" THEN Refreshes ELSE UNCHANGED <<conPoll, conTimer>>
  /\ UNCHANGED <<conSummary, conShown, conOp, conActive, conTask, conNews>>

\* run: one operation at a time, with the poll timer cancelled meanwhile.
Runs(op) ==
  /\ ~Busy
  /\ conOp' = op /\ conTimer' = FALSE
  /\ conShown' = Drawn(conView)
  /\ UNCHANGED <<conView, conSummary, conPoll, conDismiss, conActive, conFocus, conTask, conNews>>

ConsoleSelect(t) == conShown.screen = "inbox" /\ Runs([kind |-> "select", task |-> t, at |-> "call"])
ConsoleSend == conShown.screen = "compose" /\ conView.draft
               /\ Runs([kind |-> "send", task |-> "own", at |-> "call"])

\* approve, reject and the other commands of the detail: the button names no
\* Task, mutateSelected takes the one selected when it is pressed.
mutateSelected ==
  /\ conShown.decide /\ conView.record # NoRecord
  /\ Runs([kind |-> "decide", task |-> conView.record.task, at |-> "call"])

ConsoleDisposed ==
  /\ conActive /\ conActive' = FALSE /\ conTimer' = FALSE
  /\ UNCHANGED <<conView, conSummary, conShown, conOp, conPoll, conDismiss, conFocus, conTask, conNews>>

-----------------------------------------------------------------------------
(* The operation in flight *)

\* A plausible slip: a run that ends with a dismissal put off closes the surface
\* and returns before anything sets the timer.
RunEndsUnscheduled(view) ==
  /\ conOp' = NoOp /\ conDismiss' = FALSE
  /\ conView' = [view EXCEPT !.open = @ /\ ~conDismiss]
  /\ conShown' = Drawn(conView')
  /\ IF conDismiss /\ view.open THEN UNCHANGED conTimer ELSE Schedules

\* The finally of run: a dismissal put off closes the surface now.
RunEnds(view) ==
  /\ conOp' = NoOp /\ conDismiss' = FALSE
  /\ conView' = [view EXCEPT !.open = @ /\ ~conDismiss]
  /\ conShown' = Drawn(conView')
  /\ Schedules

\* beginDetail, or the failure of the call.
SelectReads ==
  /\ conOp.kind = "select" /\ conOp.at = "call"
  /\ \/ /\ conView' = [conView EXCEPT !.screen = "detail", !.record = RecordOf(conOp.task)]
        /\ conOp' = [conOp EXCEPT !.at = "rest"]
        /\ Render /\ UNCHANGED <<conTimer, conDismiss>>
     \/ RunEnds(conView)
  /\ UNCHANGED <<conSummary, conPoll, conActive, conFocus, conTask, conNews>>

\* The parallel reads are in; an update on the screen is marked viewed.
SelectRests ==
  /\ conOp.kind = "select" /\ conOp.at = "rest"
  /\ IF VisibleDetail(conOp.task) /\ conFocus /\ conView.record.unread
     THEN conOp' = [conOp EXCEPT !.at = "mark"] /\ UNCHANGED <<conView, conShown, conTimer, conDismiss>>
     ELSE RunEnds(conView)
  /\ UNCHANGED <<conSummary, conPoll, conActive, conFocus, conTask, conNews>>

Viewed(t) == conTask' = [conTask EXCEPT ![t].unread = FALSE]

SelectMarks ==
  /\ conOp.kind = "select" /\ conOp.at = "mark"
  /\ \/ /\ Viewed(conOp.task)
        /\ conSummary' = IF conView.record.task = conOp.task THEN conTask' ELSE conSummary
        /\ RunEnds(IF conView.record.task = conOp.task
                   THEN [conView EXCEPT !.record = [RecordOf(conOp.task) EXCEPT !.unread = FALSE]]
                   ELSE conView)
     \/ RunEnds(conView) /\ UNCHANGED <<conTask, conSummary>>
  /\ UNCHANGED <<conPoll, conActive, conFocus, conNews>>

DecideCalls ==
  /\ conOp.kind = "decide" /\ conOp.at = "call"
  /\ \/ /\ conTask' = [conTask EXCEPT ![conOp.task].decided = TRUE]
        /\ conOp' = [conOp EXCEPT !.at = "answered"]
        /\ UNCHANGED <<conView, conShown, conTimer, conDismiss>>
     \/ RunEnds(conView) /\ UNCHANGED conTask
  /\ UNCHANGED <<conSummary, conPoll, conActive, conFocus, conNews>>

\* The answer becomes the selected record, whatever is selected by then.
DecideAnswered ==
  /\ conOp.kind = "decide" /\ conOp.at = "answered"
  /\ IF VisibleDetail(conOp.task) /\ conFocus THEN Viewed(conOp.task) ELSE UNCHANGED conTask
  /\ conView' = [conView EXCEPT !.record =
       [task |-> conOp.task, decided |-> TRUE, unread |-> conTask'[conOp.task].unread]]
  /\ conOp' = [conOp EXCEPT !.at = "rest"]
  /\ Render
  /\ UNCHANGED <<conSummary, conPoll, conTimer, conDismiss, conActive, conFocus, conNews>>

SendCalls ==
  /\ conOp.kind = "send" /\ conOp.at = "call"
  /\ \/ /\ conView' = [conView EXCEPT !.screen = "detail", !.draft = FALSE, !.record = RecordOf("own")]
        /\ conOp' = [conOp EXCEPT !.at = "rest"]
        /\ Render /\ UNCHANGED <<conTimer, conDismiss>>
     \/ RunEnds(conView)
  /\ UNCHANGED <<conSummary, conPoll, conActive, conFocus, conTask, conNews>>

\* The supplementary reads and the new summaries.
OperationRests ==
  /\ conOp.kind \in {"decide", "send"} /\ conOp.at = "rest"
  /\ conSummary' \in {conSummary, conTask}
  /\ RunEnds(conView)
  /\ UNCHANGED <<conPoll, conActive, conFocus, conTask, conNews>>

-----------------------------------------------------------------------------
(* The polling loop *)

\* A timer that fires during an operation is set again.
TimerFires ==
  /\ conTimer /\ ~Busy
  /\ UNCHANGED conView /\ StartsPoll
  /\ UNCHANGED <<conSummary, conShown, conOp, conDismiss, conActive, conFocus, conTask, conNews>>

\* The end of refresh: only a change of what is visible is rendered.
PollEnds(view, summary) ==
  /\ conPoll' = NoPoll /\ conTimer' = conActive
  /\ conShown' = IF /\ Presentation(view, summary) # conPoll.key
                    /\ ~(view.open /\ view.screen = "compose")
                 THEN Drawn(view) ELSE conShown

PollReads ==
  /\ conPoll.at = "read"
  /\ conSummary' \in {conSummary, conTask}
  /\ \/ /\ conPoll.task # "none" /\ VisibleDetail(conPoll.task)
        /\ IF conFocus /\ conTask[conPoll.task].unread
           THEN /\ conPoll' = [conPoll EXCEPT !.at = "mark", !.unread = TRUE]
                /\ UNCHANGED conView
           ELSE /\ conPoll' = [conPoll EXCEPT !.at = "rest"]
                /\ conView' = [conView EXCEPT !.record = RecordOf(conPoll.task)]
        /\ UNCHANGED <<conShown, conTimer>>
     \/ PollEnds(conView, conSummary') /\ UNCHANGED conView
  /\ UNCHANGED <<conOp, conDismiss, conActive, conFocus, conTask, conNews>>

\* The record marked viewed is written back without asking again what is selected.
PollMarks ==
  /\ conPoll.at = "mark"
  /\ \/ Viewed(conPoll.task) \/ UNCHANGED conTask
  /\ conView' = [conView EXCEPT !.record = [RecordOf(conPoll.task) EXCEPT
                                             !.unread = conTask'[conPoll.task].unread]]
  /\ conPoll' = [conPoll EXCEPT !.at = "rest"]
  /\ UNCHANGED <<conSummary, conShown, conOp, conTimer, conDismiss, conActive, conFocus, conNews>>

\* Image paths and the memory preview, then the summaries again after an update.
PollRests ==
  /\ conPoll.at = "rest"
  /\ conSummary' \in IF conPoll.unread THEN {conSummary, conTask} ELSE {conSummary}
  /\ PollEnds(conView, conSummary')
  /\ UNCHANGED <<conView, conOp, conDismiss, conActive, conFocus, conTask, conNews>>

\* The Task has something new for the user.
TaskUpdate(t) ==
  /\ conNews[t] < MaxNews
  /\ conNews' = [conNews EXCEPT ![t] = @ + 1]
  /\ conTask' = [conTask EXCEPT ![t].unread = TRUE]
  /\ UNCHANGED <<conView, conSummary, conShown, conOp, conPoll, conTimer, conDismiss,
                 conActive, conFocus>>

ConsoleNext ==
  \/ openInbox \/ openCompose \/ ConsoleBack \/ ConsoleLosesFocus \/ ConsoleGainsFocus
  \/ \E t \in ConIds : ConsoleSelect(t)
  \/ ConsoleSend \/ mutateSelected \/ ConsoleDisposed
  \/ SelectReads \/ SelectRests \/ SelectMarks \/ DecideCalls \/ DecideAnswered
  \/ SendCalls \/ OperationRests
  \/ TimerFires \/ PollReads \/ PollMarks \/ PollRests
  \/ \E t \in ConsoleTasks : TaskUpdate(t)

ConsoleSpec == ConsoleInit /\ [][ConsoleNext]_conVars

-----------------------------------------------------------------------------
\* As long as the controller lives, another refresh is on its way: an operation,
\* a focus loss in the middle of it and a refresh in flight each cancel or skip
\* the timer, and whichever ends last has to set it again (run, close, refresh).
RefreshIsComing == conActive => conTimer \/ conPoll # NoPoll \/ Busy
=============================================================================
