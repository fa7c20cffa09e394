--------------------------- MODULE PresenceReports ---------------------------
(* The adaptive scheduler of Presence reports (runtime/presence/controller.ts).

   One report is in flight at a time. Going to sleep or stopping aborts it, but
   the HTTP client only listens to that signal until the answer's headers are in
   (services/network/client.ts:905-948), so an answer whose body is being read
   still ends the attempt well, and a request that left may reach the service
   long after its attempt has ended. *)
EXTENDS Integers

CONSTANTS MaxReports,     \* sequence numbers a session uses
          MaxPresenceEnds \* attempts that end badly

ASSUME PresenceBounds == MaxReports \in Nat \ {0} /\ MaxPresenceEnds \in Nat

VARIABLES
  presHost,     \* active, sleeping and the three signals of the mode
  presFlight,   \* the attempt in flight: its report, its stage, whether aborted
  presAgain,    \* pendingImmediate
  presTimer,    \* what the armed timer will report, or NoTimer
  presState,    \* the state of the published snapshot
  presNext,     \* nextSequence
  presStopping, \* stop() waits for the attempt in flight
  presWire,     \* reports on their way to the service
  presService,  \* the newest report the service holds
  presEnds      \* attempts that ended badly so far

presVars == <<presHost, presFlight, presAgain, presTimer, presState, presNext,
              presStopping, presWire, presService, presEnds>>

NoReport == [seq |-> 0, mode |-> "online"]
NoTimer == [kind |-> "none", report |-> NoReport]
NewReportDue == [kind |-> "new", report |-> NoReport]
SameReportDue(report) == [kind |-> "same", report |-> report]
NoFlight == [stage |-> "none", report |-> NoReport, aborted |-> FALSE]

PresenceMode(h) ==
  CASE h.collaborating -> "collaborating"
    [] ~h.collaborating /\ h.panel -> "viewing_connect"
    [] ~h.collaborating /\ ~h.panel /\ h.foreground -> "online"
    [] OTHER -> "background"

Reporting(h) == h.active /\ ~h.sleeping
InTheAir == presFlight.stage # "none"
NewReport(h) == [seq |-> presNext, mode |-> PresenceMode(h)]

PresenceInit ==
  /\ presHost = [active |-> FALSE, sleeping |-> FALSE, foreground |-> TRUE,
                 panel |-> FALSE, collaborating |-> FALSE]
  /\ presFlight = NoFlight
  /\ presAgain = FALSE
  /\ presTimer = NoTimer
  /\ presState = "stopped"
  /\ presNext = 1
  /\ presStopping = FALSE
  /\ presWire = {}
  /\ presService = NoReport
  /\ presEnds = 0

\* startAttempt: the attempt asks for the authentication first.
StartAttempt(report) ==
  presFlight' = [stage |-> "auth", report |-> report, aborted |-> FALSE]

\* A sequence number is left for an immediate report of the next signal.
ReportsLeft == presNext + (IF presAgain THEN 1 ELSE 0) <= MaxReports

\* requestImmediate as it would be without pendingImmediate.
RequestImmediateUnlessBusy(h) ==
  IF InTheAir
    THEN UNCHANGED <<presTimer, presAgain, presFlight, presNext>>
    ELSE /\ presTimer' = NoTimer
         /\ StartAttempt(NewReport(h))
         /\ presNext' = presNext + 1
         /\ UNCHANGED presAgain

\* requestImmediate under the host state h. While an attempt is in flight only
\* pendingImmediate is set.
RequestImmediate(h) ==
  /\ presTimer' = NoTimer
  /\ IF InTheAir
       THEN /\ presAgain' = TRUE
            /\ UNCHANGED <<presFlight, presNext>>
       ELSE /\ StartAttempt(NewReport(h))
            /\ presNext' = presNext + 1
            /\ UNCHANGED presAgain

StartPresence ==
  /\ ~presHost.active
  /\ ReportsLeft
  /\ presHost' = [presHost EXCEPT !.active = TRUE]
  /\ IF presHost.sleeping
       THEN /\ presState' = "sleeping"
            /\ UNCHANGED <<presTimer, presAgain, presFlight, presNext>>
       ELSE /\ presState' = "checking"
            /\ RequestImmediate(presHost')
  /\ UNCHANGED <<presStopping, presWire, presService, presEnds>>

\* stop: aborts the attempt and publishes "stopped" once it has ended.
StopPresence ==
  /\ presHost.active \/ InTheAir
  /\ presHost' = [presHost EXCEPT !.active = FALSE]
  /\ presAgain' = FALSE
  /\ presTimer' = NoTimer
  /\ presFlight' = [presFlight EXCEPT !.aborted = InTheAir]
  /\ presStopping' = InTheAir
  /\ presState' = IF InTheAir THEN presState ELSE "stopped"
  /\ UNCHANGED <<presNext, presWire, presService, presEnds>>

SleepPresence ==
  /\ ~presHost.sleeping
  /\ presHost' = [presHost EXCEPT !.sleeping = TRUE]
  /\ presAgain' = FALSE
  /\ presTimer' = NoTimer
  /\ presFlight' = [presFlight EXCEPT !.aborted = InTheAir]
  /\ presState' = "sleeping"
  /\ UNCHANGED <<presNext, presStopping, presWire, presService, presEnds>>

WakePresence ==
  /\ presHost.sleeping
  /\ ReportsLeft
  /\ presHost' = [presHost EXCEPT !.sleeping = FALSE]
  /\ IF presHost.active
       THEN /\ presState' = "checking"
            /\ RequestImmediate(presHost')
       ELSE UNCHANGED <<presState, presTimer, presAgain, presFlight, presNext>>
  /\ UNCHANGED <<presStopping, presWire, presService, presEnds>>

\* setForeground, setPanelVisible, setCollaborationActive and reportModeChange.
PresenceSignal(signal) ==
  LET h == [presHost EXCEPT ![signal] = ~@] IN
  /\ ReportsLeft
  /\ presHost' = h
  /\ presState' = IF h.sleeping THEN "sleeping" ELSE presState
  /\ IF PresenceMode(h) # PresenceMode(presHost) /\ Reporting(h)
       THEN RequestImmediate(h)
       ELSE UNCHANGED <<presTimer, presAgain, presFlight, presNext>>
  /\ UNCHANGED <<presStopping, presWire, presService, presEnds>>

\* reportStateChange: an immediate report in the same mode.
ReportStateChange ==
  /\ Reporting(presHost)
  /\ ReportsLeft
  /\ RequestImmediate(presHost)
  /\ UNCHANGED <<presHost, presState, presStopping, presWire, presService, presEnds>>

\* The timer starts a new report, or the failed one again.
PresenceTimer ==
  /\ presTimer # NoTimer
  /\ ReportsLeft
  /\ presTimer' = NoTimer
  /\ IF presTimer = NewReportDue
       THEN /\ StartAttempt(NewReport(presHost))
            /\ presNext' = presNext + 1
       ELSE /\ StartAttempt(presTimer.report)
            /\ UNCHANGED presNext
  /\ UNCHANGED <<presHost, presAgain, presState, presStopping, presWire, presService,
                 presEnds>>

\* The end of an attempt: what performAttempt publishes and schedules, then the
\* finally of startAttempt, then a waiting stop().
AttemptEnds(state, timer) ==
  LET again == presAgain /\ Reporting(presHost)
  IN /\ presTimer' = IF Reporting(presHost) /\ ~presAgain THEN timer ELSE NoTimer
     /\ presState' = IF presStopping THEN "stopped" ELSE state
     /\ presStopping' = FALSE
     /\ presAgain' = (presAgain /\ ~again)
     /\ IF again
          THEN /\ StartAttempt(NewReport(presHost))
               /\ presNext' = presNext + 1
          ELSE /\ presFlight' = NoFlight
               /\ UNCHANGED presNext
     /\ UNCHANGED <<presHost, presService>>

\* performAttempt's catch: nothing is published for an aborted attempt.
AttemptFails(timer) ==
  IF presFlight.aborted \/ ~Reporting(presHost)
    THEN AttemptEnds(presState, NoTimer)
    ELSE AttemptEnds("unavailable", timer)

\* The authentication is there: an aborted attempt returns, another is sent.
AttemptSent ==
  /\ presFlight.stage = "auth"
  /\ IF presFlight.aborted
       THEN AttemptEnds(presState, NoTimer) /\ UNCHANGED presWire
       ELSE /\ presFlight' = [presFlight EXCEPT !.stage = "sent"]
            /\ presWire' = presWire \cup {presFlight.report}
            /\ UNCHANGED <<presHost, presAgain, presTimer, presState, presNext,
                           presStopping, presService>>
  /\ UNCHANGED presEnds

\* The service keeps the newest report of the session and calls an older one
\* stale; whether it takes the same sequence number twice is its own affair. The
\* answer's headers come back when the attempt of this report still waits.
ServiceHolds(report) ==
  /\ report \in presWire
  /\ presWire' = presWire \ {report}
  /\ presService' = IF report.seq > presService.seq THEN report ELSE presService
  /\ \E answer \in {a \in {"reading", "stale"} :
                      \/ report.seq = presService.seq
                      \/ (a = "reading") = (report.seq > presService.seq)} :
       presFlight' = IF presFlight.stage = "sent" /\ presFlight.report = report
                       THEN [presFlight EXCEPT !.stage = answer]
                       ELSE presFlight
  /\ UNCHANGED <<presHost, presAgain, presTimer, presState, presNext, presStopping,
                 presEnds>>

\* The answer is read and matches the report, aborted or not.
AttemptSucceeds ==
  /\ presFlight.stage = "reading"
  /\ AttemptEnds("online", NewReportDue)
  /\ UNCHANGED <<presWire, presEnds>>

\* PRESENCE_SEQUENCE_STALE: the next report takes a new sequence number.
AttemptIsStale ==
  /\ presFlight.stage = "stale"
  /\ AttemptFails(NewReportDue)
  /\ UNCHANGED <<presWire, presEnds>>

\* A timeout, a lost connection or an answer that cannot be read: the same
\* report again. The request may still be on its way.
AttemptGoesWrong ==
  /\ presFlight.stage \in {"sent", "reading"}
  /\ presEnds < MaxPresenceEnds
  /\ presEnds' = presEnds + 1
  /\ AttemptFails(SameReportDue(presFlight.report))
  /\ UNCHANGED presWire

\* The abort reaches an attempt that has no headers yet.
AttemptIsAborted ==
  /\ presFlight.stage = "sent" /\ presFlight.aborted
  /\ AttemptFails(NoTimer)
  /\ UNCHANGED <<presWire, presEnds>>

PresenceNext ==
  \/ StartPresence \/ StopPresence \/ SleepPresence \/ WakePresence
  \/ \E signal \in {"foreground", "panel", "collaborating"} : PresenceSignal(signal)
  \/ ReportStateChange \/ PresenceTimer \/ AttemptSent
  \/ \E report \in presWire : ServiceHolds(report)
  \/ AttemptSucceeds \/ AttemptIsStale \/ AttemptGoesWrong \/ AttemptIsAborted

-----------------------------------------------------------------------------
(* While the Runtime is awake and nothing is in flight, the next report is
   scheduled, and a published "online" is true: the newest report the service
   holds carries the present mode. Signals that come while a report is in the
   air, aborts that come too late and requests that arrive out of order may not
   break it (controller.ts:163-260). *)
PresenceIsCurrent ==
  (Reporting(presHost) /\ ~InTheAir) =>
     /\ presTimer # NoTimer
     /\ presState = "online" => presService.mode = PresenceMode(presHost)
=============================================================================
