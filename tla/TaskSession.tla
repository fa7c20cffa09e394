---- MODULE TaskSession ----
(***************************************************************************)
(* A long-horizon collaboration: the receiver's Task record with its       *)
(* session of stages, the Delegation Plan that may drive it, the run of    *)
(* the current stage in the kernel, the Workspace revisions the stages     *)
(* commit, and the requester who follows by status messages and answers    *)
(* with one instruction per stage.                                         *)
(* Source: runtime/tasks/service.ts (the long-horizon operations),         *)
(* runtime/tasks/store.ts, runtime/workspaces/store.ts, core/delegation.   *)
(* Every operation of the service is queued behind the others and loads    *)
(* the record from the store, so it is one step here; an operation that    *)
(* throws before its save leaves the stored record as it was.              *)
(***************************************************************************)
EXTENDS Naturals, Sequences, FiniteSets

CONSTANTS
    MaxStages,      \* LONG_HORIZON_LIMITS.maximumStages
    MaxSteps,       \* DELEGATION_LIMITS.maximumChildSteps
    MaxTold,        \* bound on the revisions that pauses and progress reports add to
    MaxRenewals,    \* LONG_HORIZON_LIMITS.maximumRenewals
    SessionTime,    \* bound on the clock: leases last one unit
    MaxShared,      \* bound on the commits of other Tasks in this Workspace
    MaxLetters,     \* bound on the status messages on their way
    MaxSessionStops \* bound on the crashes of the sidecar

ASSUME SessionBounds ==
    {MaxStages, MaxSteps, MaxTold, MaxRenewals, SessionTime, MaxShared, MaxLetters,
     MaxSessionStops} \subseteq Nat

VARIABLES
    session,  \* the receiver's stored record
    stageRun, \* the kernel's run of the current stage, and whether the kernel was shut down
    space,    \* the Workspace: its revision, and the one each stage's own run left
    asker,    \* the requester's stored record
    letters,  \* status messages on their way; they may be lost, repeated and reordered
    hours,    \* the clock
    stops     \* crashes so far

sessionVars == <<session, stageRun, space, asker, letters, hours, stops>>

Ended == {"completed", "failed", "canceled", "rejected"}
EndedPhases == {"completed", "failed", "canceled", "expired"}
Waiting == {"input_required", "paused"}
NoInput == 0

SessionInit ==
    /\ session = [state |-> "submitted", phase |-> "pending_approval", stage |-> 0,
                  stageState |-> "none", base |-> 1, writes |-> FALSE, ws |-> 1,
                  pause |-> FALSE, pending |-> NoInput, seen |-> {}, arts |-> {},
                  chk |-> [s \in 1 .. MaxStages |-> 0], plan |-> <<>>, planPhase |-> "none",
                  lease |-> 1, renewals |-> 0, rev |-> 0]
    /\ stageRun = [state |-> "none", shut |-> FALSE]
    /\ space = [rev |-> 1, own |-> [s \in 1 .. MaxStages |-> 0], shared |-> 0]
    /\ asker = [state |-> "submitted", rev |-> 0, stage |-> 0, lease |-> 1,
                input |-> NoInput, for |-> 0, asked |-> 0]
    /\ letters = {}
    /\ hours = 0
    /\ stops = 0

Over(h) == h.lease <= hours
StepsIn(h, s) == Cardinality({i \in DOMAIN h.plan : h.plan[i] = s})

\* What the store accepts: a plan whose phase agrees with exactly one step.
\* Anything else makes save, and so the operation, throw. (The audit limit of
\* 256 events throws too; the stages and renewals allowed stay below it.)
Storable(h) ==
    /\ h.planPhase \in {"failed", "interrupted", "canceled"} => StepsIn(h, h.planPhase) = 1
    /\ h.planPhase = "working" => StepsIn(h, "working") = 1
Save(h) == session' = IF Storable(h) THEN h ELSE session

Revised(h) == [h EXCEPT !.rev = @ + 1]
\* The plan's active step takes a new state.
StepTo(h, from, to) ==
    [h EXCEPT !.plan = [i \in DOMAIN h.plan |-> IF h.plan[i] = from THEN to ELSE h.plan[i]]]

Expired(h) ==
    LET plan == IF h.planPhase = "working"
                THEN [StepTo(h, "working", "canceled") EXCEPT !.planPhase = "canceled"] ELSE h
    IN  Revised([plan EXCEPT !.state = "rejected", !.phase = "expired", !.pause = FALSE,
                                     !.pending = NoInput])

(***************************************************************************)
(* Stages.                                                                 *)
(***************************************************************************)

\* The record of a stage that starts at the revision the record is bound to;
\* a writing stage is expected to commit exactly one revision.
StageStarted(h, writes) ==
    Revised([h EXCEPT !.stage = @ + 1, !.stageState = "working", !.base = h.ws,
                              !.writes = writes, !.phase = "working", !.state = "working",
                              !.pause = FALSE, !.pending = NoInput])

\* The first pending step of the plan starts.
FirstPending(h) == CHOOSE i \in DOMAIN h.plan :
                     h.plan[i] = "pending" /\ \A j \in 1 .. i - 1 : h.plan[j] # "pending"
startDelegationStep(h, writes) ==
    StageStarted([h EXCEPT !.plan[FirstPending(h)] = "working", !.planPhase = "working"], writes)

\* A stage that could not be stored is not handed to the kernel; a kernel
\* that was shut down refuses it, which ends the stage like a failed run.
Launched(h) ==
    IF Storable(h) THEN [stageRun EXCEPT !.state = IF stageRun.shut THEN "failed" ELSE "queued"]
    ELSE stageRun

startLongHorizonStage(h) ==
    /\ Save(h)
    /\ stageRun' = Launched(h)
    /\ UNCHANGED <<space, asker, letters, hours, stops>>

approveSession(writes) ==
    /\ session.state = "submitted" /\ ~Over(session) /\ MaxStages > 0
    /\ startLongHorizonStage(StageStarted(session, writes))

approveDelegation(n, writes) ==
    /\ session.state = "submitted" /\ ~Over(session) /\ MaxStages > 0
    /\ n \in 1 .. MaxSteps
    /\ startLongHorizonStage(
         startDelegationStep([session EXCEPT !.plan = [i \in 1 .. n |-> "pending"]], writes))

\* The receiver's user lets the next stage run on the requester's instruction.
continueLongHorizon(writes) ==
    /\ ~Over(session) /\ session.phase \in Waiting /\ session.pending # NoInput
    /\ session.stage < MaxStages
    /\ space.rev = session.ws
    /\ startLongHorizonStage(StageStarted(session, writes))

(***************************************************************************)
(* The kernel's run of the stage, seen from the service: a private         *)
(* snapshot of the granted revision, then a commit on top of exactly that  *)
(* revision before the lease ends.                                         *)
(***************************************************************************)

RunBegins ==
    /\ stageRun.state = "queued"
    /\ stageRun' = [stageRun EXCEPT !.state = IF space.rev = session.base THEN "running" ELSE "failed"]
    /\ UNCHANGED <<session, space, asker, letters, hours, stops>>

Committed ==
    [space EXCEPT !.rev = IF session.writes THEN @ + 1 ELSE @,
                  !.own[session.stage] = IF session.writes THEN space.rev + 1 ELSE session.base]
RunCompletes ==
    /\ stageRun.state = "running"
    /\ IF Over(session)
       THEN stageRun' = [stageRun EXCEPT !.state = "expired"] /\ UNCHANGED space
       ELSE IF session.writes /\ space.rev # session.base
       THEN stageRun' = [stageRun EXCEPT !.state = "failed"] /\ UNCHANGED space
       ELSE stageRun' = [stageRun EXCEPT !.state = "completed"] /\ space' = Committed
    /\ UNCHANGED <<session, asker, letters, hours, stops>>

RunFails ==
    /\ stageRun.state \in {"queued", "running"}
    /\ stageRun' = [stageRun EXCEPT !.state = "failed"]
    /\ UNCHANGED <<session, space, asker, letters, hours, stops>>

\* The kernel is shut down when an update is required; it never accepts again
\* in this process.
KernelShuts ==
    /\ ~stageRun.shut
    /\ stageRun' = [state |-> IF stageRun.state \in {"queued", "running"} THEN "canceled"
                              ELSE stageRun.state, shut |-> TRUE]
    /\ UNCHANGED <<session, space, asker, letters, hours, stops>>

\* Another Task that references this Workspace commits.
SharedCommit ==
    /\ space.shared < MaxShared
    /\ space' = [space EXCEPT !.rev = @ + 1, !.shared = @ + 1]
    /\ UNCHANGED <<session, stageRun, asker, letters, hours, stops>>

(***************************************************************************)
(* The end of a stage.                                                     *)
(***************************************************************************)

Boundary(h) == IF h.pause THEN "paused" ELSE "input_required"

Conflicted(h) ==
    LET s == [StepTo(h, "working", "failed") EXCEPT !.stageState = "failed",
              !.phase = "input_required", !.pause = FALSE,
              !.planPhase = IF h.plan = <<>> THEN @ ELSE "failed",
              !.state = IF h.plan = <<>> THEN "input_required" ELSE "failed"]
    IN  Revised(s)

\* The step's target or authority changed before it could start.
NextRefused(h) ==
    Revised([h EXCEPT !.plan[FirstPending(h)] = "failed", !.planPhase = "failed",
                      !.phase = "failed", !.pending = NoInput, !.state = "failed"])

completeDelegation(h) ==
    Revised([h EXCEPT !.planPhase = "completed", !.phase = "completed",
                              !.pending = NoInput, !.state = "completed"])

\* The output is published with a Host checkpoint at the Workspace's revision.
Published(h) ==
    [StepTo(h, "working", "completed") EXCEPT !.stageState = "completed", !.ws = space.rev,
        !.arts = @ \union {h.stage}, !.chk[h.stage] = space.rev]

StageEnds(h) ==
    Revised([h EXCEPT !.phase = Boundary(h), !.pause = FALSE,
                              !.state = "input_required"])

FailedStage(h, how) ==
    LET interrupted == how = "none"
        step == IF interrupted THEN "interrupted" ELSE how
        s == [StepTo(h, "working", step) EXCEPT !.stageState = step,
              !.pause = FALSE, !.state = "input_required", !.phase = Boundary(h)]
    IN  Revised(IF h.plan = <<>> THEN s
                        ELSE [s EXCEPT !.planPhase = IF interrupted THEN "interrupted" ELSE "failed",
                                       !.phase = "failed", !.state = "failed",
                                       !.pending = NoInput])

\* Faulty variant: any later revision will do.
RevisionReached(h) == space.rev >= h.base + (IF h.writes THEN 1 ELSE 0)

\* The compare of the Workspace's revision with the one the stage should leave.
RevisionMatches(h) == space.rev = h.base + (IF h.writes THEN 1 ELSE 0)

\* finishLongHorizonStage on what the kernel says of the stage's run.
finishLongHorizonStage ==
    LET h == session
        how == stageRun.state
        done == Published(h)
    IN  /\ h.state = "working" /\ h.stageState = "working"
        /\ how \notin {"queued", "running"}
        /\ UNCHANGED <<space, asker, letters, hours, stops>>
        /\ IF Over(h) \/ how = "expired"
           THEN Save([Expired(h) EXCEPT !.stageState = "canceled"]) /\ UNCHANGED stageRun
           ELSE IF how # "completed" THEN Save(FailedStage(h, how)) /\ UNCHANGED stageRun
           ELSE IF ~RevisionMatches(h) THEN Save(Conflicted(h)) /\ UNCHANGED stageRun
           ELSE IF done.plan = <<>> THEN Save(StageEnds(done)) /\ UNCHANGED stageRun
           ELSE IF StepsIn(done, "pending") = 0
           THEN Save(completeDelegation(done)) /\ UNCHANGED stageRun
           ELSE \/ \E writes \in BOOLEAN :
                     LET next == startDelegationStep(done, writes)
                     IN  done.stage < MaxStages /\ Save(next) /\ stageRun' = Launched(next)
                \/ Save(NextRefused(done)) /\ UNCHANGED stageRun

\* A poll: reconcile, then expire what is due. A live run's progress is
\* written to the record when it changed; a throw ends the poll.
Poll ==
    \/ finishLongHorizonStage
    \/ /\ session.state = "working" /\ stageRun.state \in {"queued", "running"}
       /\ session.rev < MaxTold
       /\ Save(Revised(session))
       /\ UNCHANGED <<stageRun, space, asker, letters, hours, stops>>
    \/ /\ session.state \notin Ended /\ Over(session)
       /\ session.state # "working" \/ stageRun.state \in {"queued", "running"}
       /\ Save(Expired(session))
       /\ UNCHANGED <<stageRun, space, asker, letters, hours, stops>>

(***************************************************************************)
(* The other operations of the receiver.                                   *)
(***************************************************************************)

rejectSession ==
    /\ session.state = "submitted" /\ ~Over(session)
    /\ Save(Revised([session EXCEPT !.state = "rejected", !.phase = "canceled"]))
    /\ UNCHANGED <<stageRun, space, asker, letters, hours, stops>>

cancelSession ==
    /\ session.state \notin Ended
    /\ LET h == [session EXCEPT !.state = "canceled", !.phase = "canceled"]
       IN  Save(Revised(IF h.plan = <<>> THEN h
                        ELSE [StepTo(h, "working", "canceled") EXCEPT !.planPhase = "canceled"]))
    /\ stageRun' = [stageRun EXCEPT !.state = IF @ \in {"queued", "running"} THEN "canceled" ELSE @]
    /\ UNCHANGED <<space, asker, letters, hours, stops>>

pauseLongHorizon ==
    /\ ~Over(session) /\ session.phase \in Waiting \union {"working"}
    /\ session.rev < MaxTold
    /\ Save(Revised(CASE session.phase = "working" -> [session EXCEPT !.pause = TRUE]
                      [] session.phase = "input_required" ->
                           [session EXCEPT !.phase = "paused"]
                      [] OTHER -> session))
    /\ UNCHANGED <<stageRun, space, asker, letters, hours, stops>>

completeLongHorizon ==
    /\ ~Over(session) /\ session.phase \in Waiting
    /\ session.pending = NoInput /\ session.arts # {}
    /\ Save(Revised([session EXCEPT !.phase = "completed", !.state = "completed"]))
    /\ UNCHANGED <<stageRun, space, asker, letters, hours, stops>>

renewLongHorizon ==
    /\ ~Over(session) /\ session.phase \in Waiting /\ session.renewals < MaxRenewals
    /\ Save(Revised([session EXCEPT !.lease = @ + 1, !.renewals = @ + 1]))
    /\ UNCHANGED <<stageRun, space, asker, letters, hours, stops>>

\* An instruction arrives: a repeated one is only acknowledged again.
receiveLongHorizonInput ==
    /\ asker.input # NoInput /\ asker.input \notin session.seen
    /\ session.state = "input_required" /\ session.phase \in Waiting
    /\ ~Over(session) /\ session.stage < MaxStages
    /\ asker.for = session.stage /\ session.pending = NoInput
    /\ Save([session EXCEPT !.pending = asker.input, !.seen = @ \union {asker.input}])
    /\ UNCHANGED <<stageRun, space, asker, letters, hours, stops>>

(***************************************************************************)
(* The requester.                                                          *)
(***************************************************************************)

Letter == [rev |-> session.rev, state |-> session.state, stage |-> session.stage,
           phase |-> session.phase, lease |-> session.lease]
SendStatus ==
    /\ session.rev > asker.rev /\ Letter \notin letters
    /\ Cardinality(letters) < MaxLetters
    /\ letters' = letters \union {Letter}
    /\ UNCHANGED <<session, stageRun, space, asker, hours, stops>>

LoseStatus ==
    /\ \E m \in letters : letters' = letters \ {m}
    /\ UNCHANGED <<session, stageRun, space, asker, hours, stops>>

\* isRemoteTransitionAllowed
TransitionAllowed(from, to) == from \notin Ended /\ to # "submitted"

\* The pending instruction is dropped when the session has moved past it.
ClearsInput(m) == m.stage > asker.for \/ m.phase \in EndedPhases

receiveSessionStatus ==
    /\ \E m \in letters :
         /\ m.rev > asker.rev /\ TransitionAllowed(asker.state, m.state)
         /\ asker' = LET a == [asker EXCEPT !.rev = m.rev, !.state = m.state, !.stage = m.stage,
                                            !.lease = m.lease]
                     IN  IF asker.input # NoInput /\ ClearsInput(m)
                         THEN [a EXCEPT !.input = NoInput] ELSE a
    /\ UNCHANGED <<session, stageRun, space, letters, hours, stops>>

submitLongHorizonInput ==
    /\ asker.state = "input_required" /\ asker.lease > hours
    /\ asker.stage < MaxStages /\ asker.input = NoInput
    /\ asker.asked < MaxStages
    /\ asker' = [asker EXCEPT !.input = asker.asked + 1, !.for = asker.stage, !.asked = @ + 1]
    /\ UNCHANGED <<session, stageRun, space, letters, hours, stops>>

\* The requester's own sweep, on the last lease it was told of.
AskerExpires ==
    /\ asker.state \notin Ended /\ asker.lease <= hours
    /\ asker' = [asker EXCEPT !.state = "rejected", !.input = NoInput]
    /\ UNCHANGED <<session, stageRun, space, letters, hours, stops>>

HoursPass ==
    /\ hours < SessionTime
    /\ hours' = hours + 1
    /\ UNCHANGED <<session, stageRun, space, asker, letters, stops>>

\* The sidecar stops and starts again: the run is gone, what was committed stays.
SidecarStops ==
    /\ stops < MaxSessionStops
    /\ stops' = stops + 1
    /\ stageRun' = [state |-> "none", shut |-> FALSE]
    /\ UNCHANGED <<session, space, asker, letters, hours>>

SessionNext ==
    \/ \E w \in BOOLEAN :
         \/ approveSession(w) \/ continueLongHorizon(w)
         \/ \E n \in 1 .. MaxSteps : approveDelegation(n, w)
    \/ RunBegins \/ RunCompletes \/ RunFails \/ KernelShuts \/ SharedCommit
    \/ Poll \/ rejectSession \/ cancelSession \/ pauseLongHorizon \/ completeLongHorizon
    \/ renewLongHorizon \/ receiveLongHorizonInput
    \/ SendStatus \/ LoseStatus \/ receiveSessionStatus \/ submitLongHorizonInput
    \/ AskerExpires \/ HoursPass \/ SidecarStops

SessionSpec == SessionInit /\ [][SessionNext]_sessionVars

(***************************************************************************)
(* Properties.                                                             *)
(***************************************************************************)

\* A Host checkpoint names the revision that the stage's own run left: output
\* is never published over a Workspace that another Task has changed since.
CheckpointIsOwnRevision ==
    \A s \in session.arts : session.chk[s] = space.own[s]

\* A requester who knows the receiver's latest revision holds an instruction
\* back only while the stage it answers is still the current one: a session
\* that moved on never leaves it waiting to be delivered.
NoInputIsStuck ==
    asker.input # NoInput /\ asker.rev = session.rev
      => asker.for = session.stage /\ session.phase \notin EndedPhases

\* What a session publishes is its own, and what it is told reaches it.
SessionIsSound == CheckpointIsOwnRevision /\ NoInputIsStuck
=============================================================================
