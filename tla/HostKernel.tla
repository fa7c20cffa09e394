------------------------------ MODULE HostKernel ------------------------------
(***************************************************************************)
(* The Host Agent kernel that runs the Tasks a host has approved, with the *)
(* three things it shares with the rest of the runtime: the durable        *)
(* registry of Execution Handles, the collaboration Workspace, and the     *)
(* Task records of the Task transport (one state each; TaskTransport has   *)
(* the rest of them).                                                      *)
(*                                                                         *)
(* A run is one call of TetiHostAgentKernel.run.  It awaits at every stage, *)
(* so that users, timers, the outbox flush and the other runs act between  *)
(* any two of its steps.  Handle operations are queued by the registry and *)
(* Workspace operations by the store, so each of them is one step.         *)
(***************************************************************************)
EXTENDS Naturals, Sequences, FiniteSets

CONSTANTS
  Tasks,          \* the approved Tasks; all of them use one Workspace
  AgentOf,        \* the Child Agent that each Task runs on
  Checkpointing,  \* the Tasks whose Connector supports checkpoints and resume
  Settings,       \* the settings to consider: maxConcurrentTasks of the kernel,
                  \* maxConcurrentExecutions and maxQueuedExecutions of the
                  \* Connectors, and the bounds under them: executions of
                  \* one Task and faults that may happen
  MaxRetained,    \* maxRetainedTasks of the kernel
  MaxEpoch,       \* the largest of those bounds on executions
  MaxStops        \* bound: crashes and shutdowns

ASSUME KernelAssumption ==
  /\ IsFiniteSet(Tasks) /\ DOMAIN AgentOf = Tasks /\ Checkpointing \subseteq Tasks
  /\ Settings \subseteq [concurrent : Nat \ {0}, child : Nat \ {0}, queue : Nat,
                          epochs : 1 .. MaxEpoch,
                          faults : SUBSET {"timeout", "output_limit", "cancel", "crash", "shutdown"}]
  /\ MaxRetained \in Nat \ {0}
  /\ MaxEpoch \in Nat \ {0} /\ MaxStops \in Nat

VARIABLES
  setting,     \* the settings of this runtime, one of Settings
  record,     \* state of the host's record of each Task
  binding,    \* Workspace revision its grant is for, 0 before approval
  handle,     \* its Execution Handle: epoch, state, explicit checkpoint
  run,        \* its runs, by epoch
  tracked,    \* the kernel's active map: the epoch of the control, 0 if absent
  queues,     \* childQueues: a sequence of the Agents' non-empty queues
  history,    \* the kernel's tasks map: the epoch of each Task's entry, 0 if it
              \* has none, and the order of the entries
  revision,   \* revision of the Workspace
  commits,    \* history variable: the runs that advanced it, in order
  host,       \* "up", "stopping" or "down"
  stops,      \* crashes and shutdowns so far
  orphans     \* Tasks whose child outlived an orderly shutdown

vars == <<setting, record, binding, handle, run, tracked, queues, history, revision,
          commits, host, stops, orphans>>

Epochs == 1 .. MaxEpoch
Ended == {"completed", "failed", "canceled"}

\* Stages of a run.  "prepare" to "commit" are the body of run, "cleanup",
\* "finish" and "discard" its finally block, "done" a promise whose handler
\* (finishExecution) is still to run.
Trying == {"prepare", "snapshot", "spec", "marking", "execute", "terminating",
           "persist", "commit"}
Alive == {"running", "stopping"}

NoRun == [at |-> "none", machine |-> "none", reason |-> "none", child |-> "none", base |-> 0]

-----------------------------------------------------------------------------
(* The registry: DurableExecutionRegistry                                  *)

isTerminal(h) == h.state \in Ended
isCurrent(t, e) == handle[t].epoch = e /\ ~isTerminal(handle[t])

\* transition and cancel: only the current epoch, and never out of an end.
transition(h, e, next) ==
  IF h.epoch = e /\ ~isTerminal(h) THEN [h EXCEPT !.state = next] ELSE h

cancelHandle(h) == IF h.epoch = 0 \/ isTerminal(h) THEN h ELSE [h EXCEPT !.state = "canceled"]

\* prepare: a first handle, or the next epoch of one with a checkpoint.
Preparable(t, resume) ==
  IF resume
  THEN handle[t].checkpoint /\ handle[t].state \in {"interrupted", "failed"}
  ELSE handle[t].epoch = 0
prepare(t) == [handle[t] EXCEPT !.epoch = @ + 1, !.state = "queued"]

\* captureCheckpoint: of the current execution, from its Workspace.
captureCheckpoint(t, e) ==
  /\ t \in Checkpointing /\ isCurrent(t, e)
  /\ handle' = [handle EXCEPT ![t].checkpoint = TRUE]

-----------------------------------------------------------------------------
(* The Workspace: FileCollaborationWorkspaceStore                          *)

\* createSnapshot copies the granted revision if it is still the current one.
createSnapshot(t) == binding[t] = revision

\* commitSnapshot compares revisions and makes the snapshot the next one.
commitSnapshot(t, e) ==
  /\ run[t][e].base = revision
  /\ revision' = revision + 1
  /\ commits' = Append(commits, <<t, e>>)

-----------------------------------------------------------------------------
(* Admission, queues and history of the kernel                             *)

NoHistory == [epoch |-> [t \in Tasks |-> 0], order |-> <<>>]
InHistory(t) == history.epoch[t] # 0
getTask(t) == IF InHistory(t) THEN run[t][history.epoch[t]].machine ELSE "none"

ActiveTasks(a) == {t \in Tasks : a[t] # 0}
ActiveFor(a, agent) == {t \in ActiveTasks(a) : AgentOf[t] = agent}
HasRoom(a, agent) ==
  /\ Cardinality(ActiveTasks(a)) < setting.concurrent
  /\ Cardinality(ActiveFor(a, agent)) < setting.child

\* The queued map, and its entry for a Task.
Queued(t) == \E e \in Epochs : run[t][e].at = "queued"
QueuedEpoch(t) == CHOOSE e \in Epochs : run[t][e].at = "queued"

QueueOf(agent) == {i \in DOMAIN queues : AgentOf[Head(queues[i])] = agent}
QueueLength(agent) == IF QueueOf(agent) = {} THEN 0 ELSE Len(queues[CHOOSE i \in QueueOf(agent) : TRUE])

Enqueue(t) ==
  IF QueueOf(AgentOf[t]) = {} THEN Append(queues, <<t>>)
  ELSE [queues EXCEPT ![CHOOSE i \in QueueOf(AgentOf[t]) : TRUE] = Append(@, t)]

NonEmpty(q) == q # <<>>
Dequeue(qs, gone) ==
  LET Other(u) == u \notin gone IN
  SelectSeq([i \in DOMAIN qs |-> SelectSeq(qs[i], Other)], NonEmpty)

\* A variant that does not look for waiting Tasks when a run ends.
drainNothing(a) == {}

\* drainQueues: the first waiting Task of each Agent that has room, in the order
\* of childQueues, while the kernel has room.  The result is the set to start.
drainQueues(a) ==
  LET Ready == {i \in DOMAIN queues :
                  LET t == Head(queues[i]) IN
                  Queued(t) /\ Cardinality(ActiveFor(a, AgentOf[t])) < setting.child}
      Started == {i \in Ready :
                    Cardinality(ActiveTasks(a)) + Cardinality({j \in Ready : j < i})
                      < setting.concurrent}
  IN  IF host = "up" THEN {Head(queues[i]) : i \in Started} ELSE {}

Forgetting(h, gone) ==
  LET Kept(t) == t \notin gone IN
  [epoch |-> [t \in Tasks |-> IF t \in gone THEN 0 ELSE h.epoch[t]],
   order |-> SelectSeq(h.order, Kept)]

\* pruneHistory: the oldest ended Tasks that are not active, down to MaxRetained.
pruneHistory(h, r, a) ==
  LET Size == Cardinality({t \in Tasks : h.epoch[t] # 0})
      Old == {i \in DOMAIN h.order :
                LET t == h.order[i] IN r[t][h.epoch[t]].machine \in Ended /\ a[t] = 0}
      Gone == {i \in Old : MaxRetained + Cardinality({j \in Old : j < i}) < Size}
  IN  IF Size <= MaxRetained THEN h ELSE Forgetting(h, {h.order[i] : i \in Gone})

\* execute(t, e): refused, queued or started.  A refused call is a rejected
\* promise: there is no machine, and its handler sees a null result.
Refused(t, e) ==
  \/ host # "up"
  \/ InHistory(t) /\ (getTask(t) \notin Ended \/ e <= 1)
  \/ ~HasRoom(tracked, AgentOf[t]) /\ QueueLength(AgentOf[t]) >= setting.queue

Forgotten(t) == Forgetting(history, {t})
Remembered(t, e) ==
  [epoch |-> [history.epoch EXCEPT ![t] = e], order |-> Append(Forgotten(t).order, t)]

execute(t, e) ==
  \/ /\ Refused(t, e)
     /\ run' = [run EXCEPT ![t][e] = [NoRun EXCEPT !.at = "done", !.machine = "refused"]]
     /\ history' = IF host = "up" /\ e > 1 /\ getTask(t) \in Ended
                   THEN Forgotten(t) ELSE history
     /\ UNCHANGED <<tracked, queues>>
  \/ /\ ~Refused(t, e) /\ HasRoom(tracked, AgentOf[t])
     /\ run' = [run EXCEPT ![t][e] = [NoRun EXCEPT !.at = "prepare", !.machine = "working"]]
     /\ tracked' = [tracked EXCEPT ![t] = e]
     /\ history' = Remembered(t, e)
     /\ UNCHANGED queues
  \/ /\ ~Refused(t, e) /\ ~HasRoom(tracked, AgentOf[t])
     /\ run' = [run EXCEPT ![t][e] = [NoRun EXCEPT !.at = "queued", !.machine = "submitted"]]
     /\ queues' = Enqueue(t)
     /\ history' = Remembered(t, e)
     /\ UNCHANGED tracked

-----------------------------------------------------------------------------
(* What users and the Task transport do                                    *)

Approve(t) ==
  /\ host = "up" /\ record[t] = "pending" /\ Preparable(t, FALSE)
  /\ record' = [record EXCEPT ![t] = "working"]
  /\ binding' = [binding EXCEPT ![t] = revision]
  /\ handle' = [handle EXCEPT ![t] = prepare(t)]
  /\ execute(t, 1)
  /\ UNCHANGED <<revision, commits, host, stops, orphans>>

Resume(t) ==
  /\ host = "up" /\ record[t] = "input_required" /\ Preparable(t, TRUE)
  /\ handle[t].epoch < setting.epochs
  /\ record' = [record EXCEPT ![t] = "working"]
  /\ handle' = [handle EXCEPT ![t] = prepare(t)]
  /\ execute(t, handle[t].epoch + 1)
  /\ UNCHANGED <<binding, revision, commits, host, stops, orphans>>

\* requestTermination: the first reason counts, and only before the end.
requestTermination(r, reason) ==
  IF r.reason = "none" /\ r.machine \notin Ended THEN [r EXCEPT !.reason = reason] ELSE r

Working(t) == IF tracked[t] = 0 THEN FALSE ELSE run[t][tracked[t]].machine \notin Ended

\* The user cancels a Task: kernel.cancel, then the record.
Cancel(t) ==
  /\ "cancel" \in setting.faults /\ host = "up" /\ record[t] \in {"working", "input_required"}
  /\ record' = [record EXCEPT ![t] = "canceled"]
  /\ \/ /\ Queued(t)
        /\ queues' = Dequeue(queues, {t})
        /\ LET e == QueuedEpoch(t) IN
           /\ run' = [run EXCEPT ![t][e].at = "done", ![t][e].machine = "canceled"]
           /\ handle' = [handle EXCEPT ![t] = transition(@, e, "canceled")]
        /\ history' = pruneHistory(history, run', tracked)
     \/ /\ ~Queued(t) /\ Working(t)
        /\ handle' = [handle EXCEPT ![t] = cancelHandle(@)]
        /\ run' = [run EXCEPT ![t][tracked[t]] = requestTermination(@, "cancel")]
        /\ UNCHANGED <<queues, history>>
     \/ /\ ~Queued(t) /\ ~Working(t)
        /\ UNCHANGED <<handle, run, queues, history>>
  /\ UNCHANGED <<binding, tracked, revision, commits, host, stops, orphans>>

\* finishSingleStageExecution: what a machine's end m makes of the record.
FinishedState(m, h, e) ==
  CASE m = "completed" -> "completed"
    [] m # "completed" /\ h.epoch = e /\ h.state = "failed" /\ h.checkpoint -> "input_required"
    [] OTHER -> IF m = "canceled" THEN "canceled" ELSE "failed"

\* finishExecution: the handler of a run's promise, fenced by the epoch.
Finish(t, e) ==
  /\ run[t][e].at = "done"
  /\ run' = [run EXCEPT ![t][e].at = "reported"]
  /\ record' = IF record[t] \in Ended \/ handle[t].epoch # e THEN record
               ELSE [record EXCEPT ![t] = FinishedState(run[t][e].machine, handle[t], e)]
  /\ UNCHANGED <<binding, handle, tracked, queues, history, revision, commits,
                 host, stops, orphans>>

\* reconcileExecutionHandles and reconcileInterruptedExecutions, as the flush
\* runs them.  machine[t] is what the kernel knows of a Task, "none" if nothing.
Interrupted(live) ==
  [t \in Tasks |-> IF handle[t].epoch = 0 \/ isTerminal(handle[t]) \/ t \in live
                   THEN handle[t] ELSE [handle[t] EXCEPT !.state = "interrupted"]]

Reconciled(h, machine) ==
  [t \in Tasks |->
     CASE record[t] # "working" -> record[t]
       [] record[t] = "working" /\ machine[t] \in {"submitted", "working"} -> "working"
       [] record[t] = "working" /\ machine[t] \in Ended -> FinishedState(machine[t], h[t], h[t].epoch)
       [] OTHER -> IF h[t].state = "interrupted" /\ h[t].checkpoint
                   THEN "input_required" ELSE "failed"]

Flush ==
  /\ host = "up"
  /\ handle' = Interrupted({t \in Tasks : tracked[t] # 0 \/ Queued(t)})
  /\ record' = Reconciled(handle', [t \in Tasks |-> getTask(t)])
  /\ UNCHANGED <<binding, run, tracked, queues, history, revision, commits,
                 host, stops, orphans>>

-----------------------------------------------------------------------------
(* The stages of a run                                                     *)

Advance(t, e, r) ==
  /\ run' = [run EXCEPT ![t][e] = r]
  /\ UNCHANGED <<record, binding, tracked, queues, history, host, stops, orphans>>

\* The machine's end; what follows is the finally block.
End(r, m) == [r EXCEPT !.machine = m, !.at = "cleanup"]
finishTermination(r) ==
  End(r, IF r.reason \in {"cancel", "shutdown"} THEN "canceled" ELSE "failed")
\* The outer catch of run.
Caught(r) == IF r.reason # "none" THEN finishTermination(r) ELSE End(r, "failed")

\* ensurePreparedExecution
RunPrepare(t, e) ==
  /\ run[t][e].at = "prepare"
  /\ Advance(t, e, IF handle[t].epoch = e /\ handle[t].state = "queued"
                   THEN [run[t][e] EXCEPT !.at = "snapshot"] ELSE Caught(run[t][e]))
  /\ UNCHANGED <<handle, revision, commits>>

\* A variant that takes the Workspace as it is, whatever revision was granted.
RunSnapshotLatest(t, e) ==
  /\ run[t][e].at = "snapshot"
  /\ Advance(t, e, [run[t][e] EXCEPT !.at = "spec", !.base = revision])
  /\ UNCHANGED <<handle, revision, commits>>

\* createSnapshot, the input images and the memory of the Child Agent; any of
\* them may fail, and the snapshot does when the Workspace has moved on.
RunSnapshot(t, e) ==
  /\ run[t][e].at = "snapshot"
  /\ \/ /\ createSnapshot(t)
        /\ Advance(t, e, [run[t][e] EXCEPT !.at = "spec", !.base = revision])
     \/ /\ ~createSnapshot(t)
        /\ Advance(t, e, Caught(run[t][e]))
     \/ /\ createSnapshot(t)
        /\ Advance(t, e, [End(run[t][e], "failed") EXCEPT !.base = revision])
  /\ UNCHANGED <<handle, revision, commits>>

\* createExecutionSpec races the termination; when it wins, the child starts.
RunSpec(t, e) ==
  /\ run[t][e].at = "spec"
  /\ \/ run[t][e].reason # "none" /\ Advance(t, e, finishTermination(run[t][e]))
     \/ Advance(t, e, End(run[t][e], "failed"))
     \/ Advance(t, e, [run[t][e] EXCEPT !.at = "marking", !.child = "running"])
  /\ UNCHANGED <<handle, revision, commits>>

\* markRunning, the output listeners and the input; a failure of either leaves
\* the child to the finally block.
RunMarkRunning(t, e) ==
  /\ run[t][e].at = "marking"
  /\ \/ /\ handle' = [handle EXCEPT ![t] = transition(@, e, "running")]
        /\ \/ Advance(t, e, [run[t][e] EXCEPT !.at = "execute"])
           \/ Advance(t, e, Caught(run[t][e]))
     \/ /\ Advance(t, e, End(run[t][e], "failed"))
        /\ UNCHANGED handle
  /\ UNCHANGED <<revision, commits>>

\* The termination wins the race for the child: terminate(cancelGraceMs).
RunTerminate(t, e) ==
  /\ run[t][e].at = "execute" /\ run[t][e].reason # "none" /\ run[t][e].child \in Alive
  /\ Advance(t, e, [run[t][e] EXCEPT !.at = "terminating", !.child = "stopping"])
  /\ UNCHANGED <<handle, revision, commits>>

RunTerminated(t, e) ==
  /\ run[t][e].at = "terminating" /\ run[t][e].child = "gone"
  /\ Advance(t, e, finishTermination(run[t][e]))
  /\ UNCHANGED <<handle, revision, commits>>

\* The child has exited: termination, fence, deadline, exit code and output.
RunExited(t, e) ==
  /\ run[t][e].at = "execute" /\ run[t][e].child = "gone"
  /\ \/ run[t][e].reason # "none" /\ Advance(t, e, finishTermination(run[t][e]))
     \/ /\ run[t][e].reason = "none" /\ ~isCurrent(t, e)
        /\ Advance(t, e, End(run[t][e], "canceled"))
     \/ /\ run[t][e].reason = "none" /\ isCurrent(t, e)
        /\ \/ Advance(t, e, [run[t][e] EXCEPT !.at = "persist"])
           \/ Advance(t, e, End(run[t][e], "failed"))
  /\ UNCHANGED <<handle, revision, commits>>

\* The artifact is decoded and stored; the fence and the deadline once more.
RunPersist(t, e) ==
  /\ run[t][e].at = "persist"
  /\ \/ ~isCurrent(t, e) /\ Advance(t, e, End(run[t][e], "canceled"))
     \/ isCurrent(t, e) /\ Advance(t, e, [run[t][e] EXCEPT !.at = "commit"])
     \/ Advance(t, e, End(run[t][e], "failed"))
  /\ UNCHANGED <<handle, revision, commits>>

\* A variant that completes without the commit.
CompleteUncommitted(t, e) ==
  /\ run[t][e].at = "commit"
  /\ Advance(t, e, End(run[t][e], "completed"))
  /\ UNCHANGED <<handle, revision, commits>>

\* The Workspace takes the snapshot; then the machine completes, whatever
\* was requested meanwhile.
RunCommit(t, e) ==
  /\ run[t][e].at = "commit"
  /\ \/ /\ commitSnapshot(t, e)
        /\ Advance(t, e, [End(run[t][e], "completed") EXCEPT !.base = 0])
     \/ Advance(t, e, End(run[t][e], "failed")) /\ UNCHANGED <<revision, commits>>
  /\ UNCHANGED handle

\* The finally block: the child is terminated and a checkpoint captured, if the
\* Connector has one, the run got as far as its context and the handle allows.
RunCleanup(t, e) ==
  /\ run[t][e].at = "cleanup" /\ run[t][e].child \in {"none", "gone"}
  /\ \/ UNCHANGED handle
     \/ run[t][e].base # 0 /\ captureCheckpoint(t, e)
  /\ Advance(t, e, [run[t][e] EXCEPT !.at = "finish"])
  /\ UNCHANGED <<revision, commits>>

RunFinish(t, e) ==
  /\ run[t][e].at = "finish"
  /\ handle' = [handle EXCEPT ![t] = transition(@, e, run[t][e].machine)]
  /\ Advance(t, e, [run[t][e] EXCEPT !.at = "discard"])
  /\ UNCHANGED <<revision, commits>>

\* discardSnapshot, then without an await: the active entry of the Task goes,
\* history is pruned and waiting Tasks start.
RunDiscard(t, e) ==
  /\ run[t][e].at = "discard"
  /\ LET free == [tracked EXCEPT ![t] = 0]
         started == drainQueues(free)
         ended == [run EXCEPT ![t][e] = [NoRun EXCEPT !.at = "done", !.machine = run[t][e].machine,
                                       !.child = IF run[t][e].child \in Alive THEN "running" ELSE "none"]]
     IN
     /\ tracked' = [u \in Tasks |-> IF u \in started THEN QueuedEpoch(u) ELSE free[u]]
     /\ run' = [u \in Tasks |->
                  IF u \in started
                  THEN [ended[u] EXCEPT ![QueuedEpoch(u)].at = "prepare",
                                        ![QueuedEpoch(u)].machine = "working"]
                  ELSE ended[u]]
     /\ queues' = Dequeue(queues, started)
     /\ history' = pruneHistory(history, ended, free)
  /\ UNCHANGED <<record, binding, handle, revision, commits, host, stops, orphans>>

-----------------------------------------------------------------------------
(* Children, timers, and the end of the runtime                            *)

\* The child exits by itself, on SIGTERM, or on the SIGKILL after the grace.
ChildExits(t, e) ==
  /\ run[t][e].child \in Alive
  /\ Advance(t, e, [run[t][e] EXCEPT !.child = "gone"])
  /\ UNCHANGED <<handle, revision, commits>>

TimeoutFires(t, e) ==
  /\ "timeout" \in setting.faults /\ run[t][e].at \in Trying /\ run[t][e].reason = "none"
  /\ Advance(t, e, requestTermination(run[t][e], "timeout"))
  /\ UNCHANGED <<handle, revision, commits>>

OutputLimitReached(t, e) ==
  /\ "output_limit" \in setting.faults /\ run[t][e].at = "execute" /\ run[t][e].reason = "none"
  /\ run[t][e].child = "running"
  /\ Advance(t, e, requestTermination(run[t][e], "output_limit"))
  /\ UNCHANGED <<handle, revision, commits>>

\* shutdown: queued Tasks end, active ones are told to, and the children that
\* have been started are killed at once.
Shutdown ==
  /\ "shutdown" \in setting.faults /\ host = "up" /\ stops < MaxStops
  /\ host' = "stopping" /\ stops' = stops + 1
  /\ LET Stopped(r, t, e) ==
           CASE r.at = "queued" -> [r EXCEPT !.at = "done", !.machine = "canceled"]
             [] tracked[t] = e -> [requestTermination(r, "shutdown")
                                     EXCEPT !.child = IF @ \in Alive THEN "gone" ELSE @]
             [] OTHER -> r
     IN  run' = [t \in Tasks |-> [e \in Epochs |-> Stopped(run[t][e], t, e)]]
  /\ handle' = [t \in Tasks |-> IF tracked[t] # 0 \/ Queued(t)
                                THEN cancelHandle(handle[t]) ELSE handle[t]]
  /\ queues' = <<>>
  /\ UNCHANGED <<record, binding, tracked, history, revision, commits, orphans>>

MemoryIsLost ==
  /\ run' = [t \in Tasks |-> [e \in Epochs |-> NoRun]]
  /\ tracked' = [t \in Tasks |-> 0]
  /\ queues' = <<>> /\ history' = NoHistory

\* The process exits: when every completion has settled or at the deadline of
\* stop, whichever is first.  A child still there is nobody's any more.
Exit ==
  /\ host = "stopping"
  /\ host' = "down"
  /\ orphans' = {t \in Tasks : \E e \in Epochs : run[t][e].child \in Alive}
  /\ MemoryIsLost
  /\ UNCHANGED <<record, binding, handle, revision, commits, stops>>

Crash ==
  /\ "crash" \in setting.faults /\ host = "up" /\ stops < MaxStops
  /\ host' = "down" /\ stops' = stops + 1
  /\ MemoryIsLost
  /\ UNCHANGED <<record, binding, handle, revision, commits, orphans>>

\* A new process: snapshots are removed, handles and records are reconciled
\* before the first operation.
Start ==
  /\ host = "down"
  /\ host' = "up"
  /\ handle' = Interrupted({})
  /\ record' = Reconciled(handle', [t \in Tasks |-> "none"])
  /\ UNCHANGED <<binding, run, tracked, queues, history, revision, commits, stops, orphans>>

-----------------------------------------------------------------------------
Init ==
  /\ setting \in Settings
  /\ record = [t \in Tasks |-> "pending"]
  /\ binding = [t \in Tasks |-> 0]
  /\ handle = [t \in Tasks |-> [epoch |-> 0, state |-> "none", checkpoint |-> FALSE]]
  /\ run = [t \in Tasks |-> [e \in Epochs |-> NoRun]]
  /\ tracked = [t \in Tasks |-> 0]
  /\ queues = <<>> /\ history = NoHistory /\ revision = 1 /\ commits = <<>>
  /\ host = "up" /\ stops = 0 /\ orphans = {}

RunStep(t, e) ==
  \/ RunPrepare(t, e) \/ RunSnapshot(t, e) \/ RunSpec(t, e) \/ RunMarkRunning(t, e)
  \/ RunTerminate(t, e) \/ RunTerminated(t, e) \/ RunExited(t, e) \/ RunPersist(t, e)
  \/ RunCommit(t, e) \/ RunCleanup(t, e) \/ RunFinish(t, e) \/ RunDiscard(t, e)

Step ==
  \/ \E t \in Tasks : Approve(t) \/ Resume(t) \/ Cancel(t)
  \/ \E t \in Tasks, e \in Epochs :
       \/ RunStep(t, e) \/ Finish(t, e)
       \/ ChildExits(t, e) \/ TimeoutFires(t, e) \/ OutputLimitReached(t, e)
  \/ Flush \/ Shutdown \/ Exit \/ Crash \/ Start

Next == Step /\ UNCHANGED setting

\* The event loop runs what is ready; a child ends by itself or is made to
\* (every run has a timeout); a stopped runtime is started again.
Fairness ==
  /\ \A t \in Tasks, e \in Epochs :
       /\ WF_vars(RunStep(t, e) /\ UNCHANGED setting)
       /\ WF_vars(Finish(t, e) /\ UNCHANGED setting)
       /\ WF_vars(ChildExits(t, e) /\ UNCHANGED setting)
  /\ WF_vars(Exit /\ UNCHANGED setting) /\ WF_vars(Start /\ UNCHANGED setting)

Spec == Init /\ [][Next]_vars /\ Fairness

-----------------------------------------------------------------------------
(* Properties                                                              *)

\* A Task changes the Workspace at most once, across resumes, crashes and
\* restarts: a resumed Task keeps the revision it was approved for, so its second
\* attempt conflicts with the commit of its first (resume, commitSnapshot).
EffectAtMostOnce ==
  \A i, j \in DOMAIN commits : commits[i][1] = commits[j][1] => i = j

\* The Tasks whose work is in the Workspace.
Effects == {commits[i][1] : i \in DOMAIN commits}

\* Two executions of one Task never have a child at the same time: a new epoch is
\* prepared only after the child of the old one is gone (terminate, finally).
OneChildPerTask ==
  \A t \in Tasks : Cardinality({e \in Epochs : run[t][e].child \in Alive}) <= 1

\* A first execution is in the active map as long as it lasts, so that cancel
\* and shutdown reach it, and the limits count it.
FirstRunsAreTracked ==
  \A t \in Tasks : run[t][1].at \in Trying => tracked[t] = 1

\* Nothing of an execution happens twice: neither its effect nor its child, and
\* no first execution escapes the kernel's limits.
OneExecution == EffectAtMostOnce /\ OneChildPerTask /\ FirstRunsAreTracked

\* A Task that waits for its Agent starts or ends (drainQueues).
QueuedTaskStarts ==
  \A t \in Tasks : Queued(t) ~> ~Queued(t)
=============================================================================
