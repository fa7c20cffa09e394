--------------------------- MODULE TaskReadModel ---------------------------
(***************************************************************************)
(* What the desktop is shown of the Tasks while commands change them:      *)
(* runtime/tasks/read-model.ts, the disposable projection of the durable   *)
(* Task store.  Commands take turns (connections.ts serial), but reads of  *)
(* the App take none: a read loads the store, a command commits and        *)
(* publishes meanwhile, and the read goes on with what it had loaded.      *)
(*                                                                         *)
(* A record is what the projection tells apart: its state, how far the     *)
(* request's delivery got, whether verified artifacts are here, and its    *)
(* deadline.  What a command may do to a record is TaskTransport's         *)
(* business; here it leaves any record a Task can have.  Reads wait for    *)
(* initializeReadModel, so the branches of the projection for a view that  *)
(* was never published are not reached and are left out.  A chmod of the   *)
(* store file after its rename is taken to succeed.                        *)
(***************************************************************************)
EXTENDS Naturals, FiniteSets

CONSTANTS
  ReadTasks,        \* the Tasks
  Readers,          \* App calls that may be under way together
  MaxCachedDetails, \* MAX_CACHED_TASK_DETAILS
  ViewDeadline,     \* when the Tasks of this instance expire
  MaxViewTime,      \* bound on the clock
  MaxCommits        \* bound on commands that save

ASSUME ReadModelBounds ==
  /\ MaxCachedDetails \in Nat \ {0}
  /\ {ViewDeadline, MaxViewTime, MaxCommits} \subseteq Nat

VARIABLES
  taskFile,   \* the durable store: the records of the file
  taskCommand,\* the command whose turn it is, and the records it saves
  taskView,   \* summaries, cached details with their place in the order of use, generation
  taskReads,  \* per App call: what it asked for and what it has loaded
  shownTime,  \* the clock
  commits     \* commands so far

readVars == <<taskFile, taskCommand, taskView, taskReads, shownTime, commits>>

NoTask == [state |-> "none"]

(* The records an outgoing single-stage Task goes through.                 *)
TaskShapes ==
  [state : {"submitted"}, delivery : {"queued", "sent"}, artifacts : {FALSE}]
    \cup [state : {"working"}, delivery : {"acknowledged"}, artifacts : BOOLEAN]
    \cup [state : {"completed"}, delivery : {"acknowledged"}, artifacts : {TRUE}]
    \cup [state : {"rejected"}, delivery : {"expired"}, artifacts : BOOLEAN]

Stores == [ReadTasks -> TaskShapes \cup {NoTask}]

----------------------------------------------------------------------------
(* Projections.                                                            *)

(* A completion whose artifacts are verified counts, whatever status came. *)
canRecoverVerifiedSingleStageCompletion(r) == r # NoTask /\ r.artifacts

shouldProjectExpiry(r, now) ==
  /\ \/ r.state \notin {"completed", "failed", "rejected", "canceled"}
     \/ r.delivery \in {"queued", "send_failed"}
  /\ ViewDeadline <= now

AsExpired == [state |-> "rejected", delivery |-> "expired"]

AsCompleted == [state |-> "completed", delivery |-> "acknowledged"]

(* What App-facing reads show of a record at a time.                       *)
projectCurrentRecord(r, now) ==
  CASE canRecoverVerifiedSingleStageCompletion(r) -> AsCompleted
    [] ~canRecoverVerifiedSingleStageCompletion(r) /\ shouldProjectExpiry(r, now) -> AsExpired
    [] OTHER -> [state |-> r.state, delivery |-> r.delivery]

(* What publish keeps of a record for the list, artifacts reduced to the   *)
(* verdict on them.                                                        *)
projectSummary(r) ==
  IF r = NoTask THEN NoTask
  ELSE [state |-> r.state, delivery |-> r.delivery,
        verified |-> canRecoverVerifiedSingleStageCompletion(r)]

projectCurrentSummary(s, now) ==
  CASE s.verified -> AsCompleted
    [] ~s.verified /\ shouldProjectExpiry(s, now) -> AsExpired
    [] OTHER -> [state |-> s.state, delivery |-> s.delivery]

----------------------------------------------------------------------------
(* The cached view.                                                        *)

NoView == [summaries |-> [t \in ReadTasks |-> NoTask], details |-> {}, generation |-> 0]

CachedTasks == {d.task : d \in taskView.details}

(* The place of a detail in the Map's order: how many were used since.     *)
Place(d, details) == Cardinality({e \in details : e.place < d.place})

(* publish: new summaries, and every cached detail refreshed or dropped.   *)
publish(view, store) ==
  [summaries |-> [t \in ReadTasks |-> projectSummary(store[t])],
   details |-> LET kept == {d \in view.details : store[d.task] # NoTask}
               IN {[task |-> d.task, record |-> store[d.task], place |-> Place(d, kept)] : d \in kept},
   generation |-> view.generation + 1]

(* remember: the detail is the one used last, and the oldest falls out.    *)
remember(view, t, record) ==
  LET others == {d \in view.details : d.task # t}
      older == {[d EXCEPT !.place = Place(d, others) + 1] : d \in others}
  IN [view EXCEPT !.details = {[task |-> t, record |-> record, place |-> 0]}
                                \cup {d \in older : d.place < MaxCachedDetails}]

(* The same without the check of the generation: a mutant.                 *)
GetRemembersAlways(read) ==
  IF read.store[read.task] # NoTask
  THEN remember(taskView, read.task, read.store[read.task])
  ELSE taskView

(* get after its load: only what no publication has overtaken is kept.     *)
GetRemembers(read) ==
  IF read.store[read.task] # NoTask /\ read.generation = taskView.generation
  THEN remember(taskView, read.task, read.store[read.task])
  ELSE taskView

----------------------------------------------------------------------------
(* Commands.                                                               *)

CommandIdle == [stage |-> "idle"]

(* initializeReadModel: the store as recovery leaves it is saved or, when  *)
(* nothing changed, published as it is; until then nothing else runs.      *)
InitializeReadModel ==
  /\ taskCommand.stage = "starting"
  /\ \/ \E store \in Stores :
          /\ \A t \in ReadTasks : (store[t] = NoTask) <=> (taskFile[t] = NoTask)
          /\ store # taskFile
          /\ taskCommand' = [stage |-> "saving", store |-> store, first |-> TRUE]
          /\ UNCHANGED taskView
     \/ /\ taskView' = publish(taskView, taskFile)
        /\ taskCommand' = CommandIdle
  /\ UNCHANGED <<taskFile, taskReads, shownTime, commits>>

(* A command has loaded the store, changed or added one record, or dropped *)
(* one to make room, and saves.                                            *)
CommandSaves ==
  /\ taskCommand = CommandIdle
  /\ commits < MaxCommits
  /\ \E t \in ReadTasks, r \in TaskShapes \cup {NoTask} :
       /\ r # taskFile[t]
       /\ taskCommand' = [stage |-> "saving", store |-> [taskFile EXCEPT ![t] = r], first |-> FALSE]
  /\ commits' = commits + 1
  /\ UNCHANGED <<taskFile, taskView, taskReads, shownTime>>

(* save's rename: the file holds the new records; publish has not run.     *)
SaveRenames ==
  /\ taskCommand.stage = "saving"
  /\ taskFile' = taskCommand.store
  /\ taskCommand' = [taskCommand EXCEPT !.stage = "renamed"]
  /\ UNCHANGED <<taskView, taskReads, shownTime, commits>>

(* PublishingTaskTransportStore.save after the source's save.              *)
SavePublishes ==
  /\ taskCommand.stage = "renamed"
  /\ taskView' = publish(taskView, taskCommand.store)
  /\ taskCommand' = CommandIdle
  /\ UNCHANGED <<taskFile, taskReads, shownTime, commits>>

(* The write of the temporary file fails: the command fails and nothing is *)
(* published; the first save failing fails every later read and command.   *)
SaveFails ==
  /\ taskCommand.stage = "saving"
  /\ taskCommand' = IF taskCommand.first THEN [stage |-> "unavailable"] ELSE CommandIdle
  /\ UNCHANGED <<taskFile, taskView, taskReads, shownTime, commits>>

----------------------------------------------------------------------------
(* Reads of the App.                                                       *)

NoAppRead == [op |-> "none"]

ViewInitialized == taskCommand.stage \in {"idle", "saving", "renamed"} /\ taskView.generation > 0

(* get of a cached detail: answered at once, and the detail is used last.  *)
GetCached(c) ==
  /\ ViewInitialized
  /\ taskReads[c] = NoAppRead
  /\ \E d \in taskView.details : taskView' = remember(taskView, d.task, d.record)
  /\ UNCHANGED <<taskFile, taskCommand, taskReads, shownTime, commits>>

(* get of any other Task, and list: the generation is noted, the load      *)
(* begins.                                                                 *)
ReadBegins(c) ==
  /\ ViewInitialized
  /\ taskReads[c] = NoAppRead
  /\ \/ \E t \in ReadTasks \ CachedTasks :
          taskReads' = [taskReads EXCEPT ![c] =
            [op |-> "get", task |-> t, loaded |-> FALSE, generation |-> taskView.generation]]
     \/ taskReads' = [taskReads EXCEPT ![c] =
            [op |-> "list", loaded |-> FALSE, generation |-> taskView.generation]]
  /\ UNCHANGED <<taskFile, taskCommand, taskView, shownTime, commits>>

(* The file is read.                                                       *)
ReadLoads(c) ==
  LET read == taskReads[c] IN
  /\ read # NoAppRead /\ ~read.loaded
  /\ taskReads' = [taskReads EXCEPT ![c] =
       [f \in DOMAIN read \cup {"store"} |->
          CASE f = "store" -> taskFile [] f = "loaded" -> TRUE [] OTHER -> read[f]]]
  /\ UNCHANGED <<taskFile, taskCommand, taskView, shownTime, commits>>

(* get goes on with what it loaded.                                        *)
GetEnds(c) ==
  LET read == taskReads[c] IN
  /\ read.op = "get" /\ read.loaded
  /\ taskView' = GetRemembers(read)
  /\ taskReads' = [taskReads EXCEPT ![c] = NoAppRead]
  /\ UNCHANGED <<taskFile, taskCommand, shownTime, commits>>

(* list goes on: what a publication overtook is loaded once more.          *)
ListEnds(c) ==
  LET read == taskReads[c] IN
  /\ read.op = "list" /\ read.loaded
  /\ taskReads' = [taskReads EXCEPT ![c] =
       IF read.generation # taskView.generation
       THEN [op |-> "again", loaded |-> FALSE]
       ELSE NoAppRead]
  /\ UNCHANGED <<taskFile, taskCommand, taskView, shownTime, commits>>

(* The second load is returned whatever was published meanwhile.           *)
ListEndsAgain(c) ==
  /\ taskReads[c].op = "again" /\ taskReads[c].loaded
  /\ taskReads' = [taskReads EXCEPT ![c] = NoAppRead]
  /\ UNCHANGED <<taskFile, taskCommand, taskView, shownTime, commits>>

ClockTicks ==
  /\ shownTime < MaxViewTime
  /\ shownTime' = shownTime + 1
  /\ UNCHANGED <<taskFile, taskCommand, taskView, taskReads, commits>>

----------------------------------------------------------------------------
ReadModelInit ==
  /\ taskFile \in Stores
  /\ taskCommand = [stage |-> "starting"]
  /\ taskView = NoView
  /\ taskReads = [c \in Readers |-> NoAppRead]
  /\ shownTime = 0
  /\ commits = 0

ReadModelNext ==
  \/ InitializeReadModel
  \/ CommandSaves
  \/ SaveRenames
  \/ SavePublishes
  \/ SaveFails
  \/ \E c \in Readers :
       \/ GetCached(c)
       \/ ReadBegins(c)
       \/ ReadLoads(c)
       \/ GetEnds(c)
       \/ ListEnds(c)
       \/ ListEndsAgain(c)
  \/ ClockTicks

ReadModelSpec == ReadModelInit /\ [][ReadModelNext]_readVars

----------------------------------------------------------------------------
(* When no command is between its commit and its publication, the list and *)
(* every cached detail show what the file says, at every time: a read that *)
(* a command overtook never plants the record it loaded in the cache       *)
(* (get's generation check, publish's refresh of the details).             *)
ViewShowsTheStore ==
  ViewInitialized /\ taskCommand.stage # "renamed" =>
    /\ \A t \in ReadTasks :
         IF taskFile[t] = NoTask THEN taskView.summaries[t] = NoTask
         ELSE projectCurrentSummary(taskView.summaries[t], shownTime)
                = projectCurrentRecord(taskFile[t], shownTime)
    /\ \A d \in taskView.details :
         /\ taskFile[d.task] # NoTask
         /\ projectCurrentRecord(d.record, shownTime)
              = projectCurrentRecord(taskFile[d.task], shownTime)
=============================================================================
