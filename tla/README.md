# Teti: a TLA+ model of the collaboration runtime

Teti is a desktop companion that lets two people's local Agents work for each
other. Each installation runs a *runtime* (the lifecycle sidecar,
`apps/desktop/lifecycle-sidecar`) that a native shell starts and a window talks
to. Two runtimes become *connected* through the Teti Network service, which alone
decides who may talk to whom, and then exchange *Tasks* over Chatmail, an
unreliable mail-like transport. Everything a runtime knows is in files it mostly
rewrites as a whole, and the process may stop at any moment.

The modules model the protocols on which the rest stands (the exchange of a Task,
the upkeep of a relationship, the execution of an approved Task) in detail, and
around them every part of the program that keeps state across an await, a
restart or a message. The theorems are in eight modules whose names end in
`Proofs` (section 7).

## 1. Inventory

Paths are relative to `src/`; `S` stands for `apps/desktop/lifecycle-sidecar`, `D`
for `apps/desktop/src`.

| component | state | operations | hard because | module |
|---|---|---|---|---|
| Task transport, `S/runtime/tasks/service.ts`, `store.ts` | Task records of two directions | send, receive, approve, reject, cancel, finish, flush, reconcile, expire, evict | messages lost, doubled, reordered; operations save and send in several steps; two clocks | `TaskRecords`, `TaskTransport` |
| Long-horizon sessions, same file, with `core/delegation` | stages, plan, grants, pending instruction | start and finish a stage, input, pause, renew, delegate, retry | a late instruction meets a session that has moved on; revisions committed elsewhere | `TaskSession` |
| Task attachments, `S/runtime/tasks/attachments.ts` | image files, receipts, deadlines | stage, ingest, verify, send, acknowledge, retain | file before record, record before file | `TaskAttachments` |
| Task read model, `read-model.ts` | view, cached details, generation | list, get, publish, invalidate | reads overlap commands | `TaskReadModel` |
| Kernel and registry, `S/runtime/callable/kernel.ts`, `execution-store.ts` | machines, queues, handles | run, resume, cancel, shut down, prune, reconcile | every stage awaits | `HostKernel` |
| Image runner, `callable/codex-image-runner.ts` | one run of a child | three requests, wait, copy, answer | races of promises settled by one chunk | `ImageRunner` |
| Connectors and grants, `core/callability`, `kernel.ts`, `integrations/agents` | connectors, grants, queues | qualify, register, withdraw, resolve, grant, execute, drain | connectors go and grants expire between approval and start | `ConnectorRegistry` |
| External Agents, `integrations/agents/osaurus`, `transports/loopback-http.ts` | qualification, connector, connection | qualify, register, withdraw, verify, send | the other program changes at any time | `AgentAuthority` |
| Workspace store, `S/runtime/workspaces/store.ts` | index, revision directories, snapshots | create, snapshot, commit, release, remove, recover | several file steps each | `WorkspaceStore` |
| Relationship service, `services/network/relationship-service.ts` | pending command, checkpoint | request, accept, reject, block, revoke, recover, snapshot, changes | lost responses, late copies, crash between page and checkpoint | `RelationshipSync` |
| Peer connection runtime, `S/connections.ts` | `connections.json`, queues | request, command, list, poll, refresh profiles | two queues over one file | `RelationshipSync`, `ChatmailIntake`, `PassportExchange` |
| Chatmail intake, `integrations/chatmail` | the kept event request, downloads | read, acknowledge, wait, give up | lost events, a message that blocks the next | `ChatmailIntake` |
| Passport delivery and leases, `S/connections.ts` | what was sent, what is held | broadcast, heartbeat, refresh, observe | late delivery reports, overtaken contents | `PassportExchange` |
| Connection handshake, `core/connection/handshake.ts` | connection records | request, accept, reject | only tests reach it (section 10) | not modelled |
| Application protocol, `core/application`, `core/protocol` | processed ids | read, validate, dispatch | only tests reach it (section 10) | not modelled |
| Network client, `services/network/client.ts` | clock offset | one exchange per operation | timeouts, late copies, clock drift | `NetworkClient` |
| Network identity and relay, `identity-service.ts`, `relay-service.ts` | credentials, pending binding | synchronize, register, rebind, sign | files around a request that may have been executed | `NetworkIdentity` |
| Profile publication, `profile-service.ts` | write in flight | synchronize, replace | another client of the same identity | `ProfilePublication` |
| Presence, `S/runtime/presence/controller.ts` | timer, flight, mode | start, stop, sleep, wake, report | aborts that come too late | `PresenceReports` |
| First launch, `D/first-launch`, `core/account` | marker, account file | create, retry, restore | requests that time out and go on | `AccountCreation` |
| Runtime jobs, `S/runtime/host.ts`, `service.ts`, `release` | job timers and flights, policy | start, stop, run now, refresh | skips, failures and policy changes in flight | `RuntimeJobs` |
| Sidecar process, `src-tauri/src/lifecycle_bridge.rs`, `S/main.ts`, `profile-lock.ts` | pending requests, lock file | spawn, request, time out, restart, quit, acquire, quarantine, release | two applications, dead locks | `SidecarLifecycle` |
| Agent discovery, `S/runtime/agents` | configuration, catalog, scan | scan, set override | a scan under way has read the old file | `AgentDiscovery` |
| Structured memory, `S/runtime/memory/structured-*.ts` | items, versions, previews, deletions | stage, confirm, edit, delete, preview, approve, inject | consent given to an older version | `Memory` |
| Child memory, `S/runtime/memory/service.ts`, `D/memory` | one file, a promise chain | authorize, record, delete, revoke, select | whole-file saves behind slow operations | `ChildMemory` |
| Codex usage, `S/codex-usage` | snapshot, timer, flight | start, stop, refresh | overlapping refreshes | `CodexUsage` |
| Profile files, `S/profile.ts`, `profile-migration.ts` | profile directories | migrate, archive, replace | cut short anywhere | `ProfileMigration` |
| Task surface, `D/tasks/controller.ts` | snapshot, shown view, poll | run, refresh, open, decide | awaits between its writes | `TaskConsole` |
| Panels, `D/app.ts`, `D/connections` | modes, timers, cards | open, close, connect, collapse | timers and calls cross | `DesktopPanels` |
| Passport switch, `D/passport/controller.ts`, `S/runtime/passport/sharing.ts` | choice, policy file | choose, flush, read | clicks faster than writes | `PassportConsole` |
| Native window, `src-tauri/src/window.rs`, `macos_panel.rs`, `D/platform` | mode, height, pending refresh | set mode, set height, refresh | coalesced and delayed changes | `NativeWindow` |

How they interact: `connections.ts` owns one serial queue. Users' calls and the
poll timer put entries into it; a poll reconciles relationships, then reads the
mailbox, hands Task messages to the Task transport, and flushes the Task outbox.
The Task transport calls the kernel and the registry, and the kernel calls back
when a run ends; that callback is queued too. The kernel takes snapshots from the
Workspace store and memory from the two memory services. The runtime's job
scheduler drives polls, presence, usage, release and profile publication. The
window reaches all of it through the bridge, whose requests time out on their own.

What makes it correct: what one side counts as acknowledged has happened on the
other; ends are final; an approved Task changes the Workspace at most once and is
reported completed only when it did; a relationship command acts at most once and
never after it was given up; no checkpoint passes a change of the authority that
was not written down, and no document takes a record back (a profile refresh does,
section 8); one runtime owns a profile and one identity is registered for an account; what a user
withdrew stays withdrawn; what the window shows catches up with what is stored;
and whatever was begun is answered.

`PROJECT.json` says of each component what is left out of it, and lists the
hazards at the lines where they bite.

## 2. The Task model

**State.** `outgoing` and `incoming` are the requester's and the host's record
of one single-stage Task, `net` the messages under way, `due` whether each clock
has passed the request's deadline, `up` which processes run, `handle` the
durable execution handle, `kernel` the in-memory run, `finishes` the results
whose handler is still to run. `copies` and `failures` count transmissions and
failures for the bounds; `produced` remembers that the host accepted a result.

**Operations and outcomes.** `serial` in `connections.ts` runs one operation of a
runtime at a time, so an operation is one action. Inside it the code saves,
sends and saves again; a send may throw, with or without having gone out, and
the process may stop between any two steps. Each operator that models a piece of
`service.ts` therefore returns the *set of outcomes* of that piece (the record
in memory, the record on disk, the messages sent, and whether the operation goes
on, gave up or crashed), `Then` chains pieces, and the action picks one outcome:
`Kept` is the disk record after a crash and the memory record otherwise. In this
way a crash falls between every two effects, without an action for each.

**Data.** Payloads, identifiers and timestamps are gone; error codes are
`TASK_EXPIRED` or other, because only that distinction steers the code. Retry
delays are the argument `elapsed` (the delay has or has not passed), a missing
authorisation the argument `connected`. Receipts carry the arrival order of the
request they answer, which `shouldApplyReceipt` compares.

**Network.** A message stays deliverable until it is lost, so duplication and
reordering need no actions. With `"forget"` in `Faults` messages are consumed
and can be lost, which the liveness runs use; `"redeliver"` hands a consumed one
out again.

**Faults.** The constant `Faults` selects what may happen: throw, offline, crash,
forget, redeliver, evict, refuse, cancel, expire. Each run takes the ones its
question is about.

## 3. The relationship model

**State.** A pair of members has one canonical relationship, so the authority is
a sequence of documents (`log`, revision *i* at index *i*) with the `receipts`
of its idempotency keys. Each runtime has its `pending` command, its
`checkpoint` and its `projection`, the revision its connection record was made
from. `call` is the running entry of the serial queue and where it stands.

**Steps.** Here an operation is *not* atomic: the peer and the authority move
while it awaits. `call[n].at` names each await of `relationship-service.ts`:
`read` (the relationship is read before a new command), `posted`, `answered`
(the pending command is about to be cleared), `latest` (the re-read),
`apply`, `scan`, `snapshot`, `changes`, `page`, `receive`. `ExecuteNew` reads
and stores the command at once: nobody sees the file between the two, and an
authority that moves meanwhile is one that moves before the post; `Deliver` is the authority's execution, separate from `Settle`, so
that a crash may fall between.

**Authority.** Teti Network is not in the repository. `Executes`, `UpToDate`,
`Becomes` and `Document` say what `relationship-service.ts` relies on: a command
is executed once per idempotency key, only if it names the current revision (a
request that meets the peer's request names the one before it), and only in
states that allow it. They are marked external in the map.

**Failures.** `Unanswered` is any exchange that fails retryably; a posted command
may be left under way (`late`) and reach the authority at any later time. `Crash`
loses the call and keeps the three files. `RefreshLoad` and `RefreshSave` are the
two halves of `FileTetiConnectionStorage.update` as the profile refresh uses it
outside the serial queue; `held`, a history variable, is the newest revision that
`connections.json` has ever held, which the refresh may take back. `Send` and `Receive` are an application message, judged
by the local record and then by the authority.

**Left out.** One relationship: several share one checkpoint in the code, which
matters only through documents that throw (section 9). The snapshot of one relationship is one page. The identity fence that
resets the stores when the local identity changes, the one-time adoption of a
legacy record, and the heartbeats a confirmed command triggers.

## 4. The kernel model

`HostKernel` has `run` of `kernel.ts` step by step: every await between the
admission, the snapshot, the specification, the child, the termination, the
saving of results, the commit and the `finally` is a stage of `run[t][e]` (Task
*t*, epoch *e*), so users, timers, the outbox flush and the other runs act between
any two. It shares the registry's handles (`handle`), the Workspace revision and
the Task records' states with the rest of the runtime. `Crash` loses the memory
and keeps the files, `Start` reconciles. `setting` (chosen initially, never
changed) holds the limits and the faults of a behaviour, so that one run covers
several configurations.

`ExecutionContract` is the abstract specification: a record's status and whether
the Task's work is in the Workspace. Its four actions say that work enters once
and only after an approval, that `completed` is reported only with it, and that
ends are final; its fairness says that begun work is reported. `MCHostKernel`
maps each Task's record and effect to it (`KernelImplementsContract`), liveness
included.

## 5. The other models

Each module has its own variables with a common prefix, an initial predicate, an
action per operation or per step between two awaits, and the properties at its
end. Data are reduced to versions, kinds and flags; the environment (another
program, the Network, Chatmail, the file system, the user) is an action wherever
it can act. The points that are not obvious from the modules' comments:

- `TaskSession`: operations are queued behind each other in the code, so each is
  one step; an operation that throws before its save leaves the stored record.
  The requester's side keeps only what it knows of the session and the one
  instruction it may hold back.
- `TaskAttachments`: the Task's states are reduced to those the images depend on.
  Removing a file, saving a record and sending are separate steps.
- `ConnectorRegistry`: a connector is a record of what its contract checks. The
  grant of a Task carries its clock times; `Tick` may pass between any two steps.
  The runtime facade of Osaurus is described (`FacadeConnector`) but never comes:
  its retention check answers "retained", so its qualification fails. A Task is
  approved once; what a run does inside is `HostKernel`.
- `TaskReadModel`: the cache of details is a set in which each detail has its
  place in the order of use, since a `Map` deleted from and added to again keeps
  that order; `remember` moves a detail to the front and drops what is past the
  limit.
- `ImageRunner`: what a race of promises returns depends on what settled first in
  a chunk of lines; each line is a step, the awaiting code goes on only after the
  last one of a chunk, `seen.won` records the race, and the image signal goes
  through one more `then`, so it loses a tie.
- `PassportExchange`: contents are numbered. A heartbeat is taken to be read when
  it is sent, since a late one says what an earlier one said.
- `NetworkClient`: the service is external; a request whose call timed out stays
  under way and may be executed after its retry. Every operation goes through
  `fetchResponse`; what differs are the flaws its parser looks for.
- `SidecarLifecycle`: the bridge's mutex makes everything up to the write of a
  request one step. Every file operation of the lock is a step.
- `ProfileMigration`: every file step may fail or be the last.
- `WorkspaceStore`: every file step may be the last, and each step of an operation
  may fail, the chmod after the rename of `index.json` included; then the handlers
  run (`CreateFails`, `CommitSaveFails`, `RemoveFails`, `InitializeFails`), which
  remove what the index on disk may already name. A second failure inside a handler
  is left out. `wsUndone` remembers the revision a handler removed in this way.
- `ChatmailIntake`: a download may never end.
- `PassportConsole`: a call that was reported failed has by then been stored or
  never will be. `freshCopies` remembers which of the copies under way (a read, an
  answer, what the controller takes for saved) were taken since the policy last
  changed.
- `NativeWindow`: commands run on the main thread, the delayed refresh on a thread
  of its own, the queue of the web view coalesces. `askedHeight` remembers the
  height asked for since the last mode was, for on Windows the native side keeps none.

**Composition for checking.** `MCRuntime`, `MCNetwork` and `MCCollaboration` put
models that share no variable into one specification. A variable
`focus` chooses the one that a behaviour exercises, and the others rest in one
initial state: this checks each model in full and none of their products, which
would only multiply independent states. A property of such a run is that of one
module, or the conjunction of several modules' properties under one name
(`NetworkAgrees`, `WorkGoesOn`, `ImagesAreTrue`,
`MemoryObeysTheUser`). `MCTaskTransport` does the same with five instances of
`TaskTransport` under different constants; between them every action of the
module happens except `Lose`, and the two liveness runs take one instance more
each, with messages that are lost and the module's fairness.

## 6. Properties and runs

`tlc -workers 2 -config X.cfg M`.

| run | module, configuration | distinct states | shows |
|---|---|---|---|
| `delivery` | `MCTaskTransport`, `TaskDelivery` | 314 000 | what is acknowledged happened at the other side (`ClaimsAreTrue`, `AcknowledgedStatusWasSeen`), ends and revisions are not taken back (`NothingIsTakenBack`); across crashes and two epochs a working Task has a run and a live run no outcome (`RunsMatchTasks`); an accepted result is never turned into a local expiry |
| `liveness` | `MCTaskTransport`, `TaskLiveness` | 53 000 | statuses are acknowledged and results stored (`MessagesArrive`), requests end, or a full store has dropped the record |
| `cancel_answered` | `MCTaskTransport`, `TaskCancelAnswered` | 51 000 | cancels are answered |
| `rel_safety` | `RelationshipSync`, `RelSafety` | 1 924 000 | a command given up never acts, one reported failed never did; no checkpoint passes a change that was not written, and only the save of a profile refresh takes a record back |
| `rel_liveness` | `RelationshipSync`, `RelLiveness` | 275 000 | commands and messages are settled, members catch up, mutual requests meet |
| `rel_block` | `RelationshipSync`, `RelBlock` | | the first finding of section 8 |
| `rel_refresh` | `RelationshipSync`, `RelRefresh` | | the second finding of section 8 |
| `kernel` | `MCHostKernel`, `HostKernel` | 277 000 | `OneExecution`: neither the effect nor the child of a Task happens twice, no first run escapes the limits; a queued Task starts; the kernel implements `ExecutionContract` |
| `runtime` | `MCRuntime`, `Runtime` | 111 000 | one Runtime per profile and no refusal without a rival (`LockIsSound`); requests are answered and a quit leaves no process (`NothingIsLeftBehind`); only the qualified Agent is served and an unfit one withdrawn; every message is dealt with unless its file is still downloading |
| `lock_race` | `MCRuntime`, `LockRace` | | the third finding of section 8 |
| `network` | `MCNetwork`, `Network` | 1 177 000 | what the Network holds is what the runtime says, and accounts and identities are created once (`NetworkAgrees`); work runs once per grant, on a registered connector, within the limits (`WorkIsAuthorized`); jobs and refreshes go on; the migration is whole |
| `collaboration` | `MCCollaboration`, `Collaboration` | 1 938 000 | sessions, Workspaces, images, Passports, Task views and memory, one property each; the Task surface keeps refreshing, no panel hangs, the sharing switch is saved and shows the policy as last read, the window takes the last mode and its height, withdrawn memory stays out |

**Bounds and why they are enough.**

- Task runs: one Task, because the store treats Tasks independently (except for
  its capacity, `evict` and `refuse`). Two transmissions of the request give a
  duplicate that meets every state of the first. Two epochs give an old run beside
  a new one. One failure per behaviour puts a failed send or a crash at every
  point of every operation. `MCTaskTransport` takes these in five instances, since
  the theorems prove all six properties of the run for every combination.
- Relationship runs: two members are all there are. Three commands give a stale
  command, its late copy and a change between them; pages of one document put a
  crash between any change and its checkpoint.
- Kernel: two Tasks over one Child Agent meet in the queue, in the Workspace and
  in the limits; three settings choose one slot with a queue, two slots, and none,
  with the faults of each; up to three epochs per Task, one crash or shutdown.
- Runtime: a Runtime that is replaced twice, two applications with one process
  each, an Agent record that changes twice with two process ids, four messages of
  four kinds in batches of two with one fault.
- Network: two starts of the process, two keys and two environments for identity;
  four calls with two faults in the client, which is a first copy, its retry and
  a second operation; four profile versions and writes; three reports; three
  starts of the migration (interrupted twice, then whole); five scans; for the
  connectors two Tasks that want one Child Agent or two, two host slots, two
  configurations of the Osaurus agent, and a grant of one tick in three, so that a
  grant is used at, before and after its expiry.
- Collaboration: two stages of two plan steps with one renewal; two memory
  versions with two previews; three revisions of a Workspace with two ends of the
  process, where any step may fail; one image each way, two files and two
  attempts in the image runner; two contents of a Passport with two faults and three
  checks, of which the last two may be quiet, two self-check intervals and one refresh
  request; two Tasks and one cached detail in the read model.
- The window: one Task beside the own one and one piece of news; three clicks on
  the switch and one stop, so that a read captured before a click may be answered
  after its write while a newer one is queued; one memory record under four operations; three modes, two mode calls,
  two heights (one above what the small screen takes) and one screen change, which
  together show each exception of `WindowFollowsLatestMode`.

**Deadlock** is checked where the system polls for ever (the relationship runs and
the kernel). The Task runs come to rest when everything is acknowledged and the
counters are used up, and a behaviour of the composed runs ends with its focus.

**Fairness.** `TaskTransport`: weak fairness of the flush of both sides with the
delay elapsed and a connection (the poll loop runs for ever and the delays are
bounded), of restarts, of the end of a run (every run has a deadline) and of its
handler, and of the requester's clock. Strong fairness of receiving each kind of
message that the code sends again and again: such a message is in `net` infinitely
often although each copy may be lost. There is none for the request, which is
sent once when Chatmail takes it: this is why `EveryRequestEnds` needs the clock.
`RelationshipSync`: weak fairness of a call's steps and of starting a poll (the
`chatmailPoll` job runs at an interval), none for users, late copies or failures.
`HostKernel`: weak fairness of a run's steps, of handlers, of a child's exit (every
run has a timeout that kills it) and of a stopped runtime's next start.
`SidecarLifecycle`: threads and event loops go on and a mutex is handed over; a
hanging process is *not* assumed to go on by itself. `AgentAuthority`: the
qualification loop, whose probes have timeouts. `ChatmailIntake`: the poll loop,
the expiry of envelopes. Nothing is assumed of downloads. The remaining properties are
invariants or action properties: where the code promises that something comes,
they say that its timer, call or flight is there (`WorkGoesOn`, `RefreshIsComing`,
`PanelIsNeverStuck`, `PassportViewIsTrue`), which holds without any fairness.

**Faulty variants.** Next to a definition stand variants of it that a plausible
bug would make (a status acknowledged by the wrong revision, a receipt before the
save, a retry under a fresh key, a file written in place). They are used by no
specification. For each property of a passing run `PROJECT.json` names one:
replacing the definition by it violates the property. The other variants do the
same for the remaining conjuncts of the joined properties.

## 7. Proofs

`tlapm X.tla` for each of the eight modules below proves the theorems for every
value of the constants, from the assumptions on the constants alone (bounds are
naturals, faults and events come from their sets, two members) and the hypotheses
named here. Every invariant and every action property of the passing runs is among
them (`LockIsSound` under the hypothesis below); TLC found each of them to hold on
its run first.

| module | theorems that state a property of the runs |
|---|---|
| `TaskTransportProofs` | `TypeOK`, `AcknowledgedStatusWasSeen`, `NothingIsTakenBack` |
| `TaskClaimsProofs` | `RunsMatchTasks`, `ClaimsAreTrue`, `AcceptedResultNeverExpires` |
| `RelationshipSyncProofs` | `TypeOK`, `CheckpointIsCovered`, `OnlyARefreshTakesBack`, `FailedCommandHadNoEffect`, `OnlyPendingCommandsTakeEffect` |
| `HostKernelProofs` | `OneExecution`, and the safety part of `ExecutionContract` |
| `CollaborationProofs` | `CommittedWorkspaceIsWhole`, `SessionIsSound`, `ViewShowsTheStore`, `ImagesAreTrue`, `PassportConverges`, `MemoryObeysTheUser` |
| `DesktopProofs` | `RefreshIsComing`, `PassportViewIsTrue`, `WindowFollowsLatestMode`, `PanelIsNeverStuck`, `WithdrawnMemoryStaysOut` |
| `NetworkProofs` | `NetworkAgrees`, `WorkIsAuthorized`, `WorkGoesOn`, `MigrationIsWhole` |
| `RuntimeProofs` | `LockIsSound` (`RefusalHasAReason` without a hypothesis), and the safety half of `OnlyFitAgentsServe` |

**Task transport.** `TypeCorrectness` (`TypeOK`), `AcknowledgedStatusesWereSeen`,
`HostEndsAreFinal` and `RevisionsOnlyAdvance`, together `NothingTakenBack`.
`AcknowledgedStatusWasSeen` is not inductive: nothing in it says where an
acknowledgement comes from. The invariant `StatusInv` adds that every
acknowledgement queued at the requester (`QueuedReceiptsWereSeen`) or under way
(`ReceiptsInFlightWereSeen`) is of a revision the requester has seen, and that
before the first transmission there is nothing to acknowledge
(`NothingBeforeFirstRequest`), which is what lets a new record start from
revision 0. The proof follows the outcome sets: `OutgoingKeeps` and
`IncomingKeeps` relate the record before an operation to any record in memory or
on disk during it, one lemma per record function and per send shows that it keeps
them, and one lemma per operation combines those.

**Task claims.** The host sends some changes before it saves them, so its stored
record does not say what the requester may have heard. `ClaimsInv` speaks of the
record that the host *will* have (`Coming`): the one in memory or, while the
process is down, the one its next start makes of the files. Every status, result
and receipt in the network is one that record announces, a produced result
excludes the ends without one (`ResultsAreProduced`, `EndsExcludeResults`), and
receipts of results and cancels are true. `RunsInv` says which states of the
record, the handle and the executor go together, crashes included. A lemma per
operation shows what it may say (`HostTells`, `RequesterTells`) or that it is
silent, and two lemmas show that such steps keep `ClaimsInv`.

**Relationship.** `RelationshipTypes` (`TypeOK`: no checkpoint or record names a
revision the authority does not have), from `TypeInv`, which adds what a call has
in hand where it stands (`InHand`): a posted command is the stored one, and the
page is not overrun. `CheckpointsAreCovered` (`CheckpointIsCovered`) is about what
`connections.json` has held, and `OnlyRefreshesTakeBack` (`OnlyARefreshTakesBack`)
says which step may take a record back: with profile refreshes, which both theorems
include, a record that was written may be lost (section 8). `CoverInv` adds that
during `scanChanges` every revision before the one at hand has been written
(`Cover`), so that the checkpoint stored after a page is one the records have
reached. `FailedCommandsHadNoEffect` and `OnlyStoredCommandsTakeEffect` need
no hypothesis: by `CommandInv` a command remains stored until it is spent, that
is, until the authority could record no copy of it any more, whichever copies are
under way and whichever answer was lost.

**Kernel.** `KernelInv` relates a run's stage to its handle, its record and the
files, for every setting; `EffectsAndTracking` follows from it alone.
`OneChildPerTask`, and with it `ExecutionIsOne`, needs a kernel that remembers its
Tasks, the hypothesis `Retains` (`MaxRetained >= Cardinality(Tasks)`; the code's
default is 128 Tasks): without it section 9 describes how two children meet.
`RetainedInv` adds that at most the current execution of a Task is busy.
`KernelKeepsContract` is the refinement, for each Task: the initial state is one
of `ExecutionContract`, and every step is a step of it or a stutter. Its fairness
part is checked by TLC (`KernelImplementsContract`).

**Collaboration.** `WsInv` says for each stage of each operation of the Workspace
store what is on disk, so that the index always names a whole directory, or the
revision that the handler of a failed save removed (`wsUndone`).

`SessionIsSound` is not inductive: a checkpoint is right because the run that is
under way belongs to the last stage and a completed run left the revision the
stage should leave (`StageSound`), and an instruction waits rightly because what
the requester knows, and every status on its way to it, is the session of that
revision (`AskerFollows`). For the read model, `ReadInv` says that a read which no
publication has overtaken has loaded what the file says, except while a command is
between its rename and its publication: this is what the generation check of `get`
relies on. `AttInv` adds the receipts on their way to those that were taken
(`ReceiptsAreTrue`). `RunnerInv` says that the files still to be copied were named
by the server, that the copied ones are whole, and that a race lost to a failure
has its failure noted.

`PassportConverges` is about two quiet intervals, and its invariant about what one
of them leaves (`Calm`): from the first one on, every message on its way carries
the Passport of now (`CalmMail`), and whatever makes the owner or the peer believe
that nothing is left to do (a delivery under way, a request that was seen, a lease
that names what is held) is true of the content (`CalmLink`). A fault ends the
calm, so it has to keep only the bounds: nothing is dated after the owner's clock,
and no request is numbered after the last one asked.

`MemInv` keeps deleted memory gone, and says of every preview that one which is
approved and not used up is the one the user saw last (`ShownIs`), and that it is
never ahead of an item that was not deleted (`ItemsAre`); a stage that takes a
preview then gives only what was consented to.

**Desktop.** `ConsoleInv` is `RefreshIsComing` with the shape of the console's
operation. `SharingInv` follows a switch to the file: what was chosen last is
reached from what is saved by the writes still queued or in flight (`Reached`),
and `CopiesAreFresh` that a copy which counts as fresh is of the Runtime's policy.
`NativeInv` says that mode calls arrive in the order they were made, that the main
thread is in the last mode it was sent, and that a window either fits or has a
refresh due; `HeightInv` that the height last asked for is queued, posted or given
to the window (`LastCallAsks`, `HeightIsPosted`, `HeightIsGiven`), and what may have
sized the window last (`SizedBy`). `PanelInv` says of each panel that its state has its timer or its
call, and every handler of the panels is made of operators that keep one panel
sound (`TouchIsSound` to `DismissalIsSound`). `ChildInv` is about the chain of
operations on the file of a Child Agent's memory (`Chain`): at most one caller
waits, and behind its operation there are only selections. An acknowledged
deletion or revocation is therefore the last word in the chain, nothing behind it
asks the scope back, and as no other operation saves between the read and the save
of one (`ReadIsCurrent`), what was withdrawn before is in no later copy.

**Network.** `RegistryInv` says that what the kernel forgets of a grant
has expired with it, and that the queue is exactly what waits; that it keeps its
order without gaps when elements leave rests on counting ranks (`Without`).
`JobsInv`, `UsageInv` and `DiscoveryInv` say who sets the next timer, that one
caller writes at a time, and that a new override is read by the scan that answers
it. The services of `MCNetwork` share no variable, so a step of `NetworkSpec` is a
step or a stutter of each.

`NetworkAgrees` has one invariant for each of its parts. `PubInv`: the write being
sent is the stored one; once applied, its value stands at the Network unless
another client wrote later; and the profile a run has read is the present one or
a further call is coming. `AccountInv`: the marker is there from before the
request that adds the account until its file is, and what an earlier process
added stays visible by one of the two. `IdentityInv`: as long as no older record
has overwritten a credential, a key that may be registered is stored before it is
sent (`CredentialIsSaved`), and the Network has one identity for the account, of
that key (`OneIdentity`). `HttpInv`: a repeated write carries the key, the body and
the expected revision of the first copy, a write in an answer of success was
applied, and one that was refused has no copy under way that could still be. `PresInv` says
that a report in flight carries the present mode or another one follows, and that
a host which reports with none in flight has a timer and, if it says "online", its
last report stands at the Network with the present mode.

`MigInv` says what is there (`WhatIsThere`: a Store is whole from its rename on and
grows only by what the program adds, an archive is whole or not there, and
`profile.json` comes after both) and where a start is (`WhereItIs`: it builds a
Store only where there is none, and renames a staging directory only when it is
complete). That work in a Store is never replaced (`WorkStays`) rests on the
second.

**Runtime.** `RefusalInv` says that a process which starts has noted every other
one that lived meanwhile, and that it failed to create the lock twice, or again
after a recovery, only because of one. `OwnerInv` says that a Runtime has its lock
at the path from the write to the release, and that one which is about to move a
lock away has found one that nobody has. The latter is what a step of another
Runtime may spoil: `LockIsSoundUndisturbed` has the hypothesis `LockIsUndisturbed`
(nobody creates the lock while another is about to move one away, and no logout
clears the profile), and the run `lock_race` shows what happens without it. It
takes three processes to spoil the first part. `TasksGoToTheQualifiedAgent`, with
`CallInv`, is about the checks before a task is sent to an external Agent: each
later stage still has the digest that was qualified, and only a connection whose
peer is the qualified process reaches the last one.

**Only model-checked.** Liveness under fairness is out of the prover's reach:
`MessagesArrive`, `EveryRequestEnds`, `CancelIsEventuallyAnswered`,
`EverythingIsSettled`, `ChangesAreApplied`, `MutualRequestsMeet`,
`QueuedTaskStarts`, the fairness part of `KernelImplementsContract`,
`NothingIsLeftBehind`, `EveryMessageIsDealtWith` and `UnfitAgentIsWithdrawn`. TLC
checks them under the fairness of section 6, and only within the bounds given
there. `BlockAndRevokeArePerformed` and `OneRuntimePerProfile` (without the
hypothesis `LockIsUndisturbed`) are false, as section 8 says.

## 8. Findings

`rel_block`: block or revoke, called while an older command of the relationship
is pending, returns that command's result (`relationship-service.ts:137`); the
block is never sent. The cutover document says that block and revoke results
update the local projection immediately.

`rel_refresh`: the profile refresh loads and saves `connections.json` on a queue of
its own, next to the serial queue (`connections.ts:515`). What the serial queue
wrote between the two, a block for instance, is overwritten by the older record.
The cutover document says that older revisions are ignored. Where the checkpoint
has passed the lost revision, no later page of changes brings it back.

`lock_race`: two Runtimes that start next to a dead one's lock may both find it
dead. The faster one moves it away and creates its own; the slower one then moves
that away (`quarantineStaleLock` renames whatever is at the path by then,
`profile-lock.ts:124`) and creates its own, and both start. The architecture
document says that exactly one Runtime may own a profile and that a stale lock may
be recovered atomically. It takes two copies of the application, of which one
replaces a Runtime that has crashed; the settings of the run `runtime` leave this
one combination out, and the theorem of section 7 has it as its hypothesis.

## 9. Observations

Behaviours met while modelling that no property forbids; the models have them
unless a note says otherwise.

*Task transport.* The expiry sweep turns a Task that ended while its request was
still `queued` or `send_failed` into rejected/`TASK_EXPIRED` (`service.ts:4094`).
After `auth_required` a second approval finds the first attempt's handle and is
refused (`execution-store.ts:155`). A status revision made by the sweep is sent
before it is saved (`service.ts:2219`). A request refused for a full store leaves
no record (677), and a full store drops records past their deadline (4484).

*Sessions.* After a Workspace conflict, or a crash between commit and finish, the
binding keeps the older revision and `continueLongHorizon` always throws (2024).
A completed collaboration may leave plan steps `failed` (2051). The cancellation
of a stage cannot be recorded (3102). Repeated pauses reach the 256-event limit of
the audit list (4693), which is not modelled.

*Kernel.* A late handler of a refused execution turns `input_required` into
failed. With a retention smaller than the number of Tasks a committed Task is
reported failed, and two children may work for one Task: the discard of an old
run deletes the entry of the resumed one (`kernel.ts:890`), its record is pruned
(1051), the flush takes it for interrupted, and the next execution starts beside
it; the run and the theorems keep the retention larger. A flush during `run`'s
`finally` reports a resumable failure as failed (834). Selected memory may be
revoked between `selectContext` and the dispatch (628).

*Relationships.* A revoked relationship in the first snapshot has no record
to archive, so that the projection throws on every poll (1046).

*Chatmail and peers.* An attachment download that stalls throws before the
envelope's expiry is looked at (`connections.ts:636-641`), although the comment at
586-592 says that the message is kept until its envelope expires: the message is
kept for ever, which `EveryMessageIsDealtWith` excepts. A forced Passport refresh is
swallowed by the success of a delivery in flight, and healed by the next lease
(1960).

*Runtime and Network.* A marker is written in place (`marker.ts:46`), which
`InterruptedCreationIsNotRepeated` excludes. A signer that had read an older record
may remove a newer credential, which `RegistersOnePerStay` excludes. An exit of the
Chatmail RPC process is an error until the sidecar is restarted. The clock offset
is 0 until the first bootstrap. A body is read without a timeout
(`client.ts:944`). A presence report whose headers came before sleep publishes
"online" while asleep (`presence/controller.ts:225`). The usage service stores
every snapshot with `stale: false` (`codex-usage/service.ts:100`), losing the
provider's flag.

*Files.* Without the made image's file a result's status is never sent, and the
read model stays unusable when the first save of `initializeReadModel` fails
(`connections.ts:423`), until a restart. Removal of a Workspace deletes its
directory before its index entry (`store.ts:349`). When the chmod after the rename
of `index.json` fails (374-375), the handlers of `create` and `commitSnapshot`
(172-175, 269-272) remove what the index on disk already names, and the store
cannot be opened again; `CommittedWorkspaceIsWhole` excepts that revision.

*Window.* A decision can be sent for a Task other than the shown one when the view
changed under the click (`tasks/controller.ts:829`); a refresh may mark an update
viewed that was never drawn; `connections.close()` asks for `idle` after the render
asked for `error` (`connections/controller.ts:187`); a sharing choice saved during
the store's first load may be lost, which `SharingChoiceIsSaved` excludes; a read
of the Passport that was captured before a click and is answered after its write
sets the switch back until the next read (`passport/controller.ts:297-305`). A
native refresh carries the mode its thread read to the main thread, where a newer
one may have been set meanwhile (`macos_panel.rs:333`, `window.rs:474`); on Windows
it takes an open detail window back to the height it began with (`window.rs:480`),
and a height is not refused in another mode. `WindowFollowsLatestMode` names these
three cases.

## 10. Not modelled

- Field-by-field validation of messages, configuration and HTTP documents: every
  message of the models is valid, or has one of the flaws the code tells apart.
- Products of the models in one run: they share no variable, and where two of
  them touch in the code (the kernel and the Workspace store, the Task transport
  and the read model) each has an environment that does what the other may do.
- The Chatmail handshake (`core/connection`) and the application inbox
  (`core/application`): only tests call them, since the shipped runtime connects
  through the Network relationship and reads its messages in `poll`
  (`connections.ts:371-373`, `1226-1229`).
- Search ranking, SQL layout and schema steps of structured memory; contents of
  Passports, images and plans.
- AI status negotiation, environment scanning and observation, which are pure
  functions of their input; rendering, text, drag and drop; tray, updater and
  secure storage commands of the shell; build scripts.

## 11. Plan

No property of the runs is left that the prover could reach. What would add most:

1. The checks of `LockIsUndisturbed` against a lock that is recovered atomically,
   once the code has one: the hypothesis then becomes an invariant.
2. A run in which the Task transport and the kernel share one execution, in place
   of the environment each has for the other.
3. Snapshots of several pages and several relationships under one checkpoint.
