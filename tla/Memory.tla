------------------------------- MODULE Memory -------------------------------
(* The structured memory of a long-horizon Task: what each stage leaves in the  *)
(* database, the items the user confirms from it, the previews shown before a   *)
(* stage starts, and what the stage is finally given.  Every operation is one   *)
(* transaction of a serialized store, so the interleaving is between them.      *)
EXTENDS Naturals, FiniteSets, Sequences

CONSTANTS MaxMemStages,  \* bound on the stages started
          MaxMemVersion, \* bound on the versions of an item
          MaxPreviews,   \* bound on the previews made
          MaxMemTime,    \* bound on the clock
          PreviewTtl,    \* how long a preview may be approved and used
          MaxMemInputs   \* bound on the instructions of one stage

ASSUME MemoryBounds ==
  {MaxMemStages, MaxMemVersion, MaxPreviews, MaxMemTime, PreviewTtl, MaxMemInputs} \subseteq Nat

VARIABLES memMode,     \* closed, ready or read_only
          memSchema,   \* the user_version of the file
          memRows,     \* the source rows: absent, kept or blank
          memItems,    \* the confirmed items, by source; version 0 is none
          memGone,     \* the sources a deletion is recorded for
          memAllowed,  \* the workspace scope is authorized for the Child Agent
          memPreviews, \* the previews, in the order they were made
          memTime,     \* the clock
          memAsk,      \* stages completed, the current instruction
          memShown,    \* what the user approved last: an instruction and item versions
          memGiven     \* what the stage that is running was given

memData == <<memRows, memItems, memGone, memAllowed, memPreviews>>
memVars == <<memMode, memSchema, memRows, memItems, memGone, memAllowed, memPreviews,
             memTime, memAsk, memShown, memGiven>>

MemSources == 1 .. MaxMemStages - 1  \* the stages another one comes after
NoMemory == [s \in MemSources |-> 0]
NoItem == [version |-> 0, scope |-> "task", expires |-> 0]
NoApproval == [query |-> <<0, 0>>, items |-> NoMemory]
NothingGiven == [execution |-> 0, query |-> <<0, 0>>, items |-> NoMemory]
Forever == MaxMemTime + 1
LatestSchema == 4

MemoryInit ==
  /\ memMode = "closed" /\ memSchema \in {0, 2, LatestSchema + 1}
  /\ memRows = [s \in MemSources |-> "absent"]
  /\ memItems = [s \in MemSources |-> NoItem]
  /\ memGone = {} /\ memAllowed = FALSE
  /\ memPreviews = <<>>
  /\ memTime = 0
  /\ memAsk = [stage |-> 0, input |-> 1]
  /\ memShown = NoApproval
  /\ memGiven = NothingGiven

\* open: a newer schema is only read; an older one is brought up one version per
\* transaction, so that a process that stops in between goes on where it was.
MemoryMigrates ==
  /\ memMode = "closed" /\ memSchema < LatestSchema
  /\ memSchema' = memSchema + 1
  /\ UNCHANGED <<memMode, memData, memTime, memAsk, memShown, memGiven>>

MemoryOpens ==
  /\ memMode = "closed" /\ memSchema >= LatestSchema
  /\ memMode' = IF memSchema > LatestSchema THEN "read_only" ELSE "ready"
  /\ UNCHANGED <<memSchema, memData, memTime, memAsk, memShown, memGiven>>

MemoryCloses ==
  /\ memMode # "closed" /\ memMode' = "closed"
  /\ UNCHANGED <<memSchema, memData, memTime, memAsk, memShown, memGiven>>

MemoryClock ==
  /\ memTime < MaxMemTime /\ memTime' = memTime + 1
  /\ UNCHANGED <<memMode, memSchema, memData, memAsk, memShown, memGiven>>

\* requireWritableDatabase; an operation changes the database and nothing else.
Writes ==
  /\ memMode = "ready"
  /\ UNCHANGED <<memMode, memSchema, memTime, memAsk, memGiven>>

-----------------------------------------------------------------------------
(* Sources and items *)

\* saveStage, called when a stage completes and again on every read: a source
\* already there, or deleted, is left alone.  Its failures are swallowed.
saveStage(s) ==
  /\ Writes
  /\ s <= memAsk.stage
  /\ memRows[s] = "absent"
  /\ memRows' = [memRows EXCEPT ![s] = "kept"]
  /\ UNCHANGED <<memItems, memGone, memAllowed, memPreviews, memShown>>

InvalidateWith(previews, s) ==
  [i \in DOMAIN previews |->
    [previews[i] EXCEPT !.invalid = @ \/ (previews[i].seen[s] > 0 /\ ~previews[i].consumed)]]

\* A plausible slip: confirming an item does not look for an earlier deletion.
createStructuredMemoryItemAgain(s) ==
  /\ Writes
  /\ memRows[s] # "absent" /\ memItems[s].version = 0
  /\ \E scope \in {"task", "workspace"}, expires \in {memTime + 1, Forever} :
       memItems' = [memItems EXCEPT ![s] =
                     [version |-> 1, scope |-> scope, expires |-> expires]]
  /\ UNCHANGED <<memRows, memGone, memAllowed, memPreviews, memShown>>

createStructuredMemoryItem(s) ==
  /\ Writes
  /\ memRows[s] # "absent" /\ s \notin memGone /\ memItems[s].version = 0
  /\ \E scope \in {"task", "workspace"}, expires \in {memTime + 1, Forever} :
       memItems' = [memItems EXCEPT ![s] =
                     [version |-> 1, scope |-> scope, expires |-> expires]]
  /\ UNCHANGED <<memRows, memGone, memAllowed, memPreviews, memShown>>

\* expectedVersion is the version the editor opened; any other is refused.
updateStructuredMemoryItem(s) ==
  /\ Writes
  /\ memItems[s].version \in 1 .. MaxMemVersion - 1
  /\ \E scope \in {"task", "workspace"} :
       memItems' = [memItems EXCEPT ![s] =
                     [version |-> @.version + 1, scope |-> scope, expires |-> Forever]]
  /\ memPreviews' = InvalidateWith(memPreviews, s)
  /\ UNCHANGED <<memRows, memGone, memAllowed, memShown>>

\* The item and its text go; the source row stays, blank, with a deletion record.
Deletes(s) ==
  /\ memItems' = [memItems EXCEPT ![s] = NoItem]
  /\ memGone' = memGone \cup {s}
  /\ memRows' = [memRows EXCEPT ![s] = "blank"]
  /\ memPreviews' = InvalidateWith(memPreviews, s)
  /\ UNCHANGED <<memAllowed, memShown>>

deleteStructuredMemoryItem(s) == Writes /\ memItems[s].version > 0 /\ Deletes(s)

\* cleanupExpiredStructuredMemory, an item at a time.
cleanupExpiredStructuredMemory(s) ==
  Writes /\ memItems[s].version > 0 /\ memItems[s].expires <= memTime /\ Deletes(s)

-----------------------------------------------------------------------------
(* Previews and their use *)

Query == <<memAsk.stage + 1, memAsk.input>>

setStructuredMemoryAuthorization ==
  /\ Writes
  /\ memAllowed' = ~memAllowed
  /\ memPreviews' = [i \in DOMAIN memPreviews |->
       [memPreviews[i] EXCEPT !.invalid = @ \/ ~memPreviews[i].consumed]]
  /\ UNCHANGED <<memRows, memItems, memGone, memShown>>

Eligible(s) ==
  /\ memItems[s].version > 0 /\ memItems[s].expires > memTime
  /\ memItems[s].scope = "workspace" => memAllowed

\* createContextPreview: the candidates are the eligible items, ranked; those the
\* user leaves out, or that do not fit the budget, are shown but not included.
\* An earlier preview that was not approved no longer counts.
createStructuredMemoryContextPreview ==
  /\ Writes
  /\ Len(memPreviews) < MaxPreviews
  /\ \E included \in SUBSET {s \in MemSources : Eligible(s)} :
       memPreviews' = Append(
         [i \in DOMAIN memPreviews |->
           [memPreviews[i] EXCEPT !.invalid = @ \/ ~(memPreviews[i].approved \/ memPreviews[i].consumed)]],
         [query |-> Query, expires |-> memTime + PreviewTtl, allowed |-> memAllowed,
          seen |-> [s \in MemSources |-> IF Eligible(s) THEN memItems[s].version ELSE 0],
          items |-> [s \in MemSources |-> IF s \in included THEN memItems[s].version ELSE 0],
          approved |-> FALSE, consumed |-> FALSE, invalid |-> FALSE])
  /\ UNCHANGED <<memRows, memItems, memGone, memAllowed, memShown>>

\* A plausible slip: an item that expired after it was shown is still handed over.
PreviewCurrentThoughExpired(p) ==
  /\ p.expires >= memTime
  /\ p.allowed => memAllowed
  /\ \A s \in MemSources : p.items[s] > 0 => memItems[s].version = p.items[s]

\* requirePreviewCurrent
PreviewCurrent(p) ==
  /\ p.expires >= memTime
  /\ p.allowed => memAllowed
  /\ \A s \in MemSources : p.items[s] > 0 =>
       memItems[s].version = p.items[s] /\ memItems[s].expires > memTime

\* At most one unconsumed preview of the Task is approved.
approveStructuredMemoryContextPreview(i) ==
  /\ Writes
  /\ ~memPreviews[i].invalid /\ ~memPreviews[i].consumed /\ PreviewCurrent(memPreviews[i])
  /\ memPreviews' = [j \in DOMAIN memPreviews |->
       [memPreviews[j] EXCEPT !.approved = IF memPreviews[j].consumed THEN @ ELSE j = i]]
  /\ memShown' = [query |-> memPreviews[i].query, items |-> memPreviews[i].items]
  /\ UNCHANGED <<memRows, memItems, memGone, memAllowed>>

Usable(i) ==
  LET p == memPreviews[i]
  IN p.query = Query /\ p.approved /\ ~p.consumed /\ ~p.invalid /\ p.expires >= memTime

Given(items) == memGiven' = [execution |-> memAsk.stage + 1, query |-> Query, items |-> items]

\* createExecutionContext: the approved preview is used up, or invalidated when it
\* is no longer current.  prepareExecution raises the epoch on every call, so no
\* execution asks twice and none is answered from an earlier manifest.
createStructuredMemoryExecutionContext ==
  \/ \E i \in DOMAIN memPreviews :
       /\ Usable(i)
       /\ IF memPreviews[i].items # NoMemory /\ PreviewCurrent(memPreviews[i])
          THEN /\ memPreviews' = [memPreviews EXCEPT ![i].consumed = TRUE]
               /\ Given(memPreviews[i].items)
          ELSE /\ memPreviews' = [memPreviews EXCEPT
                                   ![i].invalid = @ \/ memPreviews[i].items # NoMemory]
               /\ Given(NoMemory)
  \/ /\ \A i \in DOMAIN memPreviews : ~Usable(i)
     /\ Given(NoMemory) /\ UNCHANGED memPreviews

\* A start that fails after its context was made: the preview stays used up.
StageStartFails ==
  /\ memGiven # NothingGiven /\ memGiven' = NothingGiven
  /\ UNCHANGED <<memMode, memSchema, memData, memTime, memAsk, memShown>>

\* startLongHorizonStage: the context is made before the record is saved.
startStageWithMemory ==
  /\ memAsk.stage < MaxMemStages /\ memGiven = NothingGiven
  /\ \/ memMode = "ready" /\ createStructuredMemoryExecutionContext
     \/ memMode # "ready" /\ Given(NoMemory) /\ UNCHANGED memPreviews
  /\ UNCHANGED <<memMode, memSchema, memRows, memItems, memGone, memAllowed,
                 memTime, memAsk, memShown>>

\* The stage started completes: its artifact is the source of a memory row.
StageLeavesArtifact ==
  /\ memGiven.execution = memAsk.stage + 1 /\ memGiven.execution < MaxMemStages
  /\ memAsk' = [stage |-> memAsk.stage + 1, input |-> 1]
  /\ memGiven' = NothingGiven
  /\ UNCHANGED <<memMode, memSchema, memData, memTime, memShown>>

\* A new instruction from the peer replaces the one the preview was made for.
MemoryInput ==
  /\ memGiven.execution # memAsk.stage + 1
  /\ memAsk.input < MaxMemInputs
  /\ memAsk' = [memAsk EXCEPT !.input = @ + 1]
  /\ UNCHANGED <<memMode, memSchema, memData, memTime, memShown, memGiven>>

MemoryNext ==
  \/ MemoryMigrates \/ MemoryOpens \/ MemoryCloses \/ MemoryClock
  \/ \E s \in MemSources :
       \/ saveStage(s) \/ createStructuredMemoryItem(s) \/ updateStructuredMemoryItem(s)
       \/ deleteStructuredMemoryItem(s) \/ cleanupExpiredStructuredMemory(s)
  \/ setStructuredMemoryAuthorization
  \/ createStructuredMemoryContextPreview
  \/ \E i \in DOMAIN memPreviews : approveStructuredMemoryContextPreview(i)
  \/ startStageWithMemory \/ StageStartFails \/ StageLeavesArtifact \/ MemoryInput

-----------------------------------------------------------------------------
\* Whenever a stage is handed memory, each item is at the version the user last
\* approved, still confirmed, unexpired and in an authorized scope, and was
\* approved for the very instruction the stage runs, however many edits,
\* deletions, revocations and new instructions came after the preview
\* (createExecutionContext with requirePreviewCurrent).
InjectedMemoryIsConsented ==
  [][memGiven' # memGiven /\ memGiven'.items # NoMemory =>
       /\ memGiven'.query = memShown.query
       /\ \A s \in MemSources : memGiven'.items[s] > 0 =>
            /\ memGiven'.items[s] = memShown.items[s]
            /\ Eligible(s) /\ memItems[s].version = memGiven'.items[s]]_memVars

\* A deleted or expired memory does not come back: not when its stage is saved
\* again by a later read, nor when its source is confirmed a second time
\* (structured_memory_deletions).
DeletedMemoryStaysGone ==
  \A s \in memGone : memItems[s].version = 0 /\ memRows[s] = "blank"
=============================================================================
