---------------------------- MODULE ChildMemory ----------------------------
(* The long-term memory of Child Agents: ChildMemoryService                  *)
(* (runtime/memory/service.ts), which loads the whole file, changes it and   *)
(* saves it again under a promise chain, the desktop's MemoryController that *)
(* calls it through the bridge, and the kernel, which selects the records a  *)
(* Child Agent is given.  One Child Agent and one durable workspace: a scope *)
(* stands for its authorization.  A record is its number and its scope.      *)
EXTENDS Naturals, Sequences, FiniteSets

CONSTANTS
  MaxSaves,    \* bounds the records ever saved
  MaxMemRecords, \* CHILD_MEMORY_LIMITS.maximumRecords
  MaxMemOps    \* bounds the operations ever asked for

ASSUME ChildMemoryBounds ==
  MaxSaves \in Nat /\ MaxMemRecords \in Nat \ {0} /\ MaxMemOps \in Nat

Scopes == {"workspace", "child_agent"}

VARIABLES
  memoryFile,   \* records and authorizations on disk
  lapsed,       \* records past their expiresAt
  operation,    \* the chain of operations; the first is running
  loadedState,  \* what the running operation has read, if it has
  memoryUi,     \* MemoryController: busy with which operation, and the records it shows
  given,        \* the records the last selection gave a Child Agent
  memorySaves,  \* records made so far
  memoryAsked,  \* operations asked for so far
  removed,      \* records whose deletion has been acknowledged
  revoked       \* scopes whose revocation was acknowledged and not asked back

childMemoryVars ==
  <<memoryFile, lapsed, operation, loadedState, memoryUi, given, memorySaves, memoryAsked, removed, revoked>>

NotLoaded == [records |-> {}, authorizations |-> Scopes, read |-> FALSE]

ChildMemoryInit ==
  /\ memoryFile = [records |-> {}, authorizations |-> {}]
  /\ lapsed = {} /\ operation = << >> /\ loadedState = NotLoaded
  /\ memoryUi = [busy |-> "no", shown |-> {}]
  /\ given = {} /\ memorySaves = 0 /\ memoryAsked = 0 /\ removed = {} /\ revoked = {}

\* serialize: an operation waits for the ones asked for before it.
Asks(op) ==
  /\ memoryAsked < MaxMemOps /\ memoryAsked' = memoryAsked + 1
  /\ operation' = Append(operation, op)

UiAsks(op) ==
  /\ memoryUi.busy = "no"
  /\ memoryUi' = [memoryUi EXCEPT !.busy = op.kind]
  /\ Asks(op)
  /\ UNCHANGED <<memoryFile, lapsed, loadedState, given, memorySaves, removed>>

UiReads == UiAsks([kind |-> "list", by |-> "ui"]) /\ UNCHANGED revoked

UiAuthorizes ==
  \E s \in Scopes, on \in BOOLEAN :
    /\ UiAsks([kind |-> "authorize", by |-> "ui", scope |-> s, on |-> on])
    /\ revoked' = IF on THEN revoked \ {s} ELSE revoked

UiSaves ==
  \E s \in Scopes : UiAsks([kind |-> "save", by |-> "ui", scope |-> s]) /\ UNCHANGED revoked

UiDeletes ==
  \E r \in memoryUi.shown : UiAsks([kind |-> "delete", by |-> "ui", record |-> r]) /\ UNCHANGED revoked

UiExports == UiAsks([kind |-> "export", by |-> "ui"]) /\ UNCHANGED revoked

\* The bridge gives up on a slow answer; the operation stays in the chain.
UiTimesOut ==
  /\ memoryUi.busy # "no" /\ memoryUi' = [memoryUi EXCEPT !.busy = "no"]
  /\ operation' = [i \in DOMAIN operation |-> [operation[i] EXCEPT !.by = "nobody"]]
  /\ UNCHANGED <<memoryFile, lapsed, loadedState, given, memorySaves, memoryAsked, removed, revoked>>

KernelSelects ==
  /\ Asks([kind |-> "select", by |-> "nobody"])
  /\ UNCHANGED <<memoryFile, lapsed, loadedState, memoryUi, given, memorySaves, removed, revoked>>

-----------------------------------------------------------------------------
Loads(state) ==
  [records |-> {r \in state.records : r.n \notin lapsed},
   authorizations |-> state.authorizations, read |-> TRUE]

OperationLoads ==
  /\ operation # << >> /\ ~loadedState.read
  /\ loadedState' = Loads(memoryFile)
  /\ UNCHANGED <<memoryFile, lapsed, operation, memoryUi, given, memorySaves, memoryAsked, removed, revoked>>

\* What each operation makes of the loaded state; saving needs the scope's authorization and room.
MaySave(op, state) ==
  /\ op.scope \in state.authorizations
  /\ Cardinality(state.records) < MaxMemRecords
  /\ memorySaves < MaxSaves

Applied(op, state) ==
  CASE op.kind = "authorize" ->
         [state EXCEPT !.authorizations = IF op.on THEN @ \union {op.scope} ELSE @ \ {op.scope}]
    [] op.kind = "save" ->
         [state EXCEPT !.records = @ \union {[n |-> memorySaves + 1, scope |-> op.scope]}]
    [] op.kind = "delete" -> [state EXCEPT !.records = @ \ {op.record}]
    [] OTHER -> state

SelectsContext(state) == {r \in state.records : r.scope \in state.authorizations}

\* The answer, when its caller still waits; a save and a delete are followed by a list.
Answers(op, state) ==
  /\ memoryUi' = IF op.by # "ui" \/ op.kind \in {"save", "delete"} THEN memoryUi
                 ELSE [busy |-> "no",
                       shown |-> IF op.kind = "export" THEN memoryUi.shown ELSE state.records]
  /\ operation' = IF op.by = "ui" /\ op.kind \in {"save", "delete"}
                  THEN Append(Tail(operation), [kind |-> "list", by |-> "ui"])
                  ELSE Tail(operation)
  /\ given' = IF op.kind = "select" THEN SelectsContext(state) ELSE given
  /\ removed' = IF op.by = "ui" /\ op.kind = "delete" THEN removed \union {op.record} ELSE removed
  /\ revoked' = IF op.by = "ui" /\ op.kind = "authorize" /\ ~op.on
                THEN revoked \union {op.scope} ELSE revoked

SavesAnd(next) ==
  /\ loadedState.read
  /\ LET op == Head(operation)
         state == Applied(op, loadedState)
     IN /\ op.kind = "save" => MaySave(op, loadedState)
        /\ memoryFile' = [records |-> state.records, authorizations |-> state.authorizations]
        /\ memorySaves' = IF op.kind = "save" THEN memorySaves + 1 ELSE memorySaves
        /\ Answers(op, state)
  /\ loadedState' = next
  /\ UNCHANGED <<lapsed, memoryAsked>>

\* A plausible bug: the operation behind has read the file already, before this one saves.
OperationSavesOverlapped == SavesAnd(IF Len(operation) > 1 THEN loadedState ELSE NotLoaded)

OperationSaves == SavesAnd(NotLoaded)

\* The operation throws, or its save fails before the rename or only in the chmod after it.
OperationFails ==
  /\ loadedState.read
  /\ LET op == Head(operation)
         state == Applied(op, loadedState)
     IN /\ \/ UNCHANGED <<memoryFile, memorySaves>>
           \/ /\ op.kind = "save" => MaySave(op, loadedState)
              /\ memoryFile' = [records |-> state.records, authorizations |-> state.authorizations]
              /\ memorySaves' = IF op.kind = "save" THEN memorySaves + 1 ELSE memorySaves
        /\ memoryUi' = IF op.by = "ui" THEN [memoryUi EXCEPT !.busy = "no"] ELSE memoryUi
  /\ operation' = Tail(operation) /\ loadedState' = NotLoaded
  /\ UNCHANGED <<lapsed, given, memoryAsked, removed, revoked>>

RecordLapses ==
  /\ \E n \in 1..memorySaves : n \notin lapsed /\ lapsed' = lapsed \union {n}
  /\ UNCHANGED <<memoryFile, operation, loadedState, memoryUi, given, memorySaves, memoryAsked, removed, revoked>>

ChildMemoryNext ==
  \/ UiReads \/ UiAuthorizes \/ UiSaves \/ UiDeletes \/ UiExports \/ UiTimesOut \/ KernelSelects
  \/ OperationLoads \/ OperationSaves \/ OperationFails \/ RecordLapses

ChildMemorySpec == ChildMemoryInit /\ [][ChildMemoryNext]_childMemoryVars

-----------------------------------------------------------------------------
(* What the user has been told is withdrawn stays withdrawn: a record whose  *)
(* deletion was acknowledged and a scope whose revocation was acknowledged   *)
(* are not in the file again, whatever slow, timed-out or failing operations *)
(* the chain of ChildMemoryService still holds, and no later selection gives *)
(* a Child Agent anything of theirs.                                         *)
WithdrawnMemoryStaysOut ==
  [][/\ removed' \intersect memoryFile'.records = {}
     /\ revoked' \intersect memoryFile'.authorizations = {}
     /\ given' # given => \A r \in given' : r \notin removed /\ r.scope \notin revoked]_childMemoryVars
=============================================================================
