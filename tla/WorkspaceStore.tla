---------------------------- MODULE WorkspaceStore ----------------------------
(* The file store of collaboration workspaces (runtime/workspaces/store.ts): an
   index that names, per workspace, the committed revision and its manifest, one
   directory per revision, and snapshots an Agent works in. Operations are
   serialised by the store's queue but consist of several file steps.  The process
   may end between any two of them, and any of them may fail, the chmod that
   follows the rename of the index included; what a failure handler removes is
   removed, and a failing mkdir or copy leaves nothing but what it is given here. *)
EXTENDS Integers

CONSTANTS MaxWsRevision, \* revisions of a workspace
          MaxWsContent,  \* contents an Agent writes
          MaxWsEnds      \* process ends and failed file steps

ASSUME WorkspaceBounds ==
  MaxWsRevision \in Nat \ {0} /\ MaxWsContent \in Nat /\ MaxWsEnds \in Nat

VARIABLES
  wsIndex,    \* index.json: per workspace its committed revision and manifest
  wsDirs,     \* per workspace and revision: the content of its directory
  wsTemp,     \* the content of a temporary revision directory
  wsSnapshot, \* the snapshot an Agent has: workspace, revision, content
  wsOp,       \* the operation at the head of the queue and its stage
  wsReady,    \* the store is initialized
  wsExpired,  \* the ephemeral workspace's retention has passed
  wsTold,     \* per workspace: the last revision and manifest a caller was given
  wsUndone,   \* history: per workspace the revision a failed save named and its handler removed
  wsEnds      \* ends and failures so far

wsVars == <<wsIndex, wsDirs, wsTemp, wsSnapshot, wsOp, wsReady, wsExpired, wsTold, wsUndone, wsEnds>>

WsModes == {"durable_collaboration", "ephemeral_task"}  \* one workspace of each mode
WsContents == 0..MaxWsContent
NoDir == -1
NoEntry == [revision |-> 0, manifest |-> NoDir]
NoSnapshot == [of |-> "none", revision |-> 0, content |-> NoDir]
WsIdle == [kind |-> "none", stage |-> "none", of |-> "none", content |-> NoDir]
EmptyDirs == [r \in 1..MaxWsRevision |-> NoDir]

WorkspaceInit ==
  /\ wsIndex = [w \in WsModes |-> NoEntry]
  /\ wsDirs = [w \in WsModes |-> EmptyDirs]
  /\ wsTemp = NoDir
  /\ wsSnapshot = NoSnapshot
  /\ wsOp = WsIdle
  /\ wsReady = FALSE
  /\ wsExpired = FALSE
  /\ wsTold = [w \in WsModes |-> NoEntry]
  /\ wsUndone = [w \in WsModes |-> 0]
  /\ wsEnds = 0

Exclusive(op) == wsOp = WsIdle /\ wsOp' = op
WsFault == wsEnds < MaxWsEnds /\ wsEnds' = wsEnds + 1

\* requireActiveSnapshot.
ActiveSnapshot == wsSnapshot # NoSnapshot

\* saveIndex of one workspace's new entry: a temporary file, renamed, then a chmod.
SaveIndex(w, entry) == wsIndex' = [wsIndex EXCEPT ![w] = entry]

\* saveIndex throws: before the rename, or in the chmod after it, when the index is
\* already the new one.
SaveIndexFails(w, entry) == WsFault /\ (UNCHANGED wsIndex \/ SaveIndex(w, entry))

\* The handler of a failed save removes the revision the save may have named.
Undone(w, revision) ==
  wsUndone' = IF wsIndex' = wsIndex THEN wsUndone ELSE [wsUndone EXCEPT ![w] = revision]

-----------------------------------------------------------------------------
(* initialize *)

\* Snapshots never survive a start, and neither does an ephemeral workspace: its
\* directory goes first, its index entry with the save at the end.
InitializeBegins ==
  /\ ~wsReady
  /\ Exclusive([WsIdle EXCEPT !.kind = "initialize", !.stage = "load"])
  /\ wsSnapshot' = NoSnapshot
  /\ wsDirs' = IF wsIndex["ephemeral_task"] = NoEntry THEN wsDirs
               ELSE [wsDirs EXCEPT !["ephemeral_task"] = EmptyDirs]
  /\ UNCHANGED <<wsIndex, wsTemp, wsReady, wsExpired, wsTold, wsUndone, wsEnds>>

\* removeUncommittedRevisions: revisions past the committed one and temporary ones.
RemoveUncommittedRevisions ==
  /\ wsOp.kind = "initialize" /\ wsOp.stage = "load"
  /\ wsOp' = [wsOp EXCEPT !.stage = "verify"]
  /\ IF wsIndex["durable_collaboration"] = NoEntry THEN UNCHANGED <<wsDirs, wsTemp>>
     ELSE /\ wsDirs' = [wsDirs EXCEPT !["durable_collaboration"] =
                          [r \in 1..MaxWsRevision |->
                             IF r > wsIndex["durable_collaboration"].revision THEN NoDir ELSE @[r]]]
          /\ wsTemp' = NoDir
  /\ UNCHANGED <<wsIndex, wsSnapshot, wsReady, wsExpired, wsTold, wsUndone, wsEnds>>

\* verifyPersistedWorkspace: the directory of the committed revision holds what
\* the manifest says.
WorkspaceIsWhole(w) == wsDirs[w][wsIndex[w].revision] = wsIndex[w].manifest

\* A workspace that is not whole, or whose directory is gone, leaves the store closed.
DurableVerified == wsIndex["durable_collaboration"] # NoEntry => WorkspaceIsWhole("durable_collaboration")

InitializeEnds ==
  /\ wsOp.kind = "initialize" /\ wsOp.stage = "verify"
  /\ wsOp' = WsIdle
  /\ wsReady' = DurableVerified
  /\ wsIndex' = IF wsReady' THEN [wsIndex EXCEPT !["ephemeral_task"] = NoEntry] ELSE wsIndex
  /\ UNCHANGED <<wsDirs, wsTemp, wsSnapshot, wsExpired, wsTold, wsUndone, wsEnds>>

\* A read, a removal or the save fails: the store stays closed until the next call.
InitializeFails ==
  /\ wsOp.kind = "initialize"
  /\ \/ WsFault /\ UNCHANGED wsIndex
     \/ wsOp.stage = "verify" /\ DurableVerified /\ SaveIndexFails("ephemeral_task", NoEntry)
  /\ wsOp' = WsIdle
  /\ UNCHANGED <<wsDirs, wsTemp, wsSnapshot, wsReady, wsExpired, wsTold, wsUndone>>

-----------------------------------------------------------------------------
(* create, get, cleanup *)

FirstEntry == [revision |-> 1, manifest |-> 0]

CreateBegins(w) ==
  /\ wsReady /\ wsIndex[w] = NoEntry /\ wsTold[w] = NoEntry
  /\ Exclusive([WsIdle EXCEPT !.kind = "create", !.stage = "made", !.of = w])
  /\ wsDirs' = [wsDirs EXCEPT ![w][1] = 0]
  /\ UNCHANGED <<wsIndex, wsTemp, wsSnapshot, wsReady, wsExpired, wsTold, wsUndone, wsEnds>>

CreateEnds ==
  /\ wsOp.kind = "create"
  /\ wsOp' = WsIdle
  /\ SaveIndex(wsOp.of, FirstEntry)
  /\ wsTold' = [wsTold EXCEPT ![wsOp.of] = FirstEntry]
  /\ UNCHANGED <<wsDirs, wsTemp, wsSnapshot, wsReady, wsExpired, wsUndone, wsEnds>>

\* The save fails: the directory is removed again, whether or not the index names it.
CreateFails ==
  /\ wsOp.kind = "create"
  /\ SaveIndexFails(wsOp.of, FirstEntry)
  /\ Undone(wsOp.of, 1)
  /\ wsOp' = WsIdle
  /\ wsDirs' = [wsDirs EXCEPT ![wsOp.of] = EmptyDirs]
  /\ UNCHANGED <<wsTemp, wsSnapshot, wsReady, wsExpired, wsTold>>

\* isExpired; only an ephemeral workspace has a deadline.
RetentionPasses ==
  /\ ~wsExpired
  /\ wsExpired' = TRUE
  /\ UNCHANGED <<wsIndex, wsDirs, wsTemp, wsSnapshot, wsOp, wsReady, wsTold, wsUndone, wsEnds>>

\* get: the index is believed, its directory not looked at.
GetWorkspace(w) ==
  /\ wsReady /\ wsOp = WsIdle /\ wsIndex[w] # NoEntry
  /\ ~(w = "ephemeral_task" /\ wsExpired)
  /\ wsTold' = [wsTold EXCEPT ![w] = wsIndex[w]]
  /\ UNCHANGED <<wsIndex, wsDirs, wsTemp, wsSnapshot, wsOp, wsReady, wsExpired, wsUndone, wsEnds>>

\* get and cleanup of an expired workspace: directory first, index after it.
RemoveExpired ==
  /\ wsReady /\ wsExpired /\ wsIndex["ephemeral_task"] # NoEntry
  /\ Exclusive([WsIdle EXCEPT !.kind = "remove", !.stage = "removed", !.of = "ephemeral_task"])
  /\ wsDirs' = [wsDirs EXCEPT !["ephemeral_task"] = EmptyDirs]
  /\ UNCHANGED <<wsIndex, wsTemp, wsSnapshot, wsReady, wsExpired, wsTold, wsUndone, wsEnds>>

RemoveFromIndex ==
  /\ wsOp.kind = "remove"
  /\ wsOp' = WsIdle
  /\ SaveIndex("ephemeral_task", NoEntry)
  /\ UNCHANGED <<wsDirs, wsTemp, wsSnapshot, wsReady, wsExpired, wsTold, wsUndone, wsEnds>>

\* The save fails; an entry that is still there is met again by the next get.
RemoveFails ==
  /\ wsOp.kind = "remove"
  /\ SaveIndexFails("ephemeral_task", NoEntry)
  /\ wsOp' = WsIdle
  /\ UNCHANGED <<wsDirs, wsTemp, wsSnapshot, wsReady, wsExpired, wsTold, wsUndone>>

-----------------------------------------------------------------------------
(* Snapshots *)

\* createSnapshot of the revision the caller names; the copy of a directory that is
\* not there fails.
CreateSnapshot(w) ==
  /\ wsReady /\ wsOp = WsIdle /\ wsSnapshot = NoSnapshot
  /\ wsIndex[w] # NoEntry /\ wsIndex[w].revision = wsTold[w].revision
  /\ wsDirs[w][wsIndex[w].revision] # NoDir
  /\ ~(w = "ephemeral_task" /\ wsExpired)
  /\ wsSnapshot' = [of |-> w, revision |-> wsIndex[w].revision,
                    content |-> wsDirs[w][wsIndex[w].revision]]
  /\ UNCHANGED <<wsIndex, wsDirs, wsTemp, wsOp, wsReady, wsExpired, wsTold, wsUndone, wsEnds>>

\* The Agent writes in its snapshot, at any time, a commit in progress included.
AgentWrites(content) ==
  /\ wsSnapshot # NoSnapshot /\ content # wsSnapshot.content
  /\ wsSnapshot' = [wsSnapshot EXCEPT !.content = content]
  /\ UNCHANGED <<wsIndex, wsDirs, wsTemp, wsOp, wsReady, wsExpired, wsTold, wsUndone, wsEnds>>

\* commitSnapshot up to the scan of the snapshot.
CommitBegins ==
  /\ wsReady /\ ActiveSnapshot
  /\ wsIndex[wsSnapshot.of].revision = wsSnapshot.revision
  /\ wsSnapshot.revision < MaxWsRevision
  /\ Exclusive([kind |-> "commit", stage |-> "scanned", of |-> wsSnapshot.of,
                content |-> wsSnapshot.content])
  /\ UNCHANGED <<wsIndex, wsDirs, wsTemp, wsSnapshot, wsReady, wsExpired, wsTold, wsUndone, wsEnds>>

\* The manifest as it would be if the first scan were kept.
CommitCopiesScanned ==
  /\ wsOp.kind = "commit" /\ wsOp.stage = "scanned"
  /\ wsTemp' = wsSnapshot.content
  /\ wsOp' = [wsOp EXCEPT !.stage = "copied"]
  /\ UNCHANGED <<wsIndex, wsDirs, wsSnapshot, wsReady, wsExpired, wsTold, wsUndone, wsEnds>>

\* copyTreeNoSymlinks into a temporary revision, and the manifest of that copy.
CommitCopies ==
  /\ wsOp.kind = "commit" /\ wsOp.stage = "scanned"
  /\ wsTemp' = wsSnapshot.content
  /\ wsOp' = [wsOp EXCEPT !.stage = "copied", !.content = wsSnapshot.content]
  /\ UNCHANGED <<wsIndex, wsDirs, wsSnapshot, wsReady, wsExpired, wsTold, wsUndone, wsEnds>>

\* The temporary revision takes its final name.
CommitRenames ==
  /\ wsOp.kind = "commit" /\ wsOp.stage = "copied"
  /\ wsDirs' = [wsDirs EXCEPT ![wsOp.of][wsIndex[wsOp.of].revision + 1] = wsTemp]
  /\ wsTemp' = NoDir
  /\ wsOp' = [wsOp EXCEPT !.stage = "renamed"]
  /\ UNCHANGED <<wsIndex, wsSnapshot, wsReady, wsExpired, wsTold, wsUndone, wsEnds>>

NextEntry == [revision |-> wsIndex[wsOp.of].revision + 1, manifest |-> wsOp.content]

\* The index is saved.
CommitSaves ==
  /\ wsOp.kind = "commit" /\ wsOp.stage = "renamed"
  /\ SaveIndex(wsOp.of, NextEntry)
  /\ wsOp' = [wsOp EXCEPT !.stage = "saved"]
  /\ UNCHANGED <<wsDirs, wsTemp, wsSnapshot, wsReady, wsExpired, wsTold, wsUndone, wsEnds>>

\* discardActiveSnapshot, and the caller is given the new revision, unless the
\* removal of the snapshot's directory fails.
CommitEnds ==
  /\ wsOp.kind = "commit" /\ wsOp.stage = "saved"
  /\ \/ wsTold' = [wsTold EXCEPT ![wsOp.of] = wsIndex[wsOp.of]] /\ UNCHANGED wsEnds
     \/ WsFault /\ UNCHANGED wsTold
  /\ wsSnapshot' = NoSnapshot
  /\ wsOp' = WsIdle
  /\ UNCHANGED <<wsIndex, wsDirs, wsTemp, wsReady, wsExpired, wsUndone>>

\* A scan, a copy or the rename fails: the temporary revision goes.
CommitFails ==
  /\ wsOp.kind = "commit" /\ wsOp.stage \in {"scanned", "copied"}
  /\ WsFault
  /\ wsTemp' = NoDir
  /\ wsOp' = WsIdle
  /\ UNCHANGED <<wsIndex, wsDirs, wsSnapshot, wsReady, wsExpired, wsTold, wsUndone>>

\* The save fails: the published revision goes, whether or not the index names it.
CommitSaveFails ==
  /\ wsOp.kind = "commit" /\ wsOp.stage = "renamed"
  /\ SaveIndexFails(wsOp.of, NextEntry)
  /\ Undone(wsOp.of, NextEntry.revision)
  /\ wsTemp' = NoDir
  /\ wsDirs' = [wsDirs EXCEPT ![wsOp.of][NextEntry.revision] = NoDir]
  /\ wsOp' = WsIdle
  /\ UNCHANGED <<wsSnapshot, wsReady, wsExpired, wsTold>>

\* discardSnapshot, also of a snapshot whose commit met another revision.
DiscardSnapshot ==
  /\ wsOp = WsIdle /\ ActiveSnapshot
  /\ wsSnapshot' = NoSnapshot
  /\ UNCHANGED <<wsIndex, wsDirs, wsTemp, wsOp, wsReady, wsExpired, wsTold, wsUndone, wsEnds>>

\* The process ends and starts again.
StoreEnds ==
  /\ WsFault
  /\ wsOp' = WsIdle
  /\ wsReady' = FALSE
  /\ UNCHANGED <<wsIndex, wsDirs, wsTemp, wsSnapshot, wsExpired, wsTold, wsUndone>>

WorkspaceNext ==
  \/ InitializeBegins \/ RemoveUncommittedRevisions \/ InitializeEnds \/ InitializeFails
  \/ \E w \in WsModes : CreateBegins(w) \/ GetWorkspace(w) \/ CreateSnapshot(w)
  \/ CreateEnds \/ CreateFails \/ RetentionPasses \/ RemoveExpired \/ RemoveFromIndex \/ RemoveFails
  \/ \E content \in WsContents : AgentWrites(content)
  \/ CommitBegins \/ CommitCopies \/ CommitRenames \/ CommitSaves \/ CommitEnds \/ CommitFails \/ CommitSaveFails
  \/ DiscardSnapshot \/ StoreEnds

WorkspaceSpec == WorkspaceInit /\ [][WorkspaceNext]_wsVars

-----------------------------------------------------------------------------
(* Whatever step of a commit, a removal or a start fails or is the last one of
   the process, and whatever an Agent writes meanwhile, the index names a durable
   revision whose directory holds exactly its manifest, so the store can be opened
   again, but for one case: the chmod after the rename of the index failed, and the
   handler of create or commitSnapshot removed the revision the index had just
   named (store.ts:172-175, 269-272, 374-375).  The index never goes behind a revision
   a caller was given, nor changes its manifest (store.ts:104-128, 234-277). *)
CommittedWorkspaceIsWhole ==
  LET committed == wsIndex["durable_collaboration"]
      told == wsTold["durable_collaboration"]
  IN /\ committed # NoEntry => \/ WorkspaceIsWhole("durable_collaboration")
                               \/ committed.revision = wsUndone["durable_collaboration"]
     /\ told.revision <= committed.revision
     /\ told.revision = committed.revision => told = committed
=============================================================================
