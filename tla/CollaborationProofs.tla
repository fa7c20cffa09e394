------------------------- MODULE CollaborationProofs -------------------------
(***************************************************************************)
(* Proofs about what two connected peers do together: the workspace store  *)
(* loses a committed revision only to the failed save that named it        *)
(* (CommittedWorkspaceIsWhole), both sides of a session tell the           *)
(* same plan (SessionIsSound), the read model shows what is stored         *)
(* (ViewShowsTheStore), images are what their records say (ImagesAreTrue), *)
(* a quiet Passport channel has delivered the latest content               *)
(* (PassportConverges), and structured memory obeys the user               *)
(* (MemoryObeysTheUser).                                                   *)
(***************************************************************************)
EXTENDS MCCollaboration, SequenceTheorems, FiniteSetTheorems, TLAPS

-----------------------------------------------------------------------------
(* The workspace store                                                     *)

Durable == "durable_collaboration"
WsFiles == WsContents \cup {NoDir}
WsEntries == [revision : 0 .. MaxWsRevision, manifest : WsFiles]
WsStages == {"none", "load", "verify", "made", "removed", "scanned", "copied", "renamed", "saved"}
WsOps == [kind : {"none", "initialize", "create", "remove", "commit"}, stage : WsStages,
          of : WsModes \cup {"none"}, content : WsFiles]

WsTypes ==
  /\ wsIndex \in [WsModes -> WsEntries]
  /\ wsTold \in [WsModes -> WsEntries]
  /\ wsDirs \in [WsModes -> [1 .. MaxWsRevision -> WsFiles]]
  /\ wsTemp \in WsFiles
  /\ wsSnapshot \in [of : WsModes \cup {"none"}, revision : 0 .. MaxWsRevision, content : WsFiles]
  /\ wsOp \in WsOps
  /\ wsUndone \in [WsModes -> 0 .. MaxWsRevision]

(* An entry of the index has a revision, whose directory is whole unless   *)
(* it was a failed save that named it and its handler that removed it.     *)
IndexIsWhole ==
  /\ \A w \in WsModes : wsIndex[w] # NoEntry => wsIndex[w].revision \in 1 .. MaxWsRevision
  /\ wsIndex[Durable] # NoEntry =>
       WorkspaceIsWhole(Durable) \/ wsIndex[Durable].revision = wsUndone[Durable]

(* What a caller was told is in the index, or is followed by it.           *)
ToldIsKept ==
  /\ wsTold[Durable].revision <= wsIndex[Durable].revision
  /\ wsTold[Durable].revision = wsIndex[Durable].revision => wsTold[Durable] = wsIndex[Durable]

SnapshotOf == wsSnapshot # NoSnapshot => wsSnapshot.of \in WsModes /\ wsSnapshot.revision > 0

(* A create in progress: its directory is there, its entry is not.         *)
Creating ==
  wsOp.kind = "create" => /\ wsOp.of \in WsModes /\ wsIndex[wsOp.of] = NoEntry
                          /\ wsDirs[wsOp.of][1] = 0 /\ wsTold[wsOp.of] = NoEntry

(* A commit in progress: what it will name in the index is what its        *)
(* directory holds, whatever the Agent has written since the copy.         *)
Committing ==
  wsOp.kind = "commit" =>
    /\ wsOp.of \in WsModes
    /\ wsOp.stage \in {"scanned", "copied", "renamed"} =>
         wsIndex[wsOp.of].revision \in 1 .. (MaxWsRevision - 1)
    /\ wsOp.stage = "copied" => wsTemp = wsOp.content
    /\ wsOp.stage = "renamed" => wsDirs[wsOp.of][wsIndex[wsOp.of].revision + 1] = wsOp.content

WsInv == WsTypes /\ IndexIsWhole /\ ToldIsKept /\ SnapshotOf /\ Creating /\ Committing

(* The empty store.                                                        *)
LEMMA WorkspaceBegins == WorkspaceInit => WsInv
BY WorkspaceBounds
DEF WorkspaceInit, WsInv, WsTypes, IndexIsWhole, ToldIsKept, SnapshotOf, Creating, Committing, Durable,
    WsFiles, WsEntries, WsStages, WsOps, WsModes, WsContents, NoDir, NoEntry, NoSnapshot, WsIdle, EmptyDirs

(* A start clears what it may clear.                                       *)
LEMMA InitializeKeepsStore ==
  ASSUME WsInv, InitializeBegins \/ RemoveUncommittedRevisions \/ InitializeEnds \/ InitializeFails
  PROVE  WsInv'
<1> USE WorkspaceBounds DEF WsModes, Durable, WsContents, NoDir, NoEntry, WsFiles
<1>1. CASE InitializeBegins
  <2>1. wsDirs' \in [WsModes -> [1 .. MaxWsRevision -> WsFiles]] /\ wsDirs'[Durable] = wsDirs[Durable]
    BY <1>1 DEF InitializeBegins, WsInv, WsTypes, EmptyDirs
  <2>2. WsTypes'
    <3>1. wsOp' \in WsOps
      BY <1>1 DEF InitializeBegins, Exclusive, WsIdle, WsOps, WsStages
    <3>2. wsSnapshot' \in [of : WsModes \cup {"none"}, revision : 0 .. MaxWsRevision, content : WsFiles]
      BY <1>1 DEF InitializeBegins, NoSnapshot
    <3>3. UNCHANGED <<wsIndex, wsTold, wsTemp, wsUndone>>
      BY <1>1 DEF InitializeBegins
    <3> QED BY <2>1, <3>1, <3>2, <3>3 DEF WsInv, WsTypes
  <2>3. (IndexIsWhole /\ ToldIsKept /\ SnapshotOf /\ Creating /\ Committing)'
    BY <1>1, <2>1 DEF InitializeBegins, Exclusive, WsInv, WsIdle, NoSnapshot, IndexIsWhole, ToldIsKept,
       SnapshotOf, Creating, Committing, WorkspaceIsWhole
  <2> QED BY <2>2, <2>3 DEF WsInv
<1>2. CASE RemoveUncommittedRevisions
  <2>1. /\ wsDirs' \in [WsModes -> [1 .. MaxWsRevision -> WsFiles]]
        /\ wsTemp' \in WsFiles
        /\ wsIndex[Durable] # NoEntry =>
             wsDirs'[Durable][wsIndex[Durable].revision] = wsDirs[Durable][wsIndex[Durable].revision]
    <3> DEFINE kept == [r \in 1 .. MaxWsRevision |->
                          IF r > wsIndex[Durable].revision THEN NoDir ELSE wsDirs[Durable][r]]
    <3>1. kept \in [1 .. MaxWsRevision -> WsFiles] /\ wsTemp \in WsFiles
      BY DEF WsInv, WsTypes
    <3>2. wsIndex[Durable] # NoEntry => wsIndex[Durable].revision \in 1 .. MaxWsRevision
      BY DEF WsInv, IndexIsWhole
    <3>3. \/ wsIndex[Durable] = NoEntry /\ UNCHANGED <<wsDirs, wsTemp>>
          \/ wsDirs' = [wsDirs EXCEPT ![Durable] = kept] /\ wsTemp' = NoDir
      BY <1>2 DEF RemoveUncommittedRevisions, WsInv, WsTypes
    <3>4. wsIndex[Durable] # NoEntry =>
            kept[wsIndex[Durable].revision] = wsDirs[Durable][wsIndex[Durable].revision]
      BY <3>2
    <3> HIDE DEF kept
    <3> QED BY <3>1, <3>3, <3>4 DEF WsInv, WsTypes
  <2>2. wsOp' \in WsOps /\ wsOp'.kind = "initialize"
    BY <1>2 DEF RemoveUncommittedRevisions, WsInv, WsTypes, WsOps, WsStages
  <2>3. WsTypes'
    BY <1>2, <2>1, <2>2 DEF RemoveUncommittedRevisions, WsInv, WsTypes
  <2>4. (IndexIsWhole /\ ToldIsKept /\ SnapshotOf /\ Creating /\ Committing)'
    BY <1>2, <2>1, <2>2 DEF RemoveUncommittedRevisions, WsInv, IndexIsWhole, ToldIsKept, SnapshotOf,
       Creating, Committing, WorkspaceIsWhole
  <2> QED BY <2>3, <2>4 DEF WsInv
<1>3. CASE InitializeEnds
  <2>1. /\ wsIndex' \in [WsModes -> WsEntries] /\ wsIndex'[Durable] = wsIndex[Durable]
        /\ wsOp' = WsIdle
    BY <1>3 DEF InitializeEnds, WsInv, WsTypes, WsEntries
  <2>2. WsTypes'
    BY <1>3, <2>1 DEF InitializeEnds, WsInv, WsTypes, WsIdle, WsOps, WsStages
  <2>3. (IndexIsWhole /\ ToldIsKept /\ SnapshotOf /\ Creating /\ Committing)'
    BY <1>3, <2>1 DEF InitializeEnds, WsInv, IndexIsWhole, ToldIsKept, SnapshotOf,
       Creating, Committing, WorkspaceIsWhole, WsIdle
  <2> QED BY <2>2, <2>3 DEF WsInv
<1>4. CASE InitializeFails
  <2>1. wsIndex' = wsIndex \/ wsIndex' = [wsIndex EXCEPT !["ephemeral_task"] = NoEntry]
    BY <1>4 DEF InitializeFails, SaveIndexFails, SaveIndex
  <2>2. /\ wsIndex' \in [WsModes -> WsEntries] /\ wsIndex'[Durable] = wsIndex[Durable]
        /\ \A w \in WsModes : wsIndex'[w] = wsIndex[w] \/ wsIndex'[w] = NoEntry
    BY <2>1 DEF WsInv, WsTypes, WsEntries
  <2>3. wsOp' = WsIdle /\ UNCHANGED <<wsDirs, wsTemp, wsSnapshot, wsTold, wsUndone>>
    BY <1>4 DEF InitializeFails
  <2>4. WsTypes'
    BY <2>2, <2>3 DEF WsInv, WsTypes, WsIdle, WsOps, WsStages
  <2>5. (IndexIsWhole /\ ToldIsKept /\ SnapshotOf /\ Creating /\ Committing)'
    BY <2>2, <2>3 DEF WsInv, IndexIsWhole, ToldIsKept, SnapshotOf,
       Creating, Committing, WorkspaceIsWhole, WsIdle
  <2> QED BY <2>4, <2>5 DEF WsInv
<1> QED BY <1>1, <1>2, <1>3, <1>4

(* A create makes the directory first and names it in the index after it.  *)
LEMMA CreateKeepsStore ==
  ASSUME WsInv, (\E w \in WsModes : CreateBegins(w)) \/ CreateEnds \/ CreateFails
  PROVE  WsInv'
<1> USE WorkspaceBounds DEF WsModes, Durable, WsContents, NoDir, NoEntry, WsFiles
<1>1. ASSUME NEW w \in WsModes, CreateBegins(w) PROVE WsInv'
  <2>1. /\ wsDirs' \in [WsModes -> [1 .. MaxWsRevision -> WsFiles]] /\ wsDirs'[w][1] = 0
        /\ wsIndex[Durable] # NoEntry => wsDirs'[Durable] = wsDirs[Durable]
    BY <1>1 DEF CreateBegins, WsInv, WsTypes
  <2>2. WsTypes'
    BY <1>1, <2>1 DEF CreateBegins, Exclusive, WsInv, WsTypes, WsIdle, WsOps, WsStages
  <2>3. (IndexIsWhole /\ ToldIsKept /\ SnapshotOf /\ Creating /\ Committing)'
    BY <1>1, <2>1 DEF CreateBegins, Exclusive, WsInv, WsIdle, IndexIsWhole, ToldIsKept,
       SnapshotOf, Creating, Committing, WorkspaceIsWhole
  <2> QED BY <2>2, <2>3 DEF WsInv
<1>2. CASE CreateEnds
  <2> DEFINE w == wsOp.of
             first == [revision |-> 1, manifest |-> 0]
  <2>1. w \in WsModes /\ wsIndex[w] = NoEntry /\ wsDirs[w][1] = 0 /\ first \in WsEntries
    BY <1>2 DEF CreateEnds, WsInv, Creating, WsEntries
  <2>2. /\ wsIndex' = [wsIndex EXCEPT ![w] = first] /\ wsTold' = [wsTold EXCEPT ![w] = first]
        /\ wsOp' = WsIdle /\ UNCHANGED <<wsDirs, wsTemp, wsSnapshot, wsUndone>>
    BY <1>2 DEF CreateEnds, SaveIndex, FirstEntry
  <2>3. WsTypes'
    BY <2>1, <2>2 DEF WsInv, WsTypes, WsIdle, WsOps, WsStages
  <2>4. (IndexIsWhole /\ ToldIsKept)'
    <3>1. CASE w = Durable
      BY <2>1, <2>2, <3>1 DEF WsInv, WsTypes, IndexIsWhole, ToldIsKept, WorkspaceIsWhole
    <3>2. CASE w # Durable
      BY <2>1, <2>2, <3>2 DEF WsInv, WsTypes, IndexIsWhole, ToldIsKept, WorkspaceIsWhole
    <3> QED BY <3>1, <3>2
  <2>5. (SnapshotOf /\ Creating /\ Committing)'
    BY <2>2 DEF WsInv, SnapshotOf, Creating, Committing, WsIdle
  <2> QED BY <2>3, <2>4, <2>5 DEF WsInv
<1>3. CASE CreateFails
  <2> DEFINE w == wsOp.of
  <2>1. w \in WsModes /\ wsIndex[w] = NoEntry /\ wsTold[w] = NoEntry
    BY <1>3 DEF CreateFails, WsInv, Creating
  <2>2. /\ wsDirs' \in [WsModes -> [1 .. MaxWsRevision -> WsFiles]]
        /\ w # Durable => wsDirs'[Durable] = wsDirs[Durable]
    BY <1>3, <2>1 DEF CreateFails, WsInv, WsTypes, EmptyDirs
  <2>3. /\ wsOp' = WsIdle /\ UNCHANGED <<wsTemp, wsSnapshot, wsTold>>
        /\ wsUndone' = IF wsIndex' = wsIndex THEN wsUndone ELSE [wsUndone EXCEPT ![w] = 1]
    BY <1>3 DEF CreateFails, Undone
  <2>4. /\ wsIndex' \in [WsModes -> WsEntries] /\ wsUndone' \in [WsModes -> 0 .. MaxWsRevision]
        /\ \A v \in WsModes \ {w} : wsIndex'[v] = wsIndex[v] /\ wsUndone'[v] = wsUndone[v]
        /\ \/ wsIndex'[w] = NoEntry
           \/ wsIndex'[w].revision = 1 /\ wsUndone'[w] = 1
    <3>1. FirstEntry \in WsEntries /\ FirstEntry.revision = 1
      BY DEF FirstEntry, WsEntries
    <3>2. CASE wsIndex' = wsIndex
      BY <2>1, <2>3, <3>2 DEF WsInv, WsTypes
    <3>3. CASE wsIndex' # wsIndex
      <4>1. wsIndex' = [wsIndex EXCEPT ![w] = FirstEntry]
        BY <1>3, <3>3 DEF CreateFails, SaveIndexFails, SaveIndex
      <4> QED BY <2>1, <2>3, <3>1, <3>3, <4>1 DEF WsInv, WsTypes
    <3> QED BY <3>2, <3>3
  <2>5. WsTypes'
    BY <2>2, <2>3, <2>4 DEF WsInv, WsTypes, WsIdle, WsOps, WsStages
  <2>6. (SnapshotOf /\ Creating /\ Committing)'
    BY <2>3 DEF WsInv, SnapshotOf, Creating, Committing, WsIdle
  <2>7. (IndexIsWhole /\ ToldIsKept)'
    <3>1. CASE w = Durable
      BY <2>1, <2>3, <2>4, <3>1 DEF WsInv, IndexIsWhole, ToldIsKept, WorkspaceIsWhole
    <3>2. CASE w # Durable
      BY <2>1, <2>2, <2>3, <2>4, <3>2 DEF WsInv, IndexIsWhole, ToldIsKept, WorkspaceIsWhole
    <3> QED BY <3>1, <3>2
  <2> QED BY <2>5, <2>6, <2>7 DEF WsInv
<1> QED BY <1>1, <1>2, <1>3

(* An expired workspace is the ephemeral one; snapshots and ends of the    *)
(* process leave index and directories alone.                              *)
LEMMA AsideKeepsStore ==
  ASSUME WsInv,
         \/ RetentionPasses \/ RemoveExpired \/ RemoveFromIndex \/ RemoveFails \/ DiscardSnapshot \/ StoreEnds
         \/ \E w \in WsModes : GetWorkspace(w) \/ CreateSnapshot(w)
         \/ \E content \in WsContents : AgentWrites(content)
  PROVE  WsInv'
<1> USE WorkspaceBounds DEF WsModes, Durable, WsContents, NoDir, NoEntry, WsFiles
<1>1. CASE RetentionPasses
  BY <1>1 DEF RetentionPasses, WsInv, WsTypes, IndexIsWhole, ToldIsKept, SnapshotOf, Creating, Committing,
     WorkspaceIsWhole
<1>2. CASE RemoveExpired
  <2>1. wsDirs' \in [WsModes -> [1 .. MaxWsRevision -> WsFiles]] /\ wsDirs'[Durable] = wsDirs[Durable]
    BY <1>2 DEF RemoveExpired, WsInv, WsTypes, EmptyDirs
  <2>2. WsTypes'
    BY <1>2, <2>1 DEF RemoveExpired, Exclusive, WsInv, WsTypes, WsIdle, WsOps, WsStages
  <2>3. (IndexIsWhole /\ ToldIsKept /\ SnapshotOf /\ Creating /\ Committing)'
    BY <1>2, <2>1 DEF RemoveExpired, Exclusive, WsInv, WsIdle, IndexIsWhole, ToldIsKept, SnapshotOf,
       Creating, Committing, WorkspaceIsWhole
  <2> QED BY <2>2, <2>3 DEF WsInv
<1>3. CASE RemoveFromIndex
  <2>1. /\ wsIndex' \in [WsModes -> WsEntries] /\ wsIndex'[Durable] = wsIndex[Durable] /\ wsOp' = WsIdle
        /\ wsIndex'["ephemeral_task"] = NoEntry
    BY <1>3 DEF RemoveFromIndex, SaveIndex, WsInv, WsTypes, WsEntries
  <2>2. WsTypes'
    <3>1. WsIdle \in WsOps
      BY DEF WsIdle, WsOps, WsStages
    <3>2. UNCHANGED <<wsDirs, wsTemp, wsSnapshot, wsTold, wsUndone>>
      BY <1>3 DEF RemoveFromIndex
    <3>3. wsOp' \in WsOps
      BY <2>1, <3>1
    <3> HIDE DEF WsModes, WsFiles, NoDir
    <3> QED BY <2>1, <3>2, <3>3 DEF WsInv, WsTypes
  <2>3. (IndexIsWhole /\ ToldIsKept /\ SnapshotOf /\ Creating /\ Committing)'
    BY <1>3, <2>1 DEF RemoveFromIndex, WsInv, WsIdle, IndexIsWhole, ToldIsKept, SnapshotOf,
       Creating, Committing, WorkspaceIsWhole
  <2> QED BY <2>2, <2>3 DEF WsInv
<1>4. CASE DiscardSnapshot
  BY <1>4 DEF DiscardSnapshot, WsInv, WsTypes, IndexIsWhole, ToldIsKept, SnapshotOf, Creating, Committing,
     WorkspaceIsWhole, NoSnapshot
<1>5. CASE StoreEnds
  BY <1>5 DEF StoreEnds, WsInv, WsTypes, IndexIsWhole, ToldIsKept, SnapshotOf, Creating, Committing,
     WorkspaceIsWhole, WsIdle, WsOps, WsStages
<1>6. ASSUME NEW w \in WsModes, CreateSnapshot(w) PROVE WsInv'
  <2>1. wsIndex[w] \in WsEntries /\ wsIndex[w] # NoEntry
    BY <1>6 DEF CreateSnapshot, WsInv, WsTypes
  <2>2. wsIndex[w].revision \in 1 .. MaxWsRevision
    BY <2>1 DEF WsInv, IndexIsWhole
  <2>3. wsDirs[w][wsIndex[w].revision] \in WsFiles
    BY <2>2 DEF WsInv, WsTypes
  <2>4. /\ wsSnapshot' \in [of : WsModes \cup {"none"}, revision : 0 .. MaxWsRevision, content : WsFiles]
        /\ wsSnapshot'.of = w /\ wsSnapshot'.revision > 0
    BY <1>6, <2>2, <2>3 DEF CreateSnapshot
  <2> QED
    BY <1>6, <2>4 DEF CreateSnapshot, WsInv, WsTypes, IndexIsWhole, ToldIsKept, SnapshotOf, Creating, Committing,
       WorkspaceIsWhole
<1>7. ASSUME NEW content \in WsContents, AgentWrites(content) PROVE WsInv'
  <2>1. /\ wsSnapshot' \in [of : WsModes \cup {"none"}, revision : 0 .. MaxWsRevision, content : WsFiles]
        /\ wsSnapshot'.of = wsSnapshot.of /\ wsSnapshot'.revision = wsSnapshot.revision
        /\ wsSnapshot # NoSnapshot
    BY <1>7 DEF AgentWrites, WsInv, WsTypes
  <2> QED
    BY <1>7, <2>1 DEF AgentWrites, WsInv, WsTypes, IndexIsWhole, ToldIsKept, SnapshotOf, Creating, Committing,
       WorkspaceIsWhole
<1>8. CASE RemoveFails
  <2>1. wsIndex' = wsIndex \/ wsIndex' = [wsIndex EXCEPT !["ephemeral_task"] = NoEntry]
    BY <1>8 DEF RemoveFails, SaveIndexFails, SaveIndex
  <2>2. /\ wsIndex' \in [WsModes -> WsEntries] /\ wsIndex'[Durable] = wsIndex[Durable]
        /\ \A w \in WsModes : wsIndex'[w] = wsIndex[w] \/ wsIndex'[w] = NoEntry
    BY <2>1 DEF WsInv, WsTypes, WsEntries
  <2>3. wsOp' = WsIdle /\ UNCHANGED <<wsDirs, wsTemp, wsSnapshot, wsTold, wsUndone>>
    BY <1>8 DEF RemoveFails
  <2>4. WsTypes'
    BY <2>2, <2>3 DEF WsInv, WsTypes, WsIdle, WsOps, WsStages
  <2>5. (IndexIsWhole /\ ToldIsKept /\ SnapshotOf /\ Creating /\ Committing)'
    BY <2>2, <2>3 DEF WsInv, IndexIsWhole, ToldIsKept, SnapshotOf,
       Creating, Committing, WorkspaceIsWhole, WsIdle
  <2> QED BY <2>4, <2>5 DEF WsInv
<1>9. ASSUME NEW w \in WsModes, GetWorkspace(w) PROVE WsInv'
  <2>1. /\ wsTold' \in [WsModes -> WsEntries]
        /\ wsTold'[Durable] = wsTold[Durable] \/ wsTold'[Durable] = wsIndex[Durable]
    BY <1>9 DEF GetWorkspace, WsInv, WsTypes
  <2>2. UNCHANGED <<wsIndex, wsDirs, wsTemp, wsSnapshot, wsOp, wsUndone>> /\ wsOp = WsIdle
    BY <1>9 DEF GetWorkspace
  <2>3. WsTypes'
    BY <2>1, <2>2 DEF WsInv, WsTypes
  <2>4. (IndexIsWhole /\ ToldIsKept)'
    BY <2>1, <2>2 DEF WsInv, WsTypes, WsEntries, IndexIsWhole, ToldIsKept, WorkspaceIsWhole
  <2>5. (SnapshotOf /\ Creating /\ Committing)'
    BY <2>2 DEF WsInv, SnapshotOf, Creating, Committing, WsIdle
  <2> QED BY <2>3, <2>4, <2>5 DEF WsInv
<1> QED BY <1>1, <1>2, <1>3, <1>4, <1>5, <1>6, <1>7, <1>8, <1>9

(* A commit: scanned, copied, renamed, named in the index; or it fails.    *)
LEMMA CommitKeepsStore ==
  ASSUME WsInv,
         \/ CommitBegins \/ CommitCopies \/ CommitRenames \/ CommitSaves \/ CommitEnds
         \/ CommitFails \/ CommitSaveFails
  PROVE  WsInv'
<1> USE WorkspaceBounds DEF WsModes, Durable, WsContents, NoDir, NoEntry, WsFiles
<1>1. CASE CommitBegins
  <2>1. wsSnapshot.of \in WsModes /\ wsIndex[wsSnapshot.of].revision \in 1 .. (MaxWsRevision - 1)
    BY <1>1 DEF CommitBegins, ActiveSnapshot, WsInv, WsTypes, SnapshotOf
  <2>2. /\ wsOp' \in WsOps /\ wsOp'.kind = "commit" /\ wsOp'.stage = "scanned"
        /\ wsOp'.of = wsSnapshot.of
    BY <1>1 DEF CommitBegins, Exclusive, WsInv, WsTypes, WsOps, WsStages
  <2>3. UNCHANGED <<wsIndex, wsDirs, wsTemp, wsSnapshot, wsTold, wsUndone>>
    BY <1>1 DEF CommitBegins
  <2> QED
    BY <2>1, <2>2, <2>3 DEF WsInv, WsTypes, IndexIsWhole, ToldIsKept, SnapshotOf, Creating, Committing,
       WorkspaceIsWhole
<1>2. CASE CommitCopies
  <2>1. /\ wsOp' \in WsOps /\ wsOp'.kind = "commit" /\ wsOp'.stage = "copied"
        /\ wsOp'.of = wsOp.of /\ wsOp'.content = wsSnapshot.content
        /\ wsTemp' = wsSnapshot.content /\ wsTemp' \in WsFiles
    BY <1>2 DEF CommitCopies, WsInv, WsTypes, WsOps, WsStages
  <2>2. UNCHANGED <<wsIndex, wsDirs, wsSnapshot, wsTold, wsUndone>> /\ wsOp.kind = "commit" /\ wsOp.stage = "scanned"
    BY <1>2 DEF CommitCopies
  <2> QED
    BY <2>1, <2>2 DEF WsInv, WsTypes, IndexIsWhole, ToldIsKept, SnapshotOf, Creating, Committing,
       WorkspaceIsWhole
<1> DEFINE w == wsOp.of
           next == wsIndex[w].revision + 1
<1>3. CASE CommitRenames
  <2>1. /\ w \in WsModes /\ wsIndex[w].revision \in 1 .. (MaxWsRevision - 1)
        /\ wsTemp = wsOp.content /\ wsOp.kind = "commit" /\ wsOp.content \in WsFiles
    BY <1>3 DEF CommitRenames, WsInv, WsTypes, WsOps, Committing
  <2>2. wsDirs' = [wsDirs EXCEPT ![w][next] = wsTemp] /\ next \in 2 .. MaxWsRevision
    BY <1>3, <2>1 DEF CommitRenames
  <2>3. /\ wsDirs' \in [WsModes -> [1 .. MaxWsRevision -> WsFiles]]
        /\ wsDirs'[w][next] = wsOp.content
        /\ wsIndex[Durable] # NoEntry =>
             wsDirs'[Durable][wsIndex[Durable].revision] = wsDirs[Durable][wsIndex[Durable].revision]
    <3>1. wsDirs \in [WsModes -> [1 .. MaxWsRevision -> WsFiles]]
      BY DEF WsInv, WsTypes
    <3>2. wsDirs' \in [WsModes -> [1 .. MaxWsRevision -> WsFiles]] /\ wsDirs'[w][next] = wsOp.content
      BY <2>1, <2>2, <3>1
    <3>3. CASE w = Durable
      BY <2>1, <2>2, <3>1, <3>2, <3>3
    <3>4. CASE w # Durable
      BY <2>1, <2>2, <3>1, <3>2, <3>4
    <3> QED BY <3>2, <3>3, <3>4
  <2>4. /\ wsOp' \in WsOps /\ wsOp'.kind = "commit" /\ wsOp'.stage = "renamed"
        /\ wsOp'.of = wsOp.of /\ wsOp'.content = wsOp.content
        /\ wsTemp' = NoDir /\ UNCHANGED <<wsIndex, wsSnapshot, wsTold, wsUndone>>
    BY <1>3 DEF CommitRenames, WsInv, WsTypes, WsOps, WsStages
  <2>5. WsTypes'
    BY <2>3, <2>4 DEF WsInv, WsTypes
  <2>6. (IndexIsWhole /\ ToldIsKept /\ SnapshotOf /\ Creating)'
    BY <2>3, <2>4 DEF WsInv, IndexIsWhole, ToldIsKept, SnapshotOf, Creating, WorkspaceIsWhole
  <2>7. Committing'
    BY <2>1, <2>3, <2>4 DEF Committing
  <2> QED BY <2>5, <2>6, <2>7 DEF WsInv
<1>4. CASE CommitSaves
  <2> DEFINE entry == [revision |-> next, manifest |-> wsOp.content]
  <2>1. /\ w \in WsModes /\ wsIndex[w].revision \in 1 .. (MaxWsRevision - 1)
        /\ wsDirs[w][next] = wsOp.content /\ next \in 1 .. MaxWsRevision /\ entry \in WsEntries
    BY <1>4 DEF CommitSaves, WsInv, WsTypes, WsOps, Committing, WsEntries
  <2>2. /\ wsIndex' = [wsIndex EXCEPT ![w] = entry]
        /\ wsOp' \in WsOps /\ wsOp'.kind = "commit" /\ wsOp'.stage = "saved" /\ wsOp'.of = w
        /\ UNCHANGED <<wsDirs, wsTemp, wsSnapshot, wsTold, wsUndone>>
    BY <1>4 DEF CommitSaves, SaveIndex, NextEntry, WsInv, WsTypes, WsOps, WsStages
  <2>3. wsIndex' \in [WsModes -> WsEntries] /\ wsIndex'[w] = entry
        /\ \A v \in WsModes \ {w} : wsIndex'[v] = wsIndex[v]
    BY <2>1, <2>2 DEF WsInv, WsTypes
  <2>4. WsTypes'
    BY <2>2, <2>3 DEF WsInv, WsTypes
  <2>5. (IndexIsWhole /\ ToldIsKept)'
    <3>1. CASE w = Durable
      BY <2>1, <2>2, <2>3, <3>1 DEF WsInv, WsTypes, WsEntries, IndexIsWhole, ToldIsKept, WorkspaceIsWhole
    <3>2. CASE w # Durable
      BY <2>1, <2>2, <2>3, <3>2 DEF WsInv, IndexIsWhole, ToldIsKept, WorkspaceIsWhole
    <3> QED BY <3>1, <3>2
  <2>6. (SnapshotOf /\ Creating /\ Committing)'
    BY <2>1, <2>2 DEF WsInv, SnapshotOf, Creating, Committing
  <2> QED BY <2>4, <2>5, <2>6 DEF WsInv
<1>5. CASE CommitEnds
  <2>1. w \in WsModes /\ (wsTold' = [wsTold EXCEPT ![w] = wsIndex[w]] \/ wsTold' = wsTold)
    BY <1>5 DEF CommitEnds, WsInv, Committing
  <2>2. wsTold' \in [WsModes -> WsEntries] /\ (wsTold'[Durable] = wsTold[Durable] \/ wsTold'[Durable] = wsIndex[Durable])
    BY <2>1 DEF WsInv, WsTypes
  <2>3. wsSnapshot' = NoSnapshot /\ wsOp' = WsIdle /\ UNCHANGED <<wsIndex, wsDirs, wsTemp, wsUndone>>
    BY <1>5 DEF CommitEnds
  <2>4. WsTypes'
    BY <2>2, <2>3 DEF WsInv, WsTypes, WsIdle, WsOps, WsStages, NoSnapshot
  <2>5. (IndexIsWhole /\ ToldIsKept)'
    BY <2>2, <2>3 DEF WsInv, WsTypes, WsEntries, IndexIsWhole, ToldIsKept, WorkspaceIsWhole
  <2>6. (SnapshotOf /\ Creating /\ Committing)'
    BY <2>3 DEF SnapshotOf, Creating, Committing, WsIdle
  <2> QED BY <2>4, <2>5, <2>6 DEF WsInv
<1>6. CASE CommitFails
  <2>1. wsTemp' = NoDir /\ wsOp' = WsIdle /\ UNCHANGED <<wsIndex, wsDirs, wsSnapshot, wsTold, wsUndone>>
    BY <1>6 DEF CommitFails
  <2>2. WsTypes'
    BY <2>1 DEF WsInv, WsTypes, WsIdle, WsOps, WsStages
  <2>3. (IndexIsWhole /\ ToldIsKept /\ SnapshotOf /\ Creating /\ Committing)'
    BY <2>1 DEF WsInv, IndexIsWhole, ToldIsKept, SnapshotOf, Creating, Committing, WorkspaceIsWhole, WsIdle
  <2> QED BY <2>2, <2>3 DEF WsInv
<1>7. CASE CommitSaveFails
  <2> DEFINE entry == [revision |-> next, manifest |-> wsOp.content]
  <2>1. /\ w \in WsModes /\ wsIndex[w].revision \in 1 .. (MaxWsRevision - 1)
        /\ next \in 2 .. MaxWsRevision /\ entry \in WsEntries
    BY <1>7 DEF CommitSaveFails, WsInv, WsTypes, WsOps, Committing, WsEntries
  <2>2. /\ wsDirs' = [wsDirs EXCEPT ![w][next] = NoDir]
        /\ wsTemp' = NoDir /\ wsOp' = WsIdle /\ UNCHANGED <<wsSnapshot, wsTold>>
        /\ wsUndone' = IF wsIndex' = wsIndex THEN wsUndone ELSE [wsUndone EXCEPT ![w] = next]
    BY <1>7 DEF CommitSaveFails, Undone, NextEntry
  <2>3. wsDirs' \in [WsModes -> [1 .. MaxWsRevision -> WsFiles]]
    <3>1. wsDirs \in [WsModes -> [1 .. MaxWsRevision -> WsFiles]] /\ NoDir \in WsFiles
      BY DEF WsInv, WsTypes
    <3> QED BY <2>1, <2>2, <3>1
  <2>4. /\ w # Durable => wsDirs'[Durable] = wsDirs[Durable]
        /\ wsDirs'[w][wsIndex[w].revision] = wsDirs[w][wsIndex[w].revision]
    <3>1. wsDirs \in [WsModes -> [1 .. MaxWsRevision -> WsFiles]]
      BY DEF WsInv, WsTypes
    <3> QED BY <2>1, <2>2, <3>1
  <2>5. /\ wsIndex' \in [WsModes -> WsEntries] /\ wsUndone' \in [WsModes -> 0 .. MaxWsRevision]
        /\ \A v \in WsModes \ {w} : wsIndex'[v] = wsIndex[v] /\ wsUndone'[v] = wsUndone[v]
        /\ \/ wsIndex'[w] = wsIndex[w] /\ wsUndone'[w] = wsUndone[w]
           \/ wsIndex'[w].revision = next /\ wsUndone'[w] = next
    <3>1. CASE wsIndex' = wsIndex
      BY <2>2, <3>1 DEF WsInv, WsTypes
    <3>2. CASE wsIndex' # wsIndex
      <4>1. wsIndex' = [wsIndex EXCEPT ![w] = entry]
        BY <1>7, <3>2 DEF CommitSaveFails, SaveIndexFails, SaveIndex, NextEntry
      <4> QED BY <2>1, <2>2, <3>2, <4>1 DEF WsInv, WsTypes
    <3> QED BY <3>1, <3>2
  <2>6. WsTypes'
    BY <2>2, <2>3, <2>5 DEF WsInv, WsTypes, WsIdle, WsOps, WsStages
  <2>7. (SnapshotOf /\ Creating /\ Committing)'
    BY <2>2 DEF WsInv, SnapshotOf, Creating, Committing, WsIdle
  <2>8. (IndexIsWhole /\ ToldIsKept)'
    <3>1. CASE w = Durable
      <4>1. wsTold[Durable].revision \in Nat /\ wsIndex[Durable].revision \in Nat
        BY DEF WsInv, WsTypes, WsEntries
      <4>2. \A v \in WsModes : wsIndex'[v] # NoEntry => wsIndex'[v].revision \in 1 .. MaxWsRevision
        BY <2>1, <2>5 DEF WsInv, IndexIsWhole
      <4>3. CASE wsIndex'[w] = wsIndex[w] /\ wsUndone'[w] = wsUndone[w]
        BY <2>2, <2>4, <3>1, <4>2, <4>3 DEF WsInv, IndexIsWhole, ToldIsKept, WorkspaceIsWhole
      <4>4. CASE wsIndex'[w].revision = next /\ wsUndone'[w] = next
        BY <2>1, <2>2, <3>1, <4>1, <4>2, <4>4 DEF WsInv, IndexIsWhole, ToldIsKept
      <4> QED BY <2>5, <4>3, <4>4
    <3>2. CASE w # Durable
      BY <2>1, <2>2, <2>4, <2>5, <3>2 DEF WsInv, IndexIsWhole, ToldIsKept, WorkspaceIsWhole
    <3> QED BY <3>1, <3>2
  <2> QED BY <2>6, <2>7, <2>8 DEF WsInv
<1> QED BY <1>1, <1>2, <1>3, <1>4, <1>5, <1>6, <1>7

(* Every step of the store keeps the invariant.                            *)
THEOREM WorkspaceInvariance == WorkspaceSpec => []WsInv
<1>1. WsInv /\ [WorkspaceNext]_wsVars => WsInv'
  <2> SUFFICES ASSUME WsInv, [WorkspaceNext]_wsVars PROVE WsInv'
    OBVIOUS
  <2>1. CASE UNCHANGED wsVars
    BY <2>1 DEF wsVars, WsInv, WsTypes, IndexIsWhole, ToldIsKept, SnapshotOf, Creating, Committing, WorkspaceIsWhole
  <2>2. CASE WorkspaceNext
    BY <2>2, InitializeKeepsStore, CreateKeepsStore, AsideKeepsStore, CommitKeepsStore DEF WorkspaceNext
  <2> QED BY <2>1, <2>2
<1> QED BY <1>1, WorkspaceBegins, PTL DEF WorkspaceSpec

(* Whatever step of an operation fails or is the last of the process, the  *)
(* index names a durable revision whose directory is whole, or one that a  *)
(* failed save had named and its handler removed (store.ts:172-175,        *)
(* 269-272); no revision a caller was given is taken back.                 *)
THEOREM RevisionsAreKept == WorkspaceSpec => []CommittedWorkspaceIsWhole
<1>1. WsInv => CommittedWorkspaceIsWhole
  BY DEF WsInv, IndexIsWhole, ToldIsKept, CommittedWorkspaceIsWhole, Durable
<1> QED BY <1>1, WorkspaceInvariance, PTL

-----------------------------------------------------------------------------
(* A session                                                               *)

SessionFields ==
  {"state", "phase", "stage", "stageState", "base", "writes", "ws", "pause", "pending", "seen",
   "arts", "chk", "plan", "planPhase", "lease", "renewals", "rev"}
IsSession(h) == h = [f \in SessionFields |-> h[f]]
RunStates == {"none", "queued", "running", "completed", "failed", "canceled", "expired"}
IsSpace(p) == p = [f \in {"rev", "own", "shared"} |-> p[f]]

SessionTypes(h, r, p) ==
  /\ IsSession(h)
  /\ h.stage \in 0 .. MaxStages /\ {h.base, h.ws, h.rev} \subseteq Nat /\ h.writes \in BOOLEAN
  /\ h.arts \subseteq 1 .. h.stage /\ h.chk \in [1 .. MaxStages -> Nat]
  /\ r = [state |-> r.state, shut |-> r.shut] /\ r.state \in RunStates /\ IsSpace(p)
  /\ p.rev \in Nat /\ p.own \in [1 .. MaxStages -> Nat]

(* The stage that works is the last one, and nothing of it is published;   *)
(* the kernel's run is a run of this stage.                                *)
StageIsLast(h, r) ==
  /\ h.state = "submitted" => h.stage = 0
  /\ h.stageState = "working" => h.stage > 0 /\ h.stage \notin h.arts
  /\ r.state \in {"queued", "running"} => h.stageState = "working"
  /\ h.state = "input_required" => h.phase \in Waiting

RevisionLeft(h) == h.base + (IF h.writes THEN 1 ELSE 0)

(* A completed run left the revision that the stage should leave; what was *)
(* published is what its stage left.                                       *)
OutputIsOwn(h, r, p) ==
  /\ h.stageState = "working" /\ r.state = "completed" => p.own[h.stage] = RevisionLeft(h)
  /\ \A s \in h.arts : h.chk[s] = p.own[s]

StageSound(h, r, p) == SessionTypes(h, r, p) /\ StageIsLast(h, r) /\ OutputIsOwn(h, r, p)

(* What the requester was told, and what is on its way to it, is the       *)
(* session of then, which is the session of now at the same revision.      *)
AskerFollows ==
  /\ asker = [state |-> asker.state, rev |-> asker.rev, stage |-> asker.stage, lease |-> asker.lease,
              input |-> asker.input, for |-> asker.for, asked |-> asker.asked]
  /\ asker.rev \in 0 .. session.rev /\ asker.stage \in 0 .. session.stage
  /\ asker.input # NoInput => asker.for \in 0 .. session.stage
  /\ asker.rev = session.rev =>
       asker.stage = session.stage
       /\ (asker.state = "input_required" => session.state = "input_required")
  /\ \A m \in letters :
       /\ m.rev \in 0 .. session.rev /\ m.stage \in 0 .. session.stage
       /\ m.rev = session.rev =>
            m.stage = session.stage /\ m.state = session.state /\ m.phase = session.phase

SessionInv == StageSound(session, stageRun, space) /\ AskerFollows /\ NoInputIsStuck

(* A session begins before its first stage, and the requester knows of it. *)
LEMMA SessionBegins == SessionInit => SessionInv
<1> SUFFICES ASSUME SessionInit PROVE SessionInv
  OBVIOUS
<1>0. MaxStages \in Nat
  BY SessionBounds
<1>1. SessionTypes(session, stageRun, space)
  <2>1. IsSession(session) /\ IsSpace(space)
    BY DEF SessionInit, IsSession, SessionFields, IsSpace
  <2> QED BY <1>0, <2>1 DEF SessionInit, SessionTypes, RunStates
<1>2. StageIsLast(session, stageRun) /\ OutputIsOwn(session, stageRun, space)
  BY DEF SessionInit, StageIsLast, OutputIsOwn
<1>3. AskerFollows /\ NoInputIsStuck
  BY DEF SessionInit, AskerFollows, NoInputIsStuck, NoInput
<1> QED BY <1>1, <1>2, <1>3 DEF SessionInv, StageSound

(* A new revision of the record is news to the requester.                  *)
LEMMA RevisionIsNews ==
  ASSUME SessionInv, session'.rev = session.rev + 1, session'.stage \in Nat,
         session'.stage >= session.stage, UNCHANGED <<asker, letters>>
  PROVE  AskerFollows' /\ NoInputIsStuck'
<1>1. session.rev \in Nat /\ session.stage \in Nat
  BY SessionBounds DEF SessionInv, StageSound, SessionTypes
<1> QED BY <1>1 DEF SessionInv, AskerFollows, NoInputIsStuck

(* A record in which nothing of the stages has changed but that the        *)
(* current one may have ended.                                             *)
Quiet(h, g, r) ==
  /\ IsSession(g)
  /\ g.stage = h.stage /\ g.base = h.base /\ g.writes = h.writes /\ g.ws = h.ws
  /\ g.arts = h.arts /\ g.chk = h.chk /\ g.rev = h.rev + 1
  /\ \/ g.stageState = h.stageState
     \/ g.stageState # "working" /\ r.state \notin {"queued", "running"}
  /\ g.state = "submitted" => h.state = "submitted"
  /\ g.state = "input_required" => g.phase \in Waiting

(* What an operation does that starts no stage and publishes nothing keeps *)
(* the session sound.                                                      *)
LEMMA QuietIsSound ==
  ASSUME NEW h, NEW r, NEW p, StageSound(h, r, p), NEW g, Quiet(h, g, r) PROVE StageSound(g, r, p)
<1>1. SessionTypes(g, r, p)
  BY DEF StageSound, SessionTypes, Quiet
<1>2. StageIsLast(g, r)
  BY DEF StageSound, StageIsLast, Quiet
<1>3. OutputIsOwn(g, r, p)
  BY DEF StageSound, OutputIsOwn, Quiet, RevisionLeft
<1> QED BY <1>1, <1>2, <1>3 DEF StageSound

(* What a save leaves, whether the store accepts it or not.                *)
LEMMA SaveIsSound ==
  ASSUME SessionInv, NEW g, Save(g), StageSound(g, stageRun, space), g.rev = session.rev + 1,
         g.stage >= session.stage, UNCHANGED <<stageRun, space, asker, letters>>
  PROVE  SessionInv'
<1>1. CASE session' = g
  <2>1. g.stage \in Nat
    BY SessionBounds DEF StageSound, SessionTypes
  <2>2. AskerFollows' /\ NoInputIsStuck'
    BY <1>1, <2>1, RevisionIsNews
  <2> QED BY <1>1, <2>2 DEF SessionInv
<1>2. CASE session' = session
  BY <1>2 DEF SessionInv, AskerFollows, NoInputIsStuck
<1> QED BY <1>1, <1>2 DEF Save

(* Such an operation that is saved keeps the invariant.                    *)
LEMMA QuietSave ==
  ASSUME SessionInv, NEW g, Save(g), Quiet(session, g, stageRun),
         UNCHANGED <<stageRun, space, asker, letters>>
  PROVE  SessionInv'
<1>1. StageSound(g, stageRun, space)
  BY QuietIsSound DEF SessionInv
<1>2. g.rev = session.rev + 1 /\ g.stage >= session.stage
  BY SessionBounds DEF Quiet, SessionInv, StageSound, SessionTypes
<1> QED BY <1>1, <1>2, SaveIsSound

(* A stage that starts, and is handed to the kernel if it could be stored. *)
LEMMA StartIsSound ==
  ASSUME SessionInv, NEW h, StageSound(h, [stageRun EXCEPT !.state = "failed"], space),
         h.stage = session.stage, h.rev = session.rev,
         h.stage < MaxStages, NEW w \in BOOLEAN, NEW g, g = StageStarted(h, w), Save(g),
         stageRun' = Launched(g), UNCHANGED <<space, asker, letters>>
  PROVE  SessionInv'
<1>0. /\ MaxStages \in Nat /\ stageRun = [state |-> stageRun.state, shut |-> stageRun.shut]
      /\ h.stage \in Nat /\ h.rev \in Nat /\ IsSession(h)
  BY SessionBounds DEF SessionInv, StageSound, SessionTypes
<1>1. CASE Storable(g)
  <2>1. session' = g /\ stageRun' \in {[stageRun EXCEPT !.state = "failed"], [stageRun EXCEPT !.state = "queued"]}
    BY <1>1 DEF Save, Launched
  <2>2. /\ IsSession(g) /\ g.stage = h.stage + 1 /\ g.stageState = "working" /\ g.base = h.ws
        /\ g.writes = w /\ g.ws = h.ws /\ g.arts = h.arts /\ g.chk = h.chk /\ g.rev = h.rev + 1
        /\ g.state = "working"
    BY <1>0 DEF StageStarted, Revised, IsSession, SessionFields
  <2>3. SessionTypes(g, stageRun', space)
    BY <1>0, <2>1, <2>2 DEF StageSound, SessionTypes, RunStates
  <2>4. StageIsLast(g, stageRun') /\ OutputIsOwn(g, stageRun', space)
    BY <1>0, <2>1, <2>2 DEF StageSound, SessionTypes, StageIsLast, OutputIsOwn
  <2>5. AskerFollows' /\ NoInputIsStuck'
    BY <1>0, <2>1, <2>2, RevisionIsNews
  <2> QED BY <2>1, <2>3, <2>4, <2>5 DEF SessionInv, StageSound
<1>2. CASE ~Storable(g)
  BY <1>2 DEF Save, Launched, SessionInv, AskerFollows, NoInputIsStuck
<1> QED BY <1>1, <1>2

(* A run may fail at any time.                                             *)
LEMMA FailedRunIsSound ==
  ASSUME NEW h, NEW r, NEW p, StageSound(h, r, p)
  PROVE  StageSound(h, [r EXCEPT !.state = "failed"], p)
BY DEF StageSound, SessionTypes, StageIsLast, OutputIsOwn, RunStates

(* The approvals and the continuation.                                     *)
LEMMA StartsKeepSession ==
  ASSUME SessionInv, NEW w \in BOOLEAN,
         approveSession(w) \/ continueLongHorizon(w) \/ \E n \in 1 .. MaxSteps : approveDelegation(n, w)
  PROVE  SessionInv'
<1>0. StageSound(session, [stageRun EXCEPT !.state = "failed"], space) /\ MaxStages \in Nat
  BY FailedRunIsSound, SessionBounds DEF SessionInv
<1>1. CASE approveSession(w)
  <2>1. session.stage = 0 /\ session.stage < MaxStages
    BY <1>0, <1>1 DEF approveSession, SessionInv, StageSound, StageIsLast
  <2> QED BY <1>0, <1>1, <2>1, StartIsSound DEF approveSession, startLongHorizonStage
<1>2. CASE continueLongHorizon(w)
  BY <1>0, <1>2, StartIsSound DEF continueLongHorizon, startLongHorizonStage
<1>3. CASE \E n \in 1 .. MaxSteps : approveDelegation(n, w)
  <2>1. PICK n \in 1 .. MaxSteps : approveDelegation(n, w)
    BY <1>3
  <2> DEFINE q == [session EXCEPT !.plan = [i \in 1 .. n |-> "pending"]]
             h == [q EXCEPT !.plan[FirstPending(q)] = "working", !.planPhase = "working"]
  <2>2. session.stage = 0 /\ session.stage < MaxStages
    BY <1>0, <2>1 DEF approveDelegation, SessionInv, StageSound, StageIsLast
  <2>3. /\ h.stage = session.stage /\ h.rev = session.rev /\ IsSession(h)
        /\ h.base = session.base /\ h.ws = session.ws /\ h.writes = session.writes
        /\ h.arts = session.arts /\ h.chk = session.chk /\ h.state = session.state
        /\ h.stageState = session.stageState /\ h.phase = session.phase
    BY <1>0 DEF StageSound, SessionTypes, IsSession, SessionFields
  <2>4. StageStarted(h, w) = startDelegationStep(q, w)
    BY DEF startDelegationStep
  <2>5. /\ Save(StageStarted(h, w)) /\ stageRun' = Launched(StageStarted(h, w))
        /\ UNCHANGED <<space, asker, letters>>
    BY <2>1, <2>4 DEF approveDelegation, startLongHorizonStage
  <2> HIDE DEF h, q
  <2>6. StageSound(h, [stageRun EXCEPT !.state = "failed"], space)
    BY <1>0, <2>3 DEF StageSound, SessionTypes, StageIsLast, OutputIsOwn, RevisionLeft
  <2> QED BY <2>2, <2>3, <2>5, <2>6, StartIsSound
<1> QED BY <1>1, <1>2, <1>3

(* The kernel's side of a stage.                                           *)
LEMMA RunKeepsSession ==
  ASSUME SessionInv, RunBegins \/ RunCompletes \/ RunFails \/ KernelShuts \/ SharedCommit \/ SidecarStops
  PROVE  SessionInv'
<1>0. /\ SessionTypes(session, stageRun, space) /\ StageIsLast(session, stageRun)
      /\ OutputIsOwn(session, stageRun, space) /\ MaxStages \in Nat
  BY SessionBounds DEF SessionInv, StageSound
<1>1. UNCHANGED <<session, asker, letters>>
  BY DEF RunBegins, RunCompletes, RunFails, KernelShuts, SharedCommit, SidecarStops
<1>2. ASSUME StageSound(session, stageRun', space') PROVE SessionInv'
  BY <1>1, <1>2 DEF SessionInv, AskerFollows, NoInputIsStuck
<1>3. CASE RunCompletes /\ stageRun' = [stageRun EXCEPT !.state = "completed"] /\ space' = Committed
  <2>1. /\ session.stageState = "working" /\ session.stage \in 1 .. MaxStages /\ session.stage \notin session.arts
        /\ session.writes => space.rev = session.base
    BY <1>0, <1>3 DEF RunCompletes, StageIsLast, SessionTypes
  <2>2. /\ IsSpace(space')
        /\ space'.rev \in Nat
        /\ space'.own = [space.own EXCEPT ![session.stage] = RevisionLeft(session)]
    <3>1. IsSpace(space) /\ space.rev \in Nat /\ session.base \in Nat
      BY <1>0 DEF SessionTypes
    <3>2. CASE session.writes
      <4>1. PICK k \in Nat : k = space.rev + 1
        BY <3>1
      <4>2. space' = [space EXCEPT !.rev = k, !.own[session.stage] = k]
        BY <1>3, <3>2, <4>1 DEF Committed
      <4>3. RevisionLeft(session) = k
        BY <2>1, <3>2, <4>1 DEF RevisionLeft
      <4> QED BY <3>1, <4>2, <4>3 DEF IsSpace
    <3>3. CASE ~session.writes
      <4>1. space' = [space EXCEPT !.rev = @, !.own[session.stage] = session.base]
        BY <1>3, <3>3 DEF Committed
      <4>2. RevisionLeft(session) = session.base
        BY <3>1, <3>3 DEF RevisionLeft
      <4> QED BY <3>1, <4>1, <4>2 DEF IsSpace
    <3> QED BY <3>2, <3>3
  <2>3. RevisionLeft(session) \in Nat
    BY <1>0 DEF RevisionLeft, SessionTypes
  <2>4. SessionTypes(session, stageRun', space')
    BY <1>0, <1>3, <2>2, <2>3 DEF SessionTypes, RunStates
  <2>5. StageIsLast(session, stageRun')
    BY <1>0, <1>3 DEF StageIsLast, SessionTypes
  <2>6. OutputIsOwn(session, stageRun', space')
    <3>1. space'.own[session.stage] = RevisionLeft(session)
      BY <1>0, <2>1, <2>2 DEF SessionTypes
    <3>2. \A s \in session.arts : space'.own[s] = space.own[s]
      BY <1>0, <2>1, <2>2 DEF SessionTypes
    <3> QED BY <1>0, <3>1, <3>2 DEF OutputIsOwn
  <2> QED BY <1>2, <2>4, <2>5, <2>6 DEF StageSound
<1>4. CASE UNCHANGED space /\ (RunBegins \/ RunFails \/ RunCompletes \/ KernelShuts \/ SidecarStops)
           /\ ~(stageRun'.state = "completed" /\ stageRun.state # "completed")
  <2>1. /\ stageRun' = [state |-> stageRun'.state, shut |-> stageRun'.shut]
        /\ stageRun'.state \in RunStates
        /\ stageRun'.state \in {"queued", "running"} => stageRun.state \in {"queued", "running"}
        /\ stageRun'.state = "completed" => stageRun.state = "completed"
    BY <1>0, <1>4 DEF RunBegins, RunFails, RunCompletes, KernelShuts, SidecarStops, SessionTypes, RunStates
  <2>2. SessionTypes(session, stageRun', space') /\ StageIsLast(session, stageRun') /\ OutputIsOwn(session, stageRun', space')
    BY <1>0, <1>4, <2>1 DEF SessionTypes, StageIsLast, OutputIsOwn
  <2> QED BY <1>2, <2>2 DEF StageSound
<1>5. CASE SharedCommit
  <2>1. IsSpace(space') /\ space'.own = space.own /\ space'.rev \in Nat /\ stageRun' = stageRun
    <3>1. IsSpace(space) /\ space.rev \in Nat
      BY <1>0 DEF SessionTypes
    <3>2. PICK k \in Nat : k = space.rev + 1
      BY <3>1
    <3>3. PICK j : j = space.shared + 1
      OBVIOUS
    <3>4. space' = [space EXCEPT !.rev = k, !.shared = j] /\ stageRun' = stageRun
      BY <1>5, <3>2, <3>3 DEF SharedCommit
    <3> QED BY <3>1, <3>4 DEF IsSpace
  <2>2. StageSound(session, stageRun', space')
    BY <1>0, <2>1 DEF StageSound, SessionTypes, StageIsLast, OutputIsOwn
  <2> QED BY <1>2, <2>2
<1>6. stageRun'.state = "completed" /\ stageRun.state # "completed" =>
        \/ SharedCommit
        \/ RunCompletes /\ stageRun' = [stageRun EXCEPT !.state = "completed"] /\ space' = Committed
  BY <1>0 DEF RunBegins, RunFails, RunCompletes, KernelShuts, SidecarStops, SharedCommit, SessionTypes
<1>7. \/ UNCHANGED space
      \/ SharedCommit
      \/ RunCompletes /\ stageRun' = [stageRun EXCEPT !.state = "completed"] /\ space' = Committed
  BY DEF RunBegins, RunFails, RunCompletes, KernelShuts, SidecarStops
<1> QED BY <1>3, <1>4, <1>5, <1>6, <1>7

(* The end of a stage, the expiry and the progress of a poll.              *)
LEMMA PollKeepsSession == ASSUME SessionInv, Poll PROVE SessionInv'
<1>0. /\ SessionTypes(session, stageRun, space) /\ StageIsLast(session, stageRun)
      /\ OutputIsOwn(session, stageRun, space) /\ MaxStages \in Nat /\ IsSession(session)
  BY SessionBounds DEF SessionInv, StageSound, SessionTypes
<1>1. /\ Quiet(session, Expired(session), stageRun)
      /\ Quiet(session, Revised(session), stageRun)
  BY <1>0 DEF Quiet, Expired, Revised, StepTo, IsSession, SessionFields, SessionTypes, StageIsLast
<1>2. CASE finishLongHorizonStage
  <2> DEFINE done == Published(session)
  <2>0. /\ session.state = "working" /\ session.stageState = "working"
        /\ stageRun.state \notin {"queued", "running"}
        /\ UNCHANGED <<space, asker, letters>> /\ stageRun.state \in RunStates
    BY <1>0, <1>2 DEF finishLongHorizonStage, SessionTypes
  <2>1. ASSUME NEW g, Quiet(session, g, stageRun), Save(g), UNCHANGED stageRun PROVE SessionInv'
    BY <2>0, <2>1, QuietSave
  <2>2. CASE UNCHANGED stageRun /\ Save([Expired(session) EXCEPT !.stageState = "canceled"])
    <3> DEFINE g == [Expired(session) EXCEPT !.stageState = "canceled"]
    <3>1. /\ IsSession(g) /\ g.stage = session.stage /\ g.base = session.base /\ g.writes = session.writes
          /\ g.ws = session.ws /\ g.arts = session.arts /\ g.chk = session.chk /\ g.rev = session.rev + 1
          /\ g.stageState = "canceled" /\ g.state = "rejected"
      BY <1>0 DEF Expired, Revised, StepTo, IsSession, SessionFields
    <3>2. Save(g) /\ UNCHANGED stageRun
      BY <2>2
    <3> HIDE DEF g
    <3>3. Quiet(session, g, stageRun)
      BY <2>0, <3>1 DEF Quiet
    <3> QED BY <2>1, <3>2, <3>3
  <2>3. CASE UNCHANGED stageRun /\ Save(Conflicted(session))
    <3> DEFINE g == Conflicted(session)
    <3>1. /\ IsSession(g) /\ g.stage = session.stage /\ g.base = session.base /\ g.writes = session.writes
          /\ g.ws = session.ws /\ g.arts = session.arts /\ g.chk = session.chk /\ g.rev = session.rev + 1
          /\ g.stageState = "failed" /\ g.state \in {"input_required", "failed"} /\ g.phase = "input_required"
      BY <1>0 DEF Conflicted, Revised, StepTo, IsSession, SessionFields
    <3>2. Save(g) /\ UNCHANGED stageRun
      BY <2>3
    <3> HIDE DEF g
    <3>3. Quiet(session, g, stageRun)
      BY <2>0, <3>1 DEF Quiet, Waiting
    <3> QED BY <2>1, <3>2, <3>3
  <2>4. CASE UNCHANGED stageRun /\ stageRun.state # "completed" /\ Save(FailedStage(session, stageRun.state))
    <3> DEFINE how == stageRun.state
               g == FailedStage(session, how)
               step == IF how = "none" THEN "interrupted" ELSE how
               s == [StepTo(session, "working", step) EXCEPT !.stageState = step,
                     !.pause = FALSE, !.state = "input_required", !.phase = Boundary(session)]
               ended == [s EXCEPT !.planPhase = IF how = "none" THEN "interrupted" ELSE "failed",
                                  !.phase = "failed", !.state = "failed", !.pending = NoInput]
    <3>1. g = Revised(s) \/ g = Revised(ended)
      BY DEF FailedStage
    <3>2. step # "working" /\ Boundary(session) \in Waiting
      BY <2>0 DEF RunStates, Boundary, Waiting
    <3>3. Save(g) /\ UNCHANGED stageRun
      BY <2>4
    <3> HIDE DEF g, step, how
    <3>4. /\ IsSession(s) /\ s.stage = session.stage /\ s.base = session.base /\ s.writes = session.writes
          /\ s.ws = session.ws /\ s.arts = session.arts /\ s.chk = session.chk /\ s.rev = session.rev
          /\ s.stageState = step /\ s.state = "input_required" /\ s.phase = Boundary(session)
      BY <1>0 DEF StepTo, IsSession, SessionFields
    <3> HIDE DEF s
    <3>5. Quiet(session, Revised(s), stageRun)
      BY <2>0, <3>2, <3>4 DEF Quiet, Revised, IsSession, SessionFields
    <3>6. Quiet(session, Revised(ended), stageRun)
      BY <2>0, <3>2, <3>4 DEF Quiet, Revised, IsSession, SessionFields
    <3> HIDE DEF ended
    <3> QED BY <2>1, <3>1, <3>3, <3>5, <3>6
  <2>5. ASSUME stageRun.state = "completed", RevisionMatches(session)
        PROVE  /\ StageSound(done, stageRun, space) /\ done.stage = session.stage /\ done.rev = session.rev
               /\ done.stageState = "completed" /\ IsSession(done)
    <3>1. /\ IsSession(done) /\ done.stage = session.stage /\ done.rev = session.rev
          /\ done.stageState = "completed" /\ done.ws = space.rev /\ done.base = session.base
          /\ done.writes = session.writes /\ done.state = session.state /\ done.phase = session.phase
          /\ done.arts = session.arts \union {session.stage}
          /\ done.chk = [session.chk EXCEPT ![session.stage] = space.rev]
      BY <1>0 DEF Published, StepTo, IsSession, SessionFields
    <3>2. session.stage \in 1 .. MaxStages
      BY <1>0, <2>0 DEF SessionTypes, StageIsLast
    <3>3. space.own[session.stage] = space.rev
      BY <1>0, <2>0, <2>5 DEF OutputIsOwn, RevisionMatches, RevisionLeft
    <3> HIDE DEF done
    <3>4. SessionTypes(done, stageRun, space)
      BY <1>0, <3>1, <3>2 DEF SessionTypes
    <3>5. StageIsLast(done, stageRun)
      BY <1>0, <2>0, <3>1 DEF StageIsLast
    <3>6. OutputIsOwn(done, stageRun, space)
      BY <1>0, <3>1, <3>2, <3>3 DEF OutputIsOwn, SessionTypes
    <3> QED BY <3>1, <3>4, <3>5, <3>6 DEF StageSound
  <2>6. ASSUME stageRun.state = "completed", RevisionMatches(session), UNCHANGED stageRun,
               NEW g, Quiet(done, g, stageRun), Save(g)
        PROVE  SessionInv'
    <3>1. StageSound(g, stageRun, space)
      BY <2>5, <2>6, QuietIsSound
    <3>2. g.rev = session.rev + 1 /\ g.stage >= session.stage
      BY <1>0, <2>5, <2>6 DEF Quiet, SessionTypes
    <3> QED BY <2>0, <2>6, <3>1, <3>2, SaveIsSound
  <2>7. ASSUME stageRun.state = "completed", RevisionMatches(session)
        PROVE  /\ Quiet(done, StageEnds(done), stageRun) /\ Quiet(done, completeDelegation(done), stageRun)
               /\ Quiet(done, NextRefused(done), stageRun)
    <3>1. IsSession(done)
      BY <2>5, <2>7
    <3> HIDE DEF done
    <3> QED BY <2>0, <3>1 DEF Quiet, StageEnds, completeDelegation, NextRefused, Boundary, Revised, IsSession, SessionFields, Waiting
  <2>8. CASE /\ stageRun.state = "completed" /\ RevisionMatches(session)
             /\ UNCHANGED stageRun
             /\ \E g \in {StageEnds(done), completeDelegation(done), NextRefused(done)} : Save(g)
    BY <2>6, <2>7, <2>8
  <2>9. CASE /\ stageRun.state = "completed" /\ RevisionMatches(session)
             /\ \E w \in BOOLEAN : /\ done.stage < MaxStages
                                   /\ Save(startDelegationStep(done, w))
                                   /\ stageRun' = Launched(startDelegationStep(done, w))
    <3>1. PICK w \in BOOLEAN : /\ done.stage < MaxStages
                               /\ Save(startDelegationStep(done, w))
                               /\ stageRun' = Launched(startDelegationStep(done, w))
      BY <2>9
    <3> DEFINE h == [done EXCEPT !.plan[FirstPending(done)] = "working", !.planPhase = "working"]
    <3>2. startDelegationStep(done, w) = StageStarted(h, w)
      BY DEF startDelegationStep
    <3>3. IsSession(done) /\ done.stage = session.stage /\ done.rev = session.rev
          /\ StageSound(done, [stageRun EXCEPT !.state = "failed"], space)
      BY <2>5, <2>9, FailedRunIsSound
    <3> HIDE DEF done
    <3>4. /\ h.stage = done.stage /\ h.rev = done.rev /\ IsSession(h)
          /\ h.base = done.base /\ h.ws = done.ws /\ h.writes = done.writes
          /\ h.arts = done.arts /\ h.chk = done.chk /\ h.state = done.state
          /\ h.stageState = done.stageState /\ h.phase = done.phase
      BY <3>3 DEF IsSession, SessionFields
    <3> HIDE DEF h
    <3>5. StageSound(h, [stageRun EXCEPT !.state = "failed"], space)
      BY <3>3, <3>4 DEF StageSound, SessionTypes, StageIsLast, OutputIsOwn, RevisionLeft
    <3> QED BY <2>0, <3>1, <3>2, <3>3, <3>4, <3>5, StartIsSound
  <2> QED BY <1>2, <2>2, <2>3, <2>4, <2>8, <2>9 DEF finishLongHorizonStage
<1>3. CASE Save(Revised(session)) /\ UNCHANGED <<stageRun, space, asker, letters>>
  BY <1>1, <1>3, QuietSave
<1>4. CASE Save(Expired(session)) /\ UNCHANGED <<stageRun, space, asker, letters>>
  BY <1>1, <1>4, QuietSave
<1> QED BY <1>2, <1>3, <1>4 DEF Poll

(* The other operations of the receiver.                                   *)
LEMMA ReceiverKeepsSession ==
  ASSUME SessionInv,
         \/ rejectSession \/ cancelSession \/ pauseLongHorizon \/ completeLongHorizon
         \/ renewLongHorizon \/ receiveLongHorizonInput
  PROVE  SessionInv'
<1>0. /\ SessionTypes(session, stageRun, space) /\ StageIsLast(session, stageRun)
      /\ OutputIsOwn(session, stageRun, space) /\ MaxStages \in Nat /\ IsSession(session)
  BY SessionBounds DEF SessionInv, StageSound, SessionTypes
<1> USE DEF Revised, Waiting
<1>1. CASE rejectSession
  <2>1. Quiet(session, Revised([session EXCEPT !.state = "rejected", !.phase = "canceled"]), stageRun)
    BY <1>0 DEF Quiet, IsSession, SessionFields, StageIsLast
  <2> QED BY <1>1, <2>1, QuietSave DEF rejectSession
<1>2. CASE cancelSession
  <2> DEFINE h == [session EXCEPT !.state = "canceled", !.phase = "canceled"]
             g == Revised(IF h.plan = <<>> THEN h
                          ELSE [StepTo(h, "working", "canceled") EXCEPT !.planPhase = "canceled"])
             stopped == [stageRun EXCEPT !.state = IF @ \in {"queued", "running"} THEN "canceled" ELSE @]
  <2>1. Save(g) /\ stageRun' = stopped /\ UNCHANGED <<space, asker, letters>>
    BY <1>2 DEF cancelSession
  <2>2. Quiet(session, g, stageRun)
    BY <1>0 DEF Quiet, IsSession, SessionFields, StageIsLast, StepTo
  <2>3. StageSound(session, stopped, space)
    BY <1>0 DEF StageSound, SessionTypes, StageIsLast, OutputIsOwn, RunStates
  <2>4. Quiet(session, g, stopped)
    BY <1>0 DEF Quiet, IsSession, SessionFields, StageIsLast, StepTo
  <2> HIDE DEF g, stopped
  <2>5. StageSound(g, stopped, space)
    BY <2>3, <2>4, QuietIsSound
  <2>6. CASE session' = g
    <3>1. AskerFollows' /\ NoInputIsStuck'
      BY <1>0, <2>1, <2>4, <2>6, RevisionIsNews DEF Quiet, SessionTypes
    <3> QED BY <2>1, <2>5, <2>6, <3>1 DEF SessionInv
  <2>7. CASE session' = session
    BY <2>1, <2>3, <2>7 DEF SessionInv, AskerFollows, NoInputIsStuck
  <2> QED BY <2>1, <2>6, <2>7 DEF Save
<1>3. CASE pauseLongHorizon
  <2>1. PICK g \in {[session EXCEPT !.pause = TRUE], [session EXCEPT !.phase = "paused"], session} :
          Save(Revised(g)) /\ UNCHANGED <<stageRun, space, asker, letters>>
    BY <1>3 DEF pauseLongHorizon
  <2>2. Quiet(session, Revised(g), stageRun)
    BY <1>0, <2>1 DEF Quiet, IsSession, SessionFields, StageIsLast
  <2> QED BY <2>1, <2>2, QuietSave
<1>4. CASE completeLongHorizon
  <2>1. Quiet(session, Revised([session EXCEPT !.phase = "completed", !.state = "completed"]), stageRun)
    BY <1>0 DEF Quiet, IsSession, SessionFields, StageIsLast
  <2> QED BY <1>4, <2>1, QuietSave DEF completeLongHorizon
<1>5. CASE renewLongHorizon
  <2>1. Quiet(session, Revised([session EXCEPT !.lease = @ + 1, !.renewals = @ + 1]), stageRun)
    BY <1>0 DEF Quiet, IsSession, SessionFields, StageIsLast
  <2> QED BY <1>5, <2>1, QuietSave DEF renewLongHorizon
<1>6. CASE receiveLongHorizonInput
  <2> DEFINE g == [session EXCEPT !.pending = asker.input, !.seen = @ \union {asker.input}]
  <2>1. Save(g) /\ UNCHANGED <<stageRun, space, asker, letters>>
    BY <1>6 DEF receiveLongHorizonInput
  <2>2. /\ IsSession(g) /\ g.stage = session.stage /\ g.base = session.base /\ g.writes = session.writes
        /\ g.ws = session.ws /\ g.arts = session.arts /\ g.chk = session.chk /\ g.rev = session.rev
        /\ g.stageState = session.stageState /\ g.state = session.state /\ g.phase = session.phase
    BY <1>0 DEF IsSession, SessionFields
  <2> HIDE DEF g
  <2>3. CASE session' = g
    <3>1. StageSound(g, stageRun, space)
      BY <1>0, <2>2 DEF StageSound, SessionTypes, StageIsLast, OutputIsOwn, RevisionLeft
    <3>2. AskerFollows' /\ NoInputIsStuck'
      BY <2>1, <2>2, <2>3 DEF SessionInv, AskerFollows, NoInputIsStuck
    <3> QED BY <2>1, <2>3, <3>1, <3>2 DEF SessionInv
  <2>4. CASE session' = session
    BY <2>1, <2>4 DEF SessionInv, AskerFollows, NoInputIsStuck
  <2> QED BY <2>1, <2>3, <2>4 DEF Save
<1> QED BY <1>1, <1>2, <1>3, <1>4, <1>5, <1>6

(* The requester and the messages to it.                                   *)
LEMMA AskerKeepsSession ==
  ASSUME SessionInv,
         \/ SendStatus \/ LoseStatus \/ receiveSessionStatus \/ submitLongHorizonInput
         \/ AskerExpires \/ HoursPass
  PROVE  SessionInv'
<1>0. /\ SessionTypes(session, stageRun, space) /\ StageIsLast(session, stageRun)
      /\ MaxStages \in Nat /\ AskerFollows /\ NoInputIsStuck
      /\ session.rev \in Nat /\ session.stage \in Nat
  BY SessionBounds DEF SessionInv, StageSound, SessionTypes
<1>1. UNCHANGED <<session, stageRun, space>>
  BY DEF SendStatus, LoseStatus, receiveSessionStatus, submitLongHorizonInput, AskerExpires, HoursPass
<1>2. ASSUME AskerFollows', NoInputIsStuck' PROVE SessionInv'
  BY <1>1, <1>2 DEF SessionInv
<1>3. CASE SendStatus \/ LoseStatus \/ HoursPass
  <2>1. asker' = asker /\ letters' \subseteq letters \union {Letter}
    BY <1>3 DEF SendStatus, LoseStatus, HoursPass
  <2>2. Letter.rev = session.rev /\ Letter.stage = session.stage /\ Letter.state = session.state
        /\ Letter.phase = session.phase
    BY DEF Letter
  <2>3. AskerFollows' /\ NoInputIsStuck'
    BY <1>0, <1>1, <2>1, <2>2 DEF AskerFollows, NoInputIsStuck
  <2> QED BY <1>2, <2>3
<1>4. CASE receiveSessionStatus
  <2>1. PICK m \in letters :
          /\ m.rev > asker.rev
          /\ asker' = LET a == [asker EXCEPT !.rev = m.rev, !.state = m.state, !.stage = m.stage,
                                             !.lease = m.lease]
                      IN  IF asker.input # NoInput /\ ClearsInput(m)
                          THEN [a EXCEPT !.input = NoInput] ELSE a
    BY <1>4 DEF receiveSessionStatus
  <2>2. /\ asker'.rev = m.rev /\ asker'.state = m.state /\ asker'.stage = m.stage /\ asker'.for = asker.for
        /\ asker' = [state |-> asker'.state, rev |-> asker'.rev, stage |-> asker'.stage, lease |-> asker'.lease,
                     input |-> asker'.input, for |-> asker'.for, asked |-> asker'.asked]
        /\ asker'.input # NoInput => asker.input # NoInput /\ ~ClearsInput(m)
    BY <1>0, <2>1 DEF AskerFollows
  <2>3. letters' = letters
    BY <1>4 DEF receiveSessionStatus
  <2>4. AskerFollows'
    BY <1>0, <1>1, <2>2, <2>3 DEF AskerFollows
  <2>5. ASSUME asker'.input # NoInput, asker'.rev = session.rev
        PROVE  asker'.for = session.stage /\ session.phase \notin EndedPhases
    <3>1. m.stage = session.stage /\ m.phase = session.phase
      BY <1>0, <2>2, <2>5 DEF AskerFollows
    <3>2. asker.for \in 0 .. session.stage /\ ~(session.stage > asker.for) /\ session.phase \notin EndedPhases
      BY <1>0, <2>2, <2>5, <3>1 DEF AskerFollows, ClearsInput
    <3> QED BY <1>0, <2>2, <3>2
  <2>6. NoInputIsStuck'
    BY <1>1, <2>5 DEF NoInputIsStuck
  <2> QED BY <1>2, <2>4, <2>6
<1>5. CASE submitLongHorizonInput
  <2>1. /\ asker'.rev = asker.rev /\ asker'.state = asker.state /\ asker'.stage = asker.stage
        /\ asker'.for = asker.stage /\ asker.state = "input_required"
        /\ asker' = [state |-> asker'.state, rev |-> asker'.rev, stage |-> asker'.stage, lease |-> asker'.lease,
                     input |-> asker'.input, for |-> asker'.for, asked |-> asker'.asked]
        /\ letters' = letters
    BY <1>0, <1>5 DEF submitLongHorizonInput, AskerFollows
  <2>2. AskerFollows' /\ NoInputIsStuck'
    BY <1>0, <1>1, <2>1 DEF AskerFollows, NoInputIsStuck, StageIsLast, Waiting, EndedPhases
  <2> QED BY <1>2, <2>2
<1>6. CASE AskerExpires
  <2>1. asker' = [asker EXCEPT !.state = "rejected", !.input = NoInput] /\ letters' = letters
    BY <1>6 DEF AskerExpires
  <2>2. AskerFollows' /\ NoInputIsStuck'
    BY <1>0, <1>1, <2>1 DEF AskerFollows, NoInputIsStuck
  <2> QED BY <1>2, <2>2
<1> QED BY <1>3, <1>4, <1>5, <1>6

(* Every operation of either side keeps the invariant.                     *)
LEMMA SessionInvariance == SessionSpec => []SessionInv
<1>1. SessionInv /\ [SessionNext]_sessionVars => SessionInv'
  <2> SUFFICES ASSUME SessionInv, [SessionNext]_sessionVars PROVE SessionInv'
    OBVIOUS
  <2>1. CASE SessionNext
    BY <2>1, StartsKeepSession, RunKeepsSession, PollKeepsSession, ReceiverKeepsSession, AskerKeepsSession
       DEF SessionNext
  <2>2. CASE UNCHANGED sessionVars
    BY <2>2 DEF sessionVars, SessionInv, AskerFollows, NoInputIsStuck
  <2> QED BY <2>1, <2>2
<1> QED BY <1>1, SessionBegins, PTL DEF SessionSpec

(* A session publishes only what its own stage left in the Workspace, and  *)
(* a requester never holds back an instruction for a stage that is over,   *)
(* however crashes, other Tasks' commits and late status messages cross    *)
(* (service.ts, finishLongHorizonStage and the status of a long horizon).  *)
THEOREM SessionsAreSound == SessionSpec => []SessionIsSound
<1>1. SessionInv => SessionIsSound
  BY DEF SessionInv, StageSound, OutputIsOwn, SessionIsSound, CheckpointIsOwnRevision
<1> QED BY <1>1, SessionInvariance, PTL
-----------------------------------------------------------------------------
(* The read model of the Tasks                                             *)

ViewTypes(view) ==
  /\ view = [summaries |-> view.summaries, details |-> view.details, generation |-> view.generation]
  /\ view.generation \in Nat
  /\ \A d \in view.details :
       d = [task |-> d.task, record |-> d.record, place |-> d.place] /\ d.task \in ReadTasks

(* The summaries and the cached details are those of the store.            *)
ViewOfStore(view, store) ==
  /\ view.summaries = [t \in ReadTasks |-> projectSummary(store[t])]
  /\ \A d \in view.details : store[d.task] # NoTask /\ d.record = store[d.task]

CommandTypes ==
  /\ taskCommand.stage = "saving" =>
       taskCommand = [stage |-> "saving", store |-> taskCommand.store, first |-> taskCommand.first]
  /\ taskCommand.stage = "renamed" => taskFile = taskCommand.store

(* A get that no publication has overtaken has loaded what the file says,  *)
(* unless a command is just between its rename and its publication.        *)
ReadIsCurrent(read) ==
  /\ "op" \in DOMAIN read
  /\ read.op \in {"get", "list"} =>
       {"loaded", "generation"} \subseteq DOMAIN read /\ read.generation \in 0 .. taskView.generation
  /\ read.op = "get" => "task" \in DOMAIN read /\ read.task \in ReadTasks
  /\ read.op = "get" /\ read.loaded /\ read.generation = taskView.generation
       /\ taskCommand.stage # "renamed" => read.store = taskFile

ReadInv ==
  /\ ViewTypes(taskView) /\ CommandTypes
  /\ taskCommand.stage \in {"idle", "saving"} /\ taskView.generation > 0 => ViewOfStore(taskView, taskFile)
  /\ taskCommand.stage = "starting" => taskView.generation = 0
  /\ taskReads \in [Readers -> {taskReads[c] : c \in Readers}]
  /\ \A c \in Readers : ReadIsCurrent(taskReads[c])

(* At first nothing is stored, shown or read.                              *)
LEMMA ReadModelBegins == ReadModelInit => ReadInv
<1> SUFFICES ASSUME ReadModelInit PROVE ReadInv
  OBVIOUS
<1>1. ViewTypes(taskView) /\ CommandTypes /\ taskView.generation = 0
  BY DEF ReadModelInit, ViewTypes, CommandTypes, NoView
<1>2. \A c \in Readers : ReadIsCurrent(taskReads[c])
  BY DEF ReadModelInit, ReadIsCurrent, NoAppRead
<1>3. taskReads \in [Readers -> {taskReads[c] : c \in Readers}]
  BY DEF ReadModelInit
<1> QED BY <1>1, <1>2, <1>3 DEF ReadInv

(* What a publication shows is the store it was given.                     *)
LEMMA PublishShows ==
  ASSUME NEW view, ViewTypes(view), NEW store
  PROVE  /\ ViewTypes(publish(view, store)) /\ ViewOfStore(publish(view, store), store)
         /\ publish(view, store).generation = view.generation + 1
<1> DEFINE shown == publish(view, store)
<1>1. /\ shown = [summaries |-> shown.summaries, details |-> shown.details, generation |-> shown.generation]
      /\ shown.generation = view.generation + 1
      /\ shown.summaries = [t \in ReadTasks |-> projectSummary(store[t])]
  BY DEF publish
<1>2. \A e \in shown.details :
        /\ e = [task |-> e.task, record |-> e.record, place |-> e.place]
        /\ e.task \in ReadTasks /\ store[e.task] # NoTask /\ e.record = store[e.task]
  <2> SUFFICES ASSUME NEW e \in shown.details
               PROVE  /\ e = [task |-> e.task, record |-> e.record, place |-> e.place]
                      /\ e.task \in ReadTasks /\ store[e.task] # NoTask /\ e.record = store[e.task]
    OBVIOUS
  <2> DEFINE kept == {d \in view.details : store[d.task] # NoTask}
  <2>1. PICK d \in kept : e = [task |-> d.task, record |-> store[d.task], place |-> Place(d, kept)]
    BY DEF publish
  <2> QED BY <2>1 DEF ViewTypes
<1> HIDE DEF shown
<1>3. view.generation \in Nat
  BY DEF ViewTypes
<1> QED BY <1>1, <1>2, <1>3 DEF ViewTypes, ViewOfStore, shown

(* A detail that is remembered as the store has it leaves the view true.   *)
LEMMA RememberKeeps ==
  ASSUME NEW view, ViewTypes(view), NEW t \in ReadTasks, NEW record
  PROVE  /\ ViewTypes(remember(view, t, record))
         /\ remember(view, t, record).generation = view.generation
         /\ \A store : ViewOfStore(view, store) /\ store[t] # NoTask /\ record = store[t]
                         => ViewOfStore(remember(view, t, record), store)
<1> DEFINE shown == remember(view, t, record)
<1>1. /\ shown = [summaries |-> shown.summaries, details |-> shown.details, generation |-> shown.generation]
      /\ shown.generation = view.generation /\ shown.summaries = view.summaries
  <2>1. PICK ds : shown = [view EXCEPT !.details = ds]
    BY DEF remember
  <2> HIDE DEF shown
  <2> QED BY <2>1 DEF ViewTypes
<1>2. \A e \in shown.details :
        /\ e = [task |-> e.task, record |-> e.record, place |-> e.place]
        /\ (e.task = t /\ e.record = record)
             \/ \E d \in view.details : e.task = d.task /\ e.record = d.record
  <2> SUFFICES ASSUME NEW e \in shown.details
               PROVE  /\ e = [task |-> e.task, record |-> e.record, place |-> e.place]
                      /\ (e.task = t /\ e.record = record)
                           \/ \E d \in view.details : e.task = d.task /\ e.record = d.record
    OBVIOUS
  <2> DEFINE others == {d \in view.details : d.task # t}
             older == {[d EXCEPT !.place = Place(d, others) + 1] : d \in others}
  <2>1. shown.details = {[task |-> t, record |-> record, place |-> 0]}
                          \cup {d \in older : d.place < MaxCachedDetails}
    BY DEF remember, ViewTypes
  <2>2. CASE e = [task |-> t, record |-> record, place |-> 0]
    BY <2>2
  <2>3. CASE e \in older
    <3>1. PICK d \in others : e = [d EXCEPT !.place = Place(d, others) + 1]
      BY <2>3
    <3>2. PICK n : n = Place(d, others) + 1
      OBVIOUS
    <3>3. d \in view.details /\ d = [task |-> d.task, record |-> d.record, place |-> d.place]
      BY DEF ViewTypes
    <3> HIDE DEF others
    <3> QED BY <3>1, <3>2, <3>3
  <2> QED BY <2>1, <2>2, <2>3
<1> HIDE DEF shown
<1>3. ViewTypes(shown)
  BY <1>1, <1>2 DEF ViewTypes
<1>4. \A store : ViewOfStore(view, store) /\ store[t] # NoTask /\ record = store[t] => ViewOfStore(shown, store)
  BY <1>1, <1>2 DEF ViewOfStore
<1> QED BY <1>1, <1>3, <1>4 DEF shown

(* The commands.                                                           *)
LEMMA CommandsKeepView ==
  ASSUME ReadInv, InitializeReadModel \/ CommandSaves \/ SaveRenames \/ SavePublishes \/ SaveFails
  PROVE  ReadInv'
<1>0. /\ ViewTypes(taskView) /\ CommandTypes /\ taskView.generation \in Nat
      /\ \A c \in Readers : ReadIsCurrent(taskReads[c])
      /\ taskReads' = taskReads
  BY DEF ReadInv, ViewTypes, InitializeReadModel, CommandSaves, SaveRenames, SavePublishes, SaveFails
<1>1. taskReads' \in [Readers -> {taskReads'[c] : c \in Readers}]
  BY <1>0 DEF ReadInv
<1>2. ASSUME NEW store, taskView' = publish(taskView, store), taskFile' = store, taskCommand' = CommandIdle
      PROVE  ReadInv'
  <2>1. /\ ViewTypes(taskView') /\ ViewOfStore(taskView', taskFile')
        /\ taskView'.generation = taskView.generation + 1
    BY <1>0, <1>2, PublishShows
  <2>2. CommandTypes' /\ taskCommand'.stage = "idle"
    BY <1>2 DEF CommandTypes, CommandIdle
  <2>3. \A c \in Readers : ReadIsCurrent(taskReads[c])'
    BY <1>0, <2>1, <2>2 DEF ReadIsCurrent
  <2> QED BY <1>1, <2>1, <2>2, <2>3 DEF ReadInv
<1>3. ASSUME UNCHANGED <<taskView, taskFile>>, CommandTypes', taskCommand'.stage \notin {"renamed", "starting"},
             taskCommand.stage # "renamed",
             taskCommand'.stage \in {"idle", "saving"} /\ taskView.generation > 0 => ViewOfStore(taskView, taskFile)
      PROVE  ReadInv'
  <2>1. \A c \in Readers : ReadIsCurrent(taskReads[c])'
    BY <1>0, <1>3 DEF ReadIsCurrent
  <2> QED BY <1>0, <1>1, <1>3, <2>1 DEF ReadInv
<1>4. CASE InitializeReadModel
  <2>1. CASE taskView' = publish(taskView, taskFile) /\ taskCommand' = CommandIdle
    BY <1>2, <1>4, <2>1 DEF InitializeReadModel
  <2>2. CASE UNCHANGED taskView /\ \E store : taskCommand' = [stage |-> "saving", store |-> store, first |-> TRUE]
    <3>1. CommandTypes' /\ taskCommand'.stage = "saving" /\ taskCommand.stage = "starting" /\ UNCHANGED taskFile
      BY <1>4, <2>2 DEF InitializeReadModel, CommandTypes
    <3>2. taskView.generation = 0
      BY <3>1 DEF ReadInv
    <3> QED BY <1>3, <2>2, <3>1, <3>2
  <2> QED BY <1>4, <2>1, <2>2 DEF InitializeReadModel
<1>5. CASE CommandSaves
  <2>1. CommandTypes' /\ taskCommand'.stage = "saving" /\ taskCommand.stage = "idle" /\ UNCHANGED <<taskView, taskFile>>
    BY <1>5 DEF CommandSaves, CommandTypes, CommandIdle
  <2> QED BY <1>3, <2>1 DEF ReadInv
<1>6. CASE SaveRenames
  <2>1. /\ taskCommand'.stage = "renamed" /\ taskFile' = taskCommand'.store /\ UNCHANGED taskView
    BY <1>0, <1>6 DEF SaveRenames, CommandTypes
  <2>2. CommandTypes' /\ \A c \in Readers : ReadIsCurrent(taskReads[c])'
    BY <1>0, <2>1 DEF ReadIsCurrent, CommandTypes
  <2> QED BY <1>0, <1>1, <2>1, <2>2 DEF ReadInv
<1>7. CASE SavePublishes
  BY <1>0, <1>2, <1>7 DEF SavePublishes, CommandTypes
<1>8. CASE SaveFails
  <2>1. /\ taskCommand' \in {[stage |-> "unavailable"], CommandIdle} /\ taskCommand.stage = "saving"
        /\ UNCHANGED <<taskView, taskFile>>
    BY <1>8 DEF SaveFails
  <2>2. CommandTypes' /\ taskCommand'.stage \notin {"renamed", "starting"}
    BY <2>1 DEF CommandTypes, CommandIdle
  <2> QED BY <1>3, <2>1, <2>2 DEF ReadInv
<1> QED BY <1>4, <1>5, <1>6, <1>7, <1>8

(* The reads of the App.                                                   *)
LEMMA ReadsKeepView ==
  ASSUME ReadInv, NEW c \in Readers,
         GetCached(c) \/ ReadBegins(c) \/ ReadLoads(c) \/ GetEnds(c) \/ ListEnds(c) \/ ListEndsAgain(c)
  PROVE  ReadInv'
<1>0. /\ ViewTypes(taskView) /\ CommandTypes /\ taskView.generation \in Nat
      /\ ReadIsCurrent(taskReads[c]) /\ UNCHANGED <<taskFile, taskCommand>> /\ CommandTypes'
  BY DEF ReadInv, ViewTypes, GetCached, ReadBegins, ReadLoads, GetEnds, ListEnds, ListEndsAgain, CommandTypes
<1>1. ASSUME NEW t \in ReadTasks, NEW record, taskView' = remember(taskView, t, record),
             taskCommand.stage \in {"idle", "saving"} => taskFile[t] # NoTask /\ record = taskFile[t]
      PROVE  /\ ViewTypes(taskView') /\ taskView'.generation = taskView.generation
             /\ taskCommand'.stage \in {"idle", "saving"} /\ taskView'.generation > 0 => ViewOfStore(taskView', taskFile')
  BY <1>0, <1>1, RememberKeeps DEF ReadInv
<1>2. ASSUME ViewTypes(taskView'), taskView'.generation = taskView.generation,
             taskCommand'.stage \in {"idle", "saving"} /\ taskView'.generation > 0 => ViewOfStore(taskView', taskFile'),
             \E read : taskReads' = [taskReads EXCEPT ![c] = read] /\ ReadIsCurrent(read)
      PROVE  ReadInv'
  <2>0. PICK read : taskReads' = [taskReads EXCEPT ![c] = read] /\ ReadIsCurrent(read)
    BY <1>2
  <2>1. taskReads' \in [Readers -> {taskReads'[e] : e \in Readers}]
    BY <2>0 DEF ReadInv
  <2>2. \A e \in Readers : taskReads'[e] = IF e = c THEN read ELSE taskReads[e]
    BY <2>0 DEF ReadInv
  <2>3. \A e \in Readers : ReadIsCurrent(taskReads[e])'
    BY <1>0, <1>2, <2>0, <2>2 DEF ReadInv, ReadIsCurrent
  <2> QED BY <1>0, <1>2, <2>1, <2>3 DEF ReadInv
<1>3. ASSUME UNCHANGED taskView
      PROVE  /\ ViewTypes(taskView') /\ taskView'.generation = taskView.generation
             /\ taskCommand'.stage \in {"idle", "saving"} /\ taskView'.generation > 0 => ViewOfStore(taskView', taskFile')
  BY <1>0, <1>3 DEF ReadInv
<1>4. ReadIsCurrent(NoAppRead)
  BY DEF ReadIsCurrent, NoAppRead
<1>5. CASE GetCached(c)
  <2>1. PICK d \in taskView.details : taskView' = remember(taskView, d.task, d.record)
    BY <1>5 DEF GetCached
  <2>2. d.task \in ReadTasks /\ taskView.generation > 0
    BY <1>0, <1>5 DEF ViewTypes, GetCached, ViewInitialized
  <2>3. taskCommand.stage \in {"idle", "saving"} => taskFile[d.task] # NoTask /\ d.record = taskFile[d.task]
    BY <2>2 DEF ReadInv, ViewOfStore
  <2>4. taskReads' = [taskReads EXCEPT ![c] = taskReads[c]]
    BY <1>5 DEF GetCached, ReadInv
  <2> QED BY <1>0, <1>1, <1>2, <2>1, <2>2, <2>3, <2>4
<1>6. CASE ReadBegins(c)
  <2>1. PICK read : /\ taskReads' = [taskReads EXCEPT ![c] = read] /\ UNCHANGED taskView
                    /\ \/ \E t \in ReadTasks : read = [op |-> "get", task |-> t, loaded |-> FALSE,
                                                       generation |-> taskView.generation]
                       \/ read = [op |-> "list", loaded |-> FALSE, generation |-> taskView.generation]
    BY <1>6 DEF ReadBegins
  <2>2. ReadIsCurrent(read)
    BY <1>0, <2>1 DEF ReadIsCurrent
  <2> QED BY <1>2, <1>3, <2>1, <2>2
<1>7. CASE ReadLoads(c)
  <2> DEFINE read == taskReads[c]
             loaded == [f \in DOMAIN read \cup {"store"} |->
                          CASE f = "store" -> taskFile [] f = "loaded" -> TRUE [] OTHER -> read[f]]
  <2>1. taskReads' = [taskReads EXCEPT ![c] = loaded] /\ UNCHANGED taskView
    BY <1>7 DEF ReadLoads
  <2>2. "op" \in DOMAIN read => loaded.op = read.op
    OBVIOUS
  <2>3. "generation" \in DOMAIN read => loaded.generation = read.generation
    OBVIOUS
  <2>4. "task" \in DOMAIN read => loaded.task = read.task
    OBVIOUS
  <2>5. loaded.store = taskFile /\ DOMAIN loaded = DOMAIN read \cup {"store"}
    OBVIOUS
  <2> HIDE DEF loaded
  <2>6. ReadIsCurrent(loaded)
    BY <1>0, <2>2, <2>3, <2>4, <2>5 DEF ReadIsCurrent
  <2> QED BY <1>2, <1>3, <2>1, <2>6
<1>8. CASE GetEnds(c)
  <2> DEFINE read == taskReads[c]
  <2>1. taskReads' = [taskReads EXCEPT ![c] = NoAppRead] /\ read.op = "get" /\ read.loaded /\ taskView' = GetRemembers(read)
    BY <1>8 DEF GetEnds
  <2>2. CASE read.store[read.task] # NoTask /\ read.generation = taskView.generation
    <3>1. taskView' = remember(taskView, read.task, read.store[read.task]) /\ read.task \in ReadTasks
      BY <1>0, <2>1, <2>2 DEF GetRemembers, ReadIsCurrent
    <3>2. taskCommand.stage \in {"idle", "saving"} => read.store = taskFile
      BY <1>0, <2>1, <2>2 DEF ReadIsCurrent
    <3>3. taskCommand.stage \in {"idle", "saving"} =>
            taskFile[read.task] # NoTask /\ read.store[read.task] = taskFile[read.task]
      BY <2>2, <3>2
    <3> HIDE DEF read
    <3> QED BY <1>1, <1>2, <1>4, <2>1, <3>1, <3>3
  <2>3. CASE ~(read.store[read.task] # NoTask /\ read.generation = taskView.generation)
    <3>1. taskView' = taskView
      BY <2>1, <2>3 DEF GetRemembers
    <3> QED BY <1>2, <1>3, <1>4, <2>1, <3>1
  <2> QED BY <2>2, <2>3
<1>9. CASE ListEnds(c) \/ ListEndsAgain(c)
  <2>1. PICK read \in {[op |-> "again", loaded |-> FALSE], NoAppRead} :
          taskReads' = [taskReads EXCEPT ![c] = read] /\ UNCHANGED taskView
    BY <1>9 DEF ListEnds, ListEndsAgain
  <2>2. ReadIsCurrent(read)
    BY <1>4, <2>1 DEF ReadIsCurrent
  <2> QED BY <1>2, <1>3, <2>1, <2>2
<1> QED BY <1>5, <1>6, <1>7, <1>8, <1>9

(* Every command and every read keeps the invariant.                       *)
LEMMA ReadModelInvariance == ReadModelSpec => []ReadInv
<1>1. ReadInv /\ [ReadModelNext]_readVars => ReadInv'
  <2> SUFFICES ASSUME ReadInv, [ReadModelNext]_readVars PROVE ReadInv'
    OBVIOUS
  <2>1. CASE UNCHANGED readVars \/ ClockTicks
    <3>1. UNCHANGED <<taskFile, taskCommand, taskView, taskReads>>
      BY <2>1 DEF readVars, ClockTicks
    <3>2. CommandTypes' /\ \A c \in Readers : ReadIsCurrent(taskReads[c])'
      BY <3>1 DEF ReadInv, CommandTypes, ReadIsCurrent
    <3> QED BY <3>1, <3>2 DEF ReadInv
  <2> QED BY <2>1, CommandsKeepView, ReadsKeepView DEF ReadModelNext
<1> QED BY <1>1, ReadModelBegins, PTL DEF ReadModelSpec

(* Outside the moment between a command's rename and its publication the   *)
(* list and the cached details show what the file says, at any time: no    *)
(* read that a command overtook plants its record (read-model.ts, get,     *)
(* publish).                                                               *)
THEOREM ViewAlwaysShowsTheStore == ReadModelSpec => []ViewShowsTheStore
<1>1. ReadInv => ViewShowsTheStore
  <2> SUFFICES ASSUME ReadInv, ViewInitialized, taskCommand.stage # "renamed" PROVE
        /\ \A t \in ReadTasks :
             IF taskFile[t] = NoTask THEN taskView.summaries[t] = NoTask
             ELSE projectCurrentSummary(taskView.summaries[t], shownTime)
                    = projectCurrentRecord(taskFile[t], shownTime)
        /\ \A d \in taskView.details :
             /\ taskFile[d.task] # NoTask
             /\ projectCurrentRecord(d.record, shownTime)
                  = projectCurrentRecord(taskFile[d.task], shownTime)
    BY DEF ViewShowsTheStore
  <2>1. ViewOfStore(taskView, taskFile)
    BY DEF ReadInv, ViewInitialized
  <2>2. ASSUME NEW t \in ReadTasks, taskFile[t] # NoTask
        PROVE  projectCurrentSummary(taskView.summaries[t], shownTime)
                 = projectCurrentRecord(taskFile[t], shownTime)
    <3>1. taskView.summaries[t] = [state |-> taskFile[t].state, delivery |-> taskFile[t].delivery,
                                   verified |-> canRecoverVerifiedSingleStageCompletion(taskFile[t])]
      BY <2>1, <2>2 DEF ViewOfStore, projectSummary
    <3>2. canRecoverVerifiedSingleStageCompletion(taskFile[t]) \in BOOLEAN
      BY DEF canRecoverVerifiedSingleStageCompletion
    <3> QED BY <3>1, <3>2 DEF projectCurrentSummary, projectCurrentRecord, shouldProjectExpiry
  <2> QED BY <2>1, <2>2 DEF ViewOfStore, projectSummary
<1> QED BY <1>1, ReadModelInvariance, PTL
-----------------------------------------------------------------------------
(* The images of a Task                                                    *)

Directories == {"staged", "input", "made", "result"}
ImageStates == [there : {"never", "here", "aged"}, at : Nat]

AttTypes ==
  /\ attClock \in Nat
  /\ files \in [Directories -> ImageStates]
  /\ outgoing = [f \in {"state", "acked", "retryAt", "artifact", "ready"} |-> outgoing[f]]
  /\ incoming = [f \in {"state", "ready", "madeAt", "imageAcked", "imageRetryAt", "artifactAcked",
                        "artifactRetryAt"} |-> incoming[f]]

Written(d) == files[d] # Never

(* A receipt on its way, like one that was taken, tells of a file that was *)
(* written.                                                                *)
ReceiptsAreTrue ==
  /\ "input_receipt" \in attMail \/ outgoing.acked => Written("input")
  /\ "result_receipt" \in attMail \/ incoming.imageAcked => Written("result")

RecordsAreTrue ==
  /\ outgoing.artifact /\ outgoing.ready => Written("result")
  /\ incoming.state \in {"working", "completed"} => Written("input")
  /\ incoming.state = "submitted" /\ incoming.ready /\ ~DeadlinePassed(RequestTtl) => Stored("input")
  /\ incoming.state = "none" => incoming.ready = FALSE

AttInv == AttTypes /\ ReceiptsAreTrue /\ RecordsAreTrue

(* At first there is no file, receipt or record.                           *)
LEMMA AttachmentsBegin == AttachmentInit => AttInv
<1> SUFFICES ASSUME AttachmentInit PROVE AttInv
  OBVIOUS
<1>1. AttTypes
  BY DEF AttachmentInit, AttTypes, Directories, ImageStates, Never
<1> QED BY <1>1 DEF AttachmentInit, AttInv, ReceiptsAreTrue, RecordsAreTrue

(* A message that is taken was there, and only its reply is new.           *)
LEMMA TakenMail ==
  ASSUME NEW kind, NEW reply, Takes(kind, reply)
  PROVE  kind \in attMail /\ attMail' \subseteq attMail \union reply
BY DEF Takes

(* A file that is here was written, and what is written now is here.       *)
LEMMA HereIsWritten ==
  ASSUME NEW d \in Directories
  PROVE  Stored(d) => Written(d)
BY DEF Stored, Written, Never

(* A file that is ingested is here, and the others stay.                   *)
LEMMA IngestWrites ==
  ASSUME AttInv, NEW d \in Directories, IngestImage(d)
  PROVE  /\ files' \in [Directories -> ImageStates] /\ Stored(d)' /\ Written(d)'
         /\ \A e \in Directories : Written(e) => Written(e)'
         /\ \A e \in Directories : Stored(e) => Stored(e)'
<1>1. files \in [Directories -> ImageStates] /\ attClock \in Nat
  BY DEF AttInv, AttTypes
<1>2. Here \in ImageStates /\ Here # Never /\ Here.there = "here"
  BY <1>1 DEF Here, Never, ImageStates
<1>3. CASE Stored(d) /\ UNCHANGED files
  BY <1>1, <1>3 DEF Stored, Written, Never
<1>4. CASE files' = [files EXCEPT ![d] = Here]
  <2>1. \A e \in Directories : files'[e] = IF e = d THEN Here ELSE files[e]
    BY <1>1, <1>4
  <2> QED BY <1>1, <1>2, <1>4, <2>1 DEF Stored, Written
<1> QED BY <1>3, <1>4 DEF IngestImage

(* What keeps the records and only adds true receipts keeps the claims.    *)
LEMMA MailKeepsClaims ==
  ASSUME AttInv, UNCHANGED <<outgoing, incoming, attClock>>, files' \in [Directories -> ImageStates],
         \A e \in Directories : Written(e) => Written(e)', Stored("input") => Stored("input")',
         "input_receipt" \in attMail' => "input_receipt" \in attMail \/ Written("input"),
         "result_receipt" \in attMail' => "result_receipt" \in attMail \/ Written("result")
  PROVE  AttInv'
<1>1. AttTypes'
  BY DEF AttInv, AttTypes
<1>2. ReceiptsAreTrue'
  BY DEF AttInv, ReceiptsAreTrue, Directories
<1>3. RecordsAreTrue'
  BY DEF AttInv, RecordsAreTrue, Directories, DeadlinePassed
<1> QED BY <1>1, <1>2, <1>3 DEF AttInv

(* The requester's side of the request, and what only moves mail.          *)
LEMMA RequestKeepsClaims ==
  ASSUME AttInv,
         \/ StageImage \/ SendTask \/ TrySendInputAttachments \/ DropExpiredAttachment \/ WriteThenCrash
         \/ SendResultImage \/ SendResultDocument \/ LoseAttachmentMail
  PROVE  AttInv'
<1>0. AttTypes /\ ReceiptsAreTrue /\ RecordsAreTrue /\ attClock \in Nat /\ files \in [Directories -> ImageStates]
  BY DEF AttInv, AttTypes
<1>1. CASE StageImage
  <2>1. files' = [files EXCEPT !["staged"] = Here] /\ Here \in ImageStates
    BY <1>0, <1>1 DEF StageImage, Here, ImageStates
  <2>2. /\ files' \in [Directories -> ImageStates] /\ \A e \in Directories : e # "staged" => files'[e] = files[e]
        /\ files'["staged"] = Here
    BY <1>0, <2>1 DEF Directories
  <2>3. Here # Never
    BY DEF Here, Never
  <2>4. \A e \in Directories : Written(e) => Written(e)'
    BY <2>2, <2>3 DEF Written
  <2>5. Stored("input") => Stored("input")'
    BY <2>2 DEF Stored, Directories
  <2> QED BY <1>1, <2>2, <2>4, <2>5, MailKeepsClaims DEF StageImage
<1>2. CASE SendTask \/ TrySendInputAttachments
  <2>1. /\ UNCHANGED <<attClock, files, incoming>> /\ outgoing'.acked = outgoing.acked
        /\ outgoing'.artifact = outgoing.artifact /\ outgoing'.ready = outgoing.ready
        /\ attMail' \subseteq attMail \union {"request", "input"} /\ AttTypes'
    BY <1>0, <1>2 DEF SendTask, TrySendInputAttachments, Sends, AttTypes
  <2> QED BY <1>0, <2>1 DEF AttInv, ReceiptsAreTrue, RecordsAreTrue, Written, Stored, DeadlinePassed
<1>3. CASE DropExpiredAttachment \/ LoseAttachmentMail
  <2>1. UNCHANGED <<attClock, files, outgoing, incoming>> /\ attMail' \subseteq attMail
    BY <1>3, TakenMail DEF DropExpiredAttachment, LoseAttachmentMail
  <2> QED BY <1>0, <2>1, MailKeepsClaims DEF Written, Stored
<1>4. CASE WriteThenCrash
  <2>1. PICK d \in {"input", "result"} : IngestImage(d)
    BY <1>4 DEF WriteThenCrash
  <2>2. UNCHANGED <<attClock, outgoing, incoming, attMail>>
    BY <1>4 DEF WriteThenCrash
  <2> QED BY <2>1, <2>2, IngestWrites, MailKeepsClaims DEF Directories
<1>5. CASE SendResultImage \/ SendResultDocument
  <2>1. /\ UNCHANGED <<attClock, files, outgoing>> /\ incoming'.imageAcked = incoming.imageAcked
        /\ incoming'.state = incoming.state /\ incoming'.ready = incoming.ready
        /\ attMail' \subseteq attMail \union {"result", "document"} /\ AttTypes'
    BY <1>0, <1>5 DEF SendResultImage, SendResultDocument, Sends, AttTypes
  <2> QED BY <1>0, <2>1 DEF AttInv, ReceiptsAreTrue, RecordsAreTrue, Written, Stored, DeadlinePassed
<1> QED BY <1>1, <1>2, <1>3, <1>4, <1>5

(* What arrives at the target and at the requester.                        *)
LEMMA ArrivalsKeepClaims ==
  ASSUME AttInv,
         \/ ReceiveRequest \/ ReceiveInputAttachment \/ ReceiveInputReceipt \/ ReceiveResultAttachment
         \/ ReceiveResultDocument \/ ReceiveResultReceipt
  PROVE  AttInv'
<1>0. AttTypes /\ ReceiptsAreTrue /\ RecordsAreTrue /\ attClock \in Nat /\ files \in [Directories -> ImageStates]
  BY DEF AttInv, AttTypes
<1>1. CASE ReceiveRequest
  <2>1. /\ UNCHANGED <<attClock, files, outgoing>> /\ attMail' \subseteq attMail
        /\ incoming'.imageAcked = incoming.imageAcked /\ incoming'.ready = incoming.ready
        /\ \/ incoming'.state = incoming.state
           \/ incoming.state = "none" /\ incoming'.state \in {"rejected", "submitted"}
        /\ AttTypes'
    BY <1>0, <1>1, TakenMail DEF ReceiveRequest, AttTypes
  <2> QED BY <1>0, <2>1 DEF AttInv, ReceiptsAreTrue, RecordsAreTrue, Written, Stored, DeadlinePassed
<1>2. CASE ReceiveInputAttachment
  <2>0. UNCHANGED <<attClock, outgoing>>
    BY <1>2 DEF ReceiveInputAttachment
  <2>1. CASE incoming.state \in {"completed", "rejected", "failed"}
    <3>1. /\ UNCHANGED <<files, incoming>>
          /\ attMail' \subseteq attMail \union (IF Stored("input") THEN {"input_receipt"} ELSE {})
      BY <1>2, <2>1, TakenMail DEF ReceiveInputAttachment
    <3>2. Stored("input") => Written("input")
      BY HereIsWritten DEF Directories
    <3> QED BY <1>0, <2>0, <3>1, <3>2, MailKeepsClaims DEF Written, Stored
  <2>2. CASE incoming.state \notin {"completed", "rejected", "failed"}
    <3>1. /\ IngestImage("input") /\ attMail' \subseteq attMail \union {"input_receipt"}
          /\ incoming' = IF incoming.state = "none" THEN incoming ELSE [incoming EXCEPT !.ready = TRUE]
      BY <1>2, <2>2, TakenMail DEF ReceiveInputAttachment
    <3>2. /\ files' \in [Directories -> ImageStates] /\ Stored("input")' /\ Written("input")'
          /\ Written("result") => Written("result")'
      BY <3>1, IngestWrites DEF Directories
    <3>3. /\ incoming'.imageAcked = incoming.imageAcked /\ incoming'.state = incoming.state
          /\ incoming.state = "none" => incoming'.ready = incoming.ready
          /\ AttTypes'
      BY <1>0, <2>0, <3>1, <3>2 DEF AttTypes
    <3> QED BY <1>0, <2>0, <3>1, <3>2, <3>3 DEF AttInv, ReceiptsAreTrue, RecordsAreTrue
  <2> QED BY <2>1, <2>2
<1>3. CASE ReceiveInputReceipt
  <2>0. /\ Takes("input_receipt", {}) /\ outgoing' = [outgoing EXCEPT !.acked = TRUE]
        /\ UNCHANGED <<attClock, files, incoming>>
    BY <1>3 DEF ReceiveInputReceipt
  <2>a. "input_receipt" \in attMail /\ attMail' \subseteq attMail /\ Written("input")
    BY <1>0, <2>0, TakenMail DEF ReceiptsAreTrue
  <2>b. outgoing'.artifact = outgoing.artifact /\ outgoing'.ready = outgoing.ready /\ AttTypes'
    BY <1>0, <2>0 DEF AttTypes
  <2>1. /\ UNCHANGED <<attClock, files, incoming>> /\ attMail' \subseteq attMail /\ Written("input")
        /\ outgoing'.artifact = outgoing.artifact /\ outgoing'.ready = outgoing.ready
        /\ AttTypes'
    BY <2>0, <2>a, <2>b
  <2> QED BY <1>0, <2>1 DEF AttInv, ReceiptsAreTrue, RecordsAreTrue, Written, Stored, DeadlinePassed
<1>4. CASE ReceiveResultAttachment
  <2>1. /\ UNCHANGED <<attClock, incoming>> /\ attMail' \subseteq attMail \union {"result_receipt"}
        /\ IngestImage("result")
        /\ outgoing' = IF outgoing.artifact THEN [outgoing EXCEPT !.ready = TRUE] ELSE outgoing
    BY <1>4, TakenMail DEF ReceiveResultAttachment
  <2>2. /\ files' \in [Directories -> ImageStates] /\ Written("result")'
        /\ (Written("input") => Written("input")') /\ (Stored("input") => Stored("input")')
    BY <2>1, IngestWrites DEF Directories
  <2>3. outgoing'.acked = outgoing.acked /\ AttTypes'
    BY <1>0, <2>1, <2>2 DEF AttTypes
  <2> QED BY <1>0, <2>1, <2>2, <2>3 DEF AttInv, ReceiptsAreTrue, RecordsAreTrue, DeadlinePassed
<1>5. CASE ReceiveResultDocument
  <2>1. /\ UNCHANGED <<attClock, files, incoming>> /\ attMail' \subseteq attMail \union {"document_receipt"}
        /\ outgoing'.acked = outgoing.acked /\ outgoing'.ready = Stored("result")
        /\ AttTypes'
    BY <1>0, <1>5, TakenMail DEF ReceiveResultDocument, AttTypes
  <2>2. Stored("result") => Written("result")
    BY HereIsWritten DEF Directories
  <2> QED BY <1>0, <2>1, <2>2 DEF AttInv, ReceiptsAreTrue, RecordsAreTrue, Written, Stored, DeadlinePassed
<1>6. CASE ReceiveResultReceipt
  <2>1. /\ UNCHANGED <<attClock, files, outgoing>> /\ attMail' \subseteq attMail
        /\ incoming'.state = incoming.state /\ incoming'.ready = incoming.ready
        /\ incoming'.imageAcked = incoming.imageAcked \/ Written("result")
        /\ AttTypes'
    BY <1>0, <1>6, TakenMail DEF ReceiveResultReceipt, AttTypes, ReceiptsAreTrue
  <2> QED BY <1>0, <2>1 DEF AttInv, ReceiptsAreTrue, RecordsAreTrue, Written, Stored, DeadlinePassed
<1> QED BY <1>1, <1>2, <1>3, <1>4, <1>5, <1>6

(* The target's Task, time and retention: a file is aged no earlier than   *)
(* Retention after it was written, when no request can still be approved.  *)
LEMMA TimeKeepsClaims ==
  ASSUME AttInv,
         \/ ApproveWithImages \/ RunEndsWithImage \/ OutgoingEnds \/ IncomingExpires
         \/ RefreshReadinessAndCleanup \/ AttachTimePasses
  PROVE  AttInv'
<1>0. AttTypes /\ ReceiptsAreTrue /\ RecordsAreTrue /\ attClock \in Nat /\ files \in [Directories -> ImageStates]
  BY DEF AttInv, AttTypes
<1>1. CASE ApproveWithImages
  <2>1. Written("input")
    BY <1>1, HereIsWritten DEF ApproveWithImages, Directories
  <2>2. /\ UNCHANGED <<attClock, files, outgoing, attMail>> /\ incoming'.state = "working"
        /\ incoming'.imageAcked = incoming.imageAcked /\ AttTypes'
    BY <1>0, <1>1 DEF ApproveWithImages, AttTypes
  <2> QED BY <1>0, <2>1, <2>2 DEF AttInv, ReceiptsAreTrue, RecordsAreTrue, Written, Stored
<1>2. CASE RunEndsWithImage
  <2>1. /\ UNCHANGED <<attClock, outgoing, attMail>> /\ incoming.state = "working"
        /\ incoming'.state \in {"completed", "failed"} /\ incoming'.imageAcked = incoming.imageAcked
        /\ files' \in {files, [files EXCEPT !["made"] = Here]}
    BY <1>0, <1>2 DEF RunEndsWithImage, AttTypes
  <2>2. /\ files' \in [Directories -> ImageStates]
        /\ files'["input"] = files["input"] /\ files'["result"] = files["result"]
    BY <1>0, <2>1 DEF Directories, Here, ImageStates
  <2>3. AttTypes'
    BY <1>0, <1>2, <2>1, <2>2 DEF RunEndsWithImage, AttTypes
  <2> QED BY <1>0, <2>1, <2>2, <2>3 DEF AttInv, ReceiptsAreTrue, RecordsAreTrue, Written
<1>3. CASE OutgoingEnds
  <2>1. /\ UNCHANGED <<attClock, files, incoming, attMail>> /\ outgoing'.acked = outgoing.acked
        /\ outgoing'.artifact = outgoing.artifact /\ outgoing'.ready = outgoing.ready /\ AttTypes'
    BY <1>0, <1>3 DEF OutgoingEnds, AttTypes
  <2> QED BY <1>0, <2>1 DEF AttInv, ReceiptsAreTrue, RecordsAreTrue, Written, Stored, DeadlinePassed
<1>4. CASE IncomingExpires
  <2>1. /\ UNCHANGED <<attClock, files, outgoing, attMail>> /\ incoming'.state = "rejected"
        /\ incoming'.imageAcked = incoming.imageAcked /\ AttTypes'
    BY <1>0, <1>4 DEF IncomingExpires, AttTypes
  <2> QED BY <1>0, <2>1 DEF AttInv, ReceiptsAreTrue, RecordsAreTrue, Written, Stored
<1>5. CASE RefreshReadinessAndCleanup
  <2>1. /\ UNCHANGED <<attClock, outgoing, attMail>>
        /\ files' = [d \in DOMAIN files |-> IF Aged(d) THEN [files[d] EXCEPT !.there = "aged"] ELSE files[d]]
    BY <1>5 DEF RefreshReadinessAndCleanup
  <2>2. \A d \in Directories : /\ files'[d] = IF Aged(d) THEN [files[d] EXCEPT !.there = "aged"] ELSE files[d]
                               /\ files[d] \in ImageStates
    BY <1>0, <2>1
  <2>3. files' \in [Directories -> ImageStates]
    BY <1>0, <2>1, <2>2 DEF ImageStates
  <2>4. \A d \in Directories : Written(d) => Written(d)'
    <3> SUFFICES ASSUME NEW d \in Directories, Written(d) PROVE files'[d] # Never
      BY DEF Written
    <3>1. CASE Aged(d)
      <4>1. files'[d].there = "aged"
        BY <2>2, <3>1 DEF ImageStates
      <4> QED BY <4>1 DEF Never
    <3>2. CASE ~Aged(d)
      BY <2>2, <3>2 DEF Written
    <3> QED BY <3>1, <3>2
  <2>5. ~DeadlinePassed(RequestTtl) => ~Aged("input")
    BY <1>0, AttachmentBounds DEF DeadlinePassed, Aged, ImageStates, Directories
  <2>6. ~DeadlinePassed(RequestTtl) /\ Stored("input") => Stored("input")'
    BY <2>2, <2>5 DEF Stored, Directories
  <2>7. /\ incoming'.state = incoming.state /\ incoming'.imageAcked = incoming.imageAcked
        /\ incoming.state = "submitted" => incoming'.ready = Stored("input")
        /\ incoming.state = "none" => incoming'.ready = incoming.ready
        /\ AttTypes'
    <3>1. incoming' = IF incoming.state \in {"submitted", "working"}
                      THEN [incoming EXCEPT !.ready = Stored("input")] ELSE incoming
      BY <1>5 DEF RefreshReadinessAndCleanup
    <3>2. Stored("input") \in BOOLEAN
      BY DEF Stored
    <3>3. CASE incoming.state \in {"submitted", "working"}
      BY <1>0, <2>1, <2>3, <3>1, <3>2, <3>3 DEF AttTypes
    <3>4. CASE incoming.state \notin {"submitted", "working"}
      BY <1>0, <2>1, <2>3, <3>1, <3>4 DEF AttTypes
    <3> QED BY <3>3, <3>4
  <2> QED BY <1>0, <2>1, <2>4, <2>6, <2>7 DEF AttInv, ReceiptsAreTrue, RecordsAreTrue, Directories, DeadlinePassed
<1>6. CASE AttachTimePasses
  <2>1. attClock' = attClock + 1 /\ UNCHANGED <<files, outgoing, incoming, attMail>>
    BY <1>6 DEF AttachTimePasses
  <2>2. AttTypes' /\ (DeadlinePassed(RequestTtl) => DeadlinePassed(RequestTtl)')
    BY <1>0, <2>1, AttachmentBounds DEF AttTypes, DeadlinePassed
  <2> QED BY <1>0, <2>1, <2>2 DEF AttInv, ReceiptsAreTrue, RecordsAreTrue, Written, Stored
<1> QED BY <1>1, <1>2, <1>3, <1>4, <1>5, <1>6

(* Every operation on the images keeps the invariant.                      *)
LEMMA AttachmentStep == AttInv /\ [AttachmentNext]_attVars => AttInv'
<1> SUFFICES ASSUME AttInv, [AttachmentNext]_attVars PROVE AttInv'
  OBVIOUS
<1>1. CASE UNCHANGED attVars
  BY <1>1 DEF attVars, AttInv, AttTypes, ReceiptsAreTrue, RecordsAreTrue, Written, Stored, DeadlinePassed
<1>2. CASE AttachmentNext
  BY <1>2, RequestKeepsClaims, ArrivalsKeepClaims, TimeKeepsClaims DEF AttachmentNext
<1> QED BY <1>1, <1>2

-----------------------------------------------------------------------------
(* The image run                                                           *)

SeenFields == {"won", "image", "turn", "completed", "failed", "files"}
CopyFields == {"left", "tries", "done", "error"}
WaitStages == RequestStages \cup {"image-result"}

(* What the line handler records: a race lost to a failure has the failure *)
(* noted, and an image that was seen has its file.                         *)
SeenIsSound(seen) ==
  /\ seen = [f \in SeenFields |-> seen[f]]
  /\ seen.files \subseteq ImageFiles
  /\ seen.won = "failed" => seen.failed = TRUE
  /\ seen.image => seen.files # {}

RunnerTypes ==
  /\ runStage \in WaitStages \cup {"persist", "answered"}
  /\ runFiles \in [ImageFiles -> {"absent", "partial", "whole", "broken"}]
  /\ runChunks \in [chunks : Nat, lines : Nat]
  /\ runCopies = [f \in CopyFields |-> runCopies[f]]

(* What is copied was named by the server; what has been copied is whole,  *)
(* and nothing is copied, and no line handled, outside its stage.          *)
CopiesAreSound ==
  /\ runCopies.left \in Seq(runSeen.files)
  /\ \A f \in runCopies.done : f \in runSeen.files /\ runFiles[f] = "whole"
  /\ runStage \in WaitStages => runCopies = NoCopies /\ runAnswer = NoRunAnswer
  /\ runStage = "persist" => runAnswer = NoRunAnswer
  /\ runStage \in {"persist", "answered"} => ~InChunk

RunnerInv == RunnerTypes /\ SeenIsSound(runSeen) /\ CopiesAreSound /\ AnswerTellsTheImage

(* The list of the files to copy is a sequence of those that were named.   *)
LEMMA ListOfFiles ==
  ASSUME NEW S, IsFiniteSet(S)
  PROVE  SetToSeq(S) \in Seq(S)
<1>1. Cardinality(S) \in Nat /\ ExistsBijection(1 .. Cardinality(S), S)
  BY FS_CardinalityType
<1>2. PICK f \in Bijection(1 .. Cardinality(S), S) : TRUE
  BY <1>1 DEF ExistsBijection
<1>3. f \in [1 .. Cardinality(S) -> S] /\ IsInjective(f)
  BY <1>2 DEF Bijection, Injection, IsInjective
<1>4. SetToSeq(S) \in [1 .. Cardinality(S) -> S]
  BY <1>3 DEF SetToSeq
<1> QED BY <1>1, <1>4

(* Whatever the app server prints, what was seen stays sound.              *)
LEMMA HandledLine ==
  ASSUME NEW seen, SeenIsSound(seen), NEW stage, NEW l \in ServerLines
  PROVE  SeenIsSound(HandleLine(seen, stage, l))
<1>1. CASE l.line = "junk"
  <2>1. HandleLine(seen, stage, l) = ProtocolFailed(seen)
    BY <1>1 DEF HandleLine
  <2> QED BY <2>1 DEF ProtocolFailed, SeenIsSound, SeenFields
<1>2. CASE l.line \in {"result", "error"}
  <2>1. PICK what \in {"result", "error"} : HandleLine(seen, stage, l) = ResponseSettles(seen, stage, what)
    BY <1>2 DEF HandleLine
  <2>2. FirstToSettle(seen, what) = "failed" => seen.won = "failed"
    BY DEF FirstToSettle
  <2> QED BY <2>1, <2>2 DEF ResponseSettles, SeenIsSound, SeenFields
<1>3. CASE l.line = "image"
  <2>1. HandleLine(seen, stage, l) = ImageItem(seen, l.file) /\ l.file \in ImageFiles
    BY <1>3 DEF HandleLine, ServerLines
  <2> QED BY <2>1 DEF ImageItem, SeenIsSound, SeenFields
<1>4. CASE l.line = "turn"
  <2>1. HandleLine(seen, stage, l) = TurnCompleted(seen, stage, l.files) /\ l.files \subseteq ImageFiles
    BY <1>4 DEF HandleLine, ServerLines
  <2>2. FirstToSettle(seen, "turn") = "failed" => seen.won = "failed"
    BY DEF FirstToSettle
  <2>3. \/ HandleLine(seen, stage, l) = [seen EXCEPT !.turn = TRUE]
        \/ \E won \in {FirstToSettle(seen, "turn"), seen.won} :
             HandleLine(seen, stage, l) =
               [seen EXCEPT !.turn = TRUE, !.completed = TRUE, !.files = @ \cup l.files, !.won = won]
    BY <2>1 DEF TurnCompleted
  <2>4. CASE HandleLine(seen, stage, l) = [seen EXCEPT !.turn = TRUE]
    BY <2>4 DEF SeenIsSound, SeenFields
  <2>5. ASSUME NEW won \in {FirstToSettle(seen, "turn"), seen.won},
               HandleLine(seen, stage, l) =
                 [seen EXCEPT !.turn = TRUE, !.completed = TRUE, !.files = @ \cup l.files, !.won = won]
        PROVE  SeenIsSound(HandleLine(seen, stage, l))
    BY <2>1, <2>2, <2>5 DEF SeenIsSound, SeenFields
  <2> QED BY <2>3, <2>4, <2>5
<1> QED BY <1>1, <1>2, <1>3, <1>4 DEF ServerLines

(* A run begins with its first request and has seen nothing.               *)
LEMMA RunnerBegins == ImageRunnerInit => RunnerInv
<1> SUFFICES ASSUME ImageRunnerInit PROVE RunnerInv
  OBVIOUS
<1>1. RunnerTypes
  BY DEF ImageRunnerInit, RunnerTypes, WaitStages, RequestStages, NoCopies, CopyFields
<1>2. SeenIsSound(runSeen)
  BY DEF ImageRunnerInit, SeenIsSound, NothingSeen, SeenFields
<1>3. CopiesAreSound
  BY DEF ImageRunnerInit, CopiesAreSound, NoCopies, NoRunAnswer, NothingSeen, InChunk, WaitStages, RequestStages
<1> QED BY <1>1, <1>2, <1>3 DEF ImageRunnerInit, RunnerInv, AnswerTellsTheImage, NoRunAnswer

(* What the server sends, and its end: the files that were named only grow.*)
LEMMA ServerKeepsRun ==
  ASSUME RunnerInv, ChunkArrives \/ LineArrives \/ ServerStreamFails \/ ServerEnds
  PROVE  RunnerInv'
<1>0. RunnerTypes /\ SeenIsSound(runSeen) /\ CopiesAreSound /\ AnswerTellsTheImage
  BY DEF RunnerInv
<1>1. CASE ChunkArrives
  <2>1. /\ UNCHANGED <<runStage, runSeen, runFiles, runCopies, runAnswer>>
        /\ runStage \in WaitStages /\ runChunks' \in [chunks : Nat, lines : Nat]
    BY <1>0, <1>1, ImageRunnerBounds DEF ChunkArrives, RunnerTypes, WaitStages
  <2> QED BY <1>0, <2>1 DEF RunnerInv, RunnerTypes, SeenIsSound, CopiesAreSound, AnswerTellsTheImage, InChunk,
                            WaitStages, RequestStages
<1>2. CASE LineArrives
  <2>1. PICK l \in ServerLines : runSeen' = HandleLine(runSeen, runStage, l)
    BY <1>2 DEF LineArrives
  <2>2. SeenIsSound(runSeen')
    BY <1>0, <2>1, HandledLine
  <2>3. /\ UNCHANGED <<runStage, runFiles, runCopies, runAnswer>> /\ InChunk
        /\ runChunks' = [runChunks EXCEPT !.lines = @ - 1]
    BY <1>2 DEF LineArrives
  <2>4. runChunks' \in [chunks : Nat, lines : Nat]
    BY <1>0, <2>3 DEF RunnerTypes, InChunk
  <2>5. runStage \in WaitStages /\ runCopies = NoCopies /\ runAnswer = NoRunAnswer
    BY <1>0, <2>3 DEF RunnerTypes, CopiesAreSound
  <2>6. RunnerTypes'
    BY <1>0, <2>3, <2>4 DEF RunnerTypes
  <2>7. CopiesAreSound'
    BY <2>3, <2>5 DEF CopiesAreSound, NoCopies, WaitStages, RequestStages
  <2> QED BY <2>2, <2>3, <2>5, <2>6, <2>7 DEF RunnerInv, AnswerTellsTheImage, NoRunAnswer, SeenIsSound
<1>3. CASE ServerStreamFails \/ ServerEnds
  <2>1. /\ UNCHANGED <<runStage, runFiles, runCopies, runAnswer, runChunks>>
        /\ \/ runSeen' = ProtocolFailed(runSeen)
           \/ runSeen' = ResponseSettles(runSeen, runStage, "error")
    BY <1>3 DEF ServerStreamFails, ServerEnds
  <2>2. /\ SeenIsSound(runSeen') /\ runSeen'.files = runSeen.files /\ runSeen'.image = runSeen.image
        /\ runSeen.failed = TRUE => runSeen'.failed = TRUE
    BY <1>0, <2>1 DEF ProtocolFailed, ResponseSettles, FirstToSettle, SeenIsSound, SeenFields
  <2>3. RunnerTypes'
    BY <1>0, <2>1 DEF RunnerTypes
  <2>4. CopiesAreSound'
    BY <1>0, <2>1, <2>2 DEF CopiesAreSound, InChunk
  <2>5. AnswerTellsTheImage'
    BY <1>0, <2>1, <2>2 DEF AnswerTellsTheImage
  <2> QED BY <2>2, <2>3, <2>4, <2>5 DEF RunnerInv, SeenIsSound
<1> QED BY <1>1, <1>2, <1>3

(* A stage that settles, or times out, leads to the next one or to the     *)
(* answer.                                                                 *)
LEMMA StageKeepsRun ==
  ASSUME RunnerInv, RequestDone \/ ImageResultDone \/ StageTimesOut
  PROVE  RunnerInv'
<1>0. RunnerTypes /\ SeenIsSound(runSeen) /\ CopiesAreSound /\ AnswerTellsTheImage
  BY DEF RunnerInv
<1>1. CASE RequestDone
  <2>1. /\ UNCHANGED <<runFiles, runCopies, runChunks>> /\ ~InChunk /\ runStage \in RequestStages
        /\ runCopies = NoCopies /\ runAnswer = NoRunAnswer
    BY <1>0, <1>1 DEF RequestDone, CopiesAreSound, WaitStages
  <2>2. CASE runSeen.won = "result"
    <3>1. /\ runStage' = NextStage[runStage] /\ UNCHANGED runAnswer
          /\ \E won \in {"turn", "none", "failed"} : /\ runSeen' = [runSeen EXCEPT !.won = won]
                                                     /\ won = "failed" => runSeen.failed
      BY <1>1, <2>2 DEF RequestDone
    <3>2. runStage' \in WaitStages
      BY <2>1, <3>1 DEF NextStage, WaitStages, RequestStages
    <3>3. SeenIsSound(runSeen') /\ runSeen'.files = runSeen.files
      BY <1>0, <3>1 DEF SeenIsSound, SeenFields
    <3>4. RunnerTypes' /\ CopiesAreSound'
      BY <1>0, <2>1, <3>1, <3>2, <3>3 DEF RunnerTypes, CopiesAreSound, NoCopies, WaitStages, RequestStages
    <3> QED BY <2>1, <3>1, <3>3, <3>4 DEF RunnerInv, SeenIsSound, AnswerTellsTheImage, NoRunAnswer
  <2>3. CASE runSeen.won # "result"
    <3>1. /\ runStage' = "answered" /\ UNCHANGED runSeen
          /\ runAnswer' = [kind |-> "error", stage |-> runStage, code |-> runSeen.won]
      BY <1>1, <2>3 DEF RequestDone, ImageRunFails
    <3>2. RunnerTypes' /\ CopiesAreSound'
      BY <1>0, <2>1, <3>1 DEF RunnerTypes, CopiesAreSound, NoCopies, WaitStages, RequestStages, InChunk
    <3>3. AnswerTellsTheImage'
      BY <2>1, <3>1 DEF AnswerTellsTheImage, RequestStages
    <3> QED BY <1>0, <3>1, <3>2, <3>3 DEF RunnerInv, SeenIsSound
  <2> QED BY <2>2, <2>3
<1>2. CASE ImageResultDone
  <2>1. /\ UNCHANGED <<runSeen, runFiles, runChunks>> /\ ~InChunk /\ runStage = "image-result"
        /\ runCopies = NoCopies /\ runAnswer = NoRunAnswer
    BY <1>0, <1>2 DEF ImageResultDone, CopiesAreSound, WaitStages
  <2>2. CASE runSeen.won = "failed" \/ runSeen.files = {}
    <3>1. /\ runStage' = "answered" /\ UNCHANGED runCopies
          /\ runAnswer' = [kind |-> "error", stage |-> "image-result",
                           code |-> IF runSeen.won = "failed" THEN "failed" ELSE "missing"]
      BY <1>2, <2>2 DEF ImageResultDone, ImageRunFails
    <3>2. RunnerTypes' /\ CopiesAreSound'
      BY <1>0, <2>1, <3>1 DEF RunnerTypes, CopiesAreSound, NoCopies, WaitStages, RequestStages, InChunk
    <3>3. AnswerTellsTheImage'
      BY <1>0, <2>1, <2>2, <3>1 DEF AnswerTellsTheImage, SeenIsSound
    <3> QED BY <1>0, <2>1, <3>2, <3>3 DEF RunnerInv, SeenIsSound
  <2>3. CASE ~(runSeen.won = "failed" \/ runSeen.files = {})
    <3>1. /\ runStage' = "persist" /\ UNCHANGED runAnswer
          /\ runCopies' = [NoCopies EXCEPT !.left = SetToSeq(runSeen.files)]
      BY <1>2, <2>3 DEF ImageResultDone, collectResult
    <3>2. IsFiniteSet(runSeen.files)
      BY <1>0, ImageRunnerBounds, FS_Subset DEF SeenIsSound
    <3>3. /\ runCopies' = [f \in CopyFields |-> runCopies'[f]] /\ runCopies'.done = {}
          /\ runCopies'.left \in Seq(runSeen.files)
      BY <3>1, <3>2, ListOfFiles DEF NoCopies, CopyFields
    <3>4. RunnerTypes' /\ CopiesAreSound'
      BY <1>0, <2>1, <3>1, <3>3 DEF RunnerTypes, CopiesAreSound, WaitStages, RequestStages, InChunk
    <3> QED BY <1>0, <2>1, <3>1, <3>4 DEF RunnerInv, SeenIsSound, AnswerTellsTheImage
  <2> QED BY <2>2, <2>3
<1>3. CASE StageTimesOut
  <2>1. /\ UNCHANGED <<runSeen, runFiles, runCopies, runChunks>> /\ runStage \in WaitStages /\ ~InChunk
        /\ runStage' = "answered" /\ runAnswer' = [kind |-> "error", stage |-> runStage, code |-> "timeout"]
        /\ runStage = "image-result" => ~runSeen.image
    BY <1>3 DEF StageTimesOut, RunnerCanGo, ImageResultReady, ImageRunFails, WaitStages
  <2>2. RunnerTypes' /\ CopiesAreSound'
    BY <1>0, <2>1 DEF RunnerTypes, CopiesAreSound, WaitStages, RequestStages, InChunk
  <2> QED BY <1>0, <2>1, <2>2 DEF RunnerInv, SeenIsSound, AnswerTellsTheImage
<1> QED BY <1>1, <1>2, <1>3

(* The copies: a file that is whole stays whole.                           *)
LEMMA CopiesKeepRun ==
  ASSUME RunnerInv, FileSettles \/ CopyAttempt \/ CopiesDone
  PROVE  RunnerInv'
<1>0. RunnerTypes /\ SeenIsSound(runSeen) /\ CopiesAreSound /\ AnswerTellsTheImage
  BY DEF RunnerInv
<1>1. CASE FileSettles
  <2>1. UNCHANGED <<runStage, runSeen, runCopies, runAnswer, runChunks>> /\ runStage = "persist"
    BY <1>1 DEF FileSettles
  <2>2. PICK f \in ImageFiles, s \in {"partial", "whole", "broken"} :
          runFiles[f] \in {"absent", "partial"} /\ runFiles' = [runFiles EXCEPT ![f] = s]
    BY <1>1 DEF FileSettles
  <2>3. /\ runFiles' \in [ImageFiles -> {"absent", "partial", "whole", "broken"}]
        /\ \A g \in ImageFiles : runFiles[g] = "whole" => runFiles'[g] = "whole"
    BY <1>0, <2>2 DEF RunnerTypes
  <2>4. RunnerTypes' /\ CopiesAreSound' /\ AnswerTellsTheImage'
    BY <1>0, <2>1, <2>3 DEF RunnerTypes, CopiesAreSound, AnswerTellsTheImage, SeenIsSound, InChunk, NoRunAnswer,
                            WaitStages, RequestStages
  <2> QED BY <1>0, <2>1, <2>4 DEF RunnerInv, SeenIsSound
<1>2. CASE CopyAttempt
  <2>1. /\ UNCHANGED <<runStage, runSeen, runFiles, runAnswer, runChunks>> /\ runStage = "persist"
        /\ runCopies.left # <<>>
    BY <1>2 DEF CopyAttempt
  <2> DEFINE f == Head(runCopies.left)
  <2>2. f \in runSeen.files /\ Tail(runCopies.left) \in Seq(runSeen.files)
    BY <1>0, <2>1, HeadTailProperties DEF CopiesAreSound
  <2>3. \/ /\ runFiles[f] = "whole"
           /\ runCopies' = [runCopies EXCEPT !.left = Tail(@), !.tries = 0, !.done = @ \cup {f}]
        \/ runCopies' = [runCopies EXCEPT !.tries = @ + 1]
        \/ \E error \in {"not_ready", "invalid"} :
             runCopies' = [runCopies EXCEPT !.left = Tail(@), !.tries = 0, !.error = error]
    BY <1>2 DEF CopyAttempt
  <2>4. /\ runCopies' = [g \in CopyFields |-> runCopies'[g]]
        /\ runCopies'.left \in {runCopies.left, Tail(runCopies.left)}
        /\ \/ runCopies'.done = runCopies.done
           \/ runCopies'.done = runCopies.done \cup {f} /\ runFiles[f] = "whole"
    <3> HIDE DEF f
    <3> QED BY <1>0, <2>3 DEF RunnerTypes, CopyFields
  <2>5. RunnerTypes' /\ CopiesAreSound' /\ AnswerTellsTheImage'
    <3> HIDE DEF f
    <3> QED BY <1>0, <2>1, <2>2, <2>4 DEF RunnerTypes, CopiesAreSound, AnswerTellsTheImage, InChunk, NoRunAnswer,
                                          WaitStages, RequestStages
  <2> QED BY <1>0, <2>1, <2>5 DEF RunnerInv, SeenIsSound
<1>3. CASE CopiesDone
  <2>1. /\ UNCHANGED <<runSeen, runFiles, runCopies, runChunks>> /\ runStage = "persist" /\ runStage' = "answered"
        /\ \/ runAnswer' = [kind |-> "image", images |-> runCopies.done]
           \/ runAnswer' = [kind |-> "error", stage |-> "persist", code |-> runCopies.error]
    BY <1>3 DEF CopiesDone, ImageRunFails
  <2>2. RunnerTypes' /\ CopiesAreSound'
    BY <1>0, <2>1 DEF RunnerTypes, CopiesAreSound, InChunk, WaitStages, RequestStages
  <2>3. AnswerTellsTheImage'
    BY <1>0, <2>1 DEF CopiesAreSound, AnswerTellsTheImage
  <2> QED BY <1>0, <2>1, <2>2, <2>3 DEF RunnerInv, SeenIsSound
<1> QED BY <1>1, <1>2, <1>3

(* Every step of a run and of its server keeps the invariant.              *)
LEMMA RunnerStep == RunnerInv /\ [ImageRunnerNext]_runnerVars => RunnerInv'
<1> SUFFICES ASSUME RunnerInv, [ImageRunnerNext]_runnerVars PROVE RunnerInv'
  OBVIOUS
<1>1. CASE UNCHANGED runnerVars
  BY <1>1 DEF runnerVars, RunnerInv, RunnerTypes, SeenIsSound, CopiesAreSound, AnswerTellsTheImage, InChunk
<1>2. CASE ImageRunnerNext
  BY <1>2, ServerKeepsRun, StageKeepsRun, CopiesKeepRun DEF ImageRunnerNext
<1> QED BY <1>1, <1>2

(* What a Task says of an image is so, in every behaviour of two connected *)
(* peers (attachments.ts, codex-image-runner.ts): what a record believes   *)
(* of a file was written, and the run answers only with whole files that   *)
(* the server named.                                                       *)
THEOREM ImagesAreAlwaysTrue == CollaborationSpec => []ImagesAreTrue
<1>1. CollaborationInit => AttInv /\ RunnerInv
  BY AttachmentsBegin, RunnerBegins DEF CollaborationInit
<1>2. /\ AttInv /\ RunnerInv
      /\ [CollaborationNext]_collaborationVars
      => (AttInv /\ RunnerInv)'
  <2> SUFFICES ASSUME AttInv, RunnerInv,
                      [CollaborationNext]_collaborationVars
               PROVE  AttInv' /\ RunnerInv'
    OBVIOUS
  <2>1. [AttachmentNext]_attVars /\ [ImageRunnerNext]_runnerVars
    BY Zenon DEF CollaborationNext, OnlyStep, collaborationVars
  <2> QED BY <2>1, AttachmentStep, RunnerStep
<1>3. AttInv /\ RunnerInv => ImagesAreTrue
  BY DEF AttInv, RunnerInv, ReceiptsAreTrue, RecordsAreTrue, Written, ImagesAreTrue, ImageClaimsAreTrue
<1> QED BY <1>1, <1>2, <1>3, PTL DEF CollaborationSpec
-----------------------------------------------------------------------------
(* The Passport of a peer                                                  *)

OutFields == {"linked", "knows", "pending", "sent", "retry", "aged", "forced", "flight", "lease", "leaseAt",
              "checked", "seen"}
InFields == {"linked", "copy", "store", "heard", "ask"}
HeldFields == {"content", "gen", "lease"}
AskFields == {"n", "reason", "fresh"}
PassTimes == [clock : Nat, tick : Nat, asks : Nat, faults : Nat, calm : Nat]

PassTypes ==
  /\ passContent \in Contents
  /\ passOut = [f \in OutFields |-> passOut[f]]
  /\ passIn = [f \in InFields |-> passIn[f]]
  /\ passIn.copy = [f \in HeldFields |-> passIn.copy[f]]
  /\ passIn.store = [f \in HeldFields |-> passIn.store[f]]
  /\ passIn.ask = [f \in AskFields |-> passIn.ask[f]]
  /\ passTime \in PassTimes
  /\ \A o \in passObs : o.sig # 0

(* Nothing is dated after the owner's clock, no request is numbered after  *)
(* the last one, and the owner says nothing before it knows the peer.      *)
PassBounds ==
  /\ passOut.leaseAt \in 0 .. passTime.clock
  /\ passIn.heard \in 0 .. passTime.clock
  /\ passIn.copy.gen \in 0 .. passTime.clock
  /\ passIn.store.gen \in 0 .. passTime.clock
  /\ \A m \in passNet : m.at \in 0 .. passTime.clock
  /\ passOut.seen \in 0 .. passTime.asks
  /\ passIn.ask.n \in 0 .. passTime.asks
  /\ passOut.lease # 0 \/ passOut.seen # 0 => passOut.knows

Linked == passOut.linked /\ passIn.linked
HasIt == passIn.copy.content = passContent

(* Something is still to be done before the interval can be over.          *)
Outstanding ==
  \/ ~passOut.checked \/ passOut.lease = 0 \/ passIn.heard < passOut.leaseAt
  \/ passIn.ask.n \notin {0, passOut.seen} \/ passOut.forced \/ passNet # {}

(* Since the last fault an interval has ended in which everything was      *)
(* done.  From then on the mail carries the Passport of now, the lease of  *)
(* a check names it, and what is settled - a delivery under way, a request *)
(* that was seen, an old message - is settled by the content itself.       *)
CalmMail ==
  /\ \A m \in passNet : m.content = passContent
  /\ passOut.checked => passOut.lease \in {0, passContent}

CalmLink ==
  /\ passOut.flight # 0 => passNet # {} \/ HasIt
  /\ passIn.ask.n # 0 /\ passIn.ask.fresh /\ passIn.ask.n = passOut.seen => passOut.forced \/ passNet # {} \/ HasIt
  /\ \A m \in passNet : m.at < passIn.copy.gen => HasIt
  /\ Outstanding \/ HasIt
  /\ passTime.calm > 1 => HasIt

Calm == CalmMail /\ (Linked => CalmLink)

PassInv == PassTypes /\ PassBounds /\ (passTime.calm > 0 => Calm)

(* At first nothing is known, sent or held.                                *)
LEMMA PassportBegins == PassportInit => PassInv
<1> SUFFICES ASSUME PassportInit PROVE PassInv
  OBVIOUS
<1>1. PassTypes
  BY DEF PassportInit, PassTypes, Started, NoCopy, OutFields, InFields, HeldFields, AskFields, PassTimes
<1>2. PassBounds
  BY DEF PassportInit, PassBounds, Started, NoCopy, HeldFields
<1> QED BY <1>1, <1>2 DEF PassportInit, PassInv

(* A fault only has to keep the bounds: the calm is over.                  *)
LEMMA FaultsKeepPassport ==
  ASSUME PassInv, PassTypes', PassBounds', passTime'.calm = 0
  PROVE  PassInv'
BY DEF PassInv

(* A fault ends the calm, and the clock goes on by one.                    *)
LEMMA TimeRecord ==
  ASSUME NEW t \in PassTimes
  PROVE  /\ Faulty(t) \in PassTimes /\ Faulty(t).calm = 0 /\ Faulty(t).clock = t.clock /\ Faulty(t).asks = t.asks
         /\ Clocked(t) \in PassTimes /\ Clocked(t).calm = t.calm /\ Clocked(t).clock = t.clock + 1
         /\ Clocked(t).asks = t.asks
<1>1. /\ t = [clock |-> t.clock, tick |-> t.tick, asks |-> t.asks, faults |-> t.faults, calm |-> t.calm]
      /\ t.clock \in Nat /\ t.tick \in Nat /\ t.asks \in Nat /\ t.faults \in Nat /\ t.calm \in Nat
      /\ t.faults + 1 \in Nat /\ t.clock + 1 \in Nat
  BY DEF PassTimes
<1>2. Faulty(t) = [clock |-> t.clock, tick |-> t.tick, asks |-> t.asks, faults |-> t.faults + 1, calm |-> 0]
  <2>1. Faulty(t) = [[t EXCEPT !.faults = t.faults + 1] EXCEPT !.calm = 0]
    BY <1>1 DEF Faulty
  <2>2. PICK more \in Nat : more = t.faults + 1
    BY <1>1
  <2>3. [t EXCEPT !.faults = more] =
          [clock |-> t.clock, tick |-> t.tick, asks |-> t.asks, faults |-> more, calm |-> t.calm]
    BY <1>1
  <2> QED BY <2>1, <2>2, <2>3
<1>3. PICK later \in Nat : later = t.clock + 1
  BY <1>1
<1>4. Clocked(t) = [t EXCEPT !.clock = later]
  BY <1>3 DEF Clocked
<1>5. Clocked(t) = [clock |-> later, tick |-> t.tick, asks |-> t.asks, faults |-> t.faults, calm |-> t.calm]
  BY <1>1, <1>4
<1> QED BY <1>1, <1>2, <1>3, <1>5 DEF PassTimes

(* A fault that also asks.                                                 *)
LEMMA TimeAsked ==
  ASSUME NEW t \in PassTimes, NEW u, u = [Faulty(t) EXCEPT !.asks = @ + 1]
  PROVE  u \in PassTimes /\ u.calm = 0 /\ u.clock = t.clock /\ u.asks = t.asks + 1
<1>1. Faulty(t) \in PassTimes /\ Faulty(t).calm = 0 /\ Faulty(t).clock = t.clock /\ Faulty(t).asks = t.asks
  BY TimeRecord
<1>2. PICK next \in Nat : next = t.asks + 1
  BY DEF PassTimes
<1>3. u = [Faulty(t) EXCEPT !.asks = next]
  BY <1>1, <1>2
<1> HIDE DEF Faulty
<1> QED BY <1>1, <1>2, <1>3 DEF PassTimes

(* A check of the owner: it renews the lease, or sends.                    *)
LEMMA ChecksKeepPassport ==
  ASSUME PassInv, NEW forceAll \in BOOLEAN, NEW due \in BOOLEAN, broadcastAiStatus(forceAll, due)
  PROVE  PassInv'
<1>0. PassTypes /\ PassBounds /\ passTime \in PassTimes /\ passTime.clock \in Nat /\ passTime.asks \in Nat
      /\ passTime.calm \in Nat /\ passContent # 0
  BY DEF PassInv, PassTypes, PassTimes, Contents
<1>1. CASE NotYet(forceAll)
  <2>1. /\ UNCHANGED <<passContent, passIn, passNet, passObs>> /\ ~passOut.knows /\ passTime' = Clocked(passTime)
    BY <1>1 DEF NotYet, Note
  <2>2. /\ passOut' = [f \in OutFields |-> passOut'[f]] /\ passOut'.linked = passOut.linked
        /\ passOut'.knows = passOut.knows /\ passOut'.lease = passOut.lease /\ passOut'.leaseAt = passOut.leaseAt
        /\ passOut'.seen = passOut.seen /\ passOut'.flight = passOut.flight
    BY <1>0, <1>1 DEF NotYet, Forgetting, PassTypes, OutFields
  <2>3. PassTypes' /\ PassBounds'
    BY <1>0, <2>1, <2>2, TimeRecord DEF PassTypes, PassBounds
  <2>4. passOut.lease = 0 /\ passOut.seen = 0
    BY <1>0, <2>1 DEF PassBounds
  <2>5. ASSUME passTime'.calm > 0 PROVE Calm'
    <3>1. Calm
      BY <1>0, <2>1, <2>5, TimeRecord DEF PassInv
    <3>2. CalmMail'
      BY <2>1, <2>2, <2>4, <3>1 DEF Calm, CalmMail
    <3>3. ASSUME Linked' PROVE CalmLink'
      BY <1>0, <2>1, <2>2, <2>4, <3>1, <3>3, TimeRecord DEF Calm, CalmLink, Linked, HasIt, Outstanding
    <3> QED BY <3>2, <3>3 DEF Calm
  <2> QED BY <2>3, <2>5 DEF PassInv
<1>2. CASE LeaseOnly(forceAll, due)
  <2>1. /\ UNCHANGED <<passContent, passIn, passNet, passObs>> /\ passOut.knows /\ passTime' = Clocked(passTime)
    BY <1>2 DEF LeaseOnly, Note
  <2>2. PICK forced : /\ passOut' = Forgetting(Leased(forced), forceAll)
                      /\ passOut.forced => passOut.flight # 0
    BY <1>2 DEF LeaseOnly, ToBeSent
  <2>3. /\ passOut' = [f \in OutFields |-> passOut'[f]] /\ passOut'.linked = passOut.linked
        /\ passOut'.knows = passOut.knows /\ passOut'.lease = passContent /\ passOut'.leaseAt = passTime.clock + 1
        /\ passOut'.seen = passOut.seen /\ passOut'.flight = passOut.flight
    BY <1>0, <2>2 DEF Forgetting, Leased, PassTypes, OutFields
  <2>4. PassTypes' /\ PassBounds'
    BY <1>0, <2>1, <2>3, TimeRecord DEF PassTypes, PassBounds
  <2>5. ASSUME passTime'.calm > 0 PROVE Calm'
    <3>1. Calm
      BY <1>0, <2>1, <2>5, TimeRecord DEF PassInv
    <3>2. CalmMail'
      BY <2>1, <2>3, <3>1 DEF Calm, CalmMail
    <3>3. ASSUME Linked' PROVE CalmLink'
      <4>1. CalmLink
        BY <2>1, <2>3, <3>1, <3>3 DEF Calm, Linked
      <4>2. passIn.heard < passTime.clock + 1
        BY <1>0 DEF PassBounds
      <4>3. passOut.forced => passNet # {} \/ HasIt
        BY <2>2, <4>1 DEF CalmLink
      <4> QED BY <1>0, <2>1, <2>3, <4>1, <4>2, <4>3, TimeRecord DEF CalmLink, HasIt, Outstanding
    <3> QED BY <3>2, <3>3 DEF Calm
  <2> QED BY <2>4, <2>5 DEF PassInv
<1>3. CASE SendPassportStatus(forceAll, due)
  <2>1. UNCHANGED <<passContent, passIn>> /\ passOut.knows
    BY <1>3 DEF SendPassportStatus
  <2> DEFINE m == [content |-> passContent, at |-> passTime.clock + 1]
             o == [sig |-> passContent, gen |-> passTime.clock + 1]
  <2>2. CASE /\ passNet' = passNet \cup {m} /\ passObs' = passObs \cup {o} /\ passTime' = Clocked(passTime)
             /\ passOut' = Forgetting([Leased(FALSE) EXCEPT !.flight = passContent], forceAll)
    <3>1. /\ passOut' = [f \in OutFields |-> passOut'[f]] /\ passOut'.linked = passOut.linked
          /\ passOut'.knows = passOut.knows /\ passOut'.lease = passContent /\ passOut'.leaseAt = passTime.clock + 1
          /\ passOut'.seen = passOut.seen
      BY <1>0, <2>2 DEF Forgetting, Leased, PassTypes, OutFields
    <3>2. m.content = passContent /\ m.at = passTime.clock + 1 /\ o.sig = passContent
      OBVIOUS
    <3> HIDE DEF m, o
    <3>3. PassTypes' /\ PassBounds'
      BY <1>0, <2>1, <2>2, <3>1, <3>2, TimeRecord DEF PassTypes, PassBounds
    <3>4. ASSUME passTime'.calm > 0 PROVE Calm'
      <4>1. Calm
        BY <1>0, <2>2, <3>4, TimeRecord DEF PassInv
      <4>2. CalmMail'
        BY <2>1, <2>2, <3>1, <3>2, <4>1 DEF Calm, CalmMail
      <4>3. ASSUME Linked' PROVE CalmLink'
        <5>1. CalmLink
          BY <2>1, <3>1, <4>1, <4>3 DEF Calm, Linked
        <5>2. ~(m.at < passIn.copy.gen)
          BY <1>0, <3>2 DEF PassBounds
        <5> QED BY <1>0, <2>1, <2>2, <5>1, <5>2, TimeRecord DEF CalmLink, HasIt, Outstanding
      <4> QED BY <4>2, <4>3 DEF Calm
    <3> QED BY <3>3, <3>4 DEF PassInv
  <2>3. CASE /\ passOut' = Forgetting(recordAiStatusDeliveryFailure(Leased(FALSE), passContent), forceAll)
             /\ passTime' = Faulty(Clocked(passTime)) /\ UNCHANGED <<passNet, passObs>>
    <3>1. /\ passOut' = [f \in OutFields |-> passOut'[f]] /\ passOut'.knows = passOut.knows
          /\ passOut'.leaseAt = passTime.clock + 1 /\ passOut'.seen = passOut.seen
      BY <1>0, <2>3 DEF Forgetting, recordAiStatusDeliveryFailure, Leased, PassTypes, OutFields
    <3>2. /\ passTime' \in PassTimes /\ passTime'.calm = 0 /\ passTime'.clock = passTime.clock + 1
          /\ passTime'.asks = passTime.asks /\ UNCHANGED <<passNet, passObs>>
      BY <1>0, <2>3, TimeRecord
    <3>3. PassTypes'
      BY <1>0, <2>1, <3>1, <3>2 DEF PassTypes
    <3>4. PassBounds'
      BY <1>0, <2>1, <3>1, <3>2 DEF PassBounds
    <3> QED BY <3>2, <3>3, <3>4, FaultsKeepPassport
  <2> QED BY <1>3, <2>2, <2>3 DEF SendPassportStatus, Note
<1> QED BY <1>1, <1>2, <1>3 DEF broadcastAiStatus

(* Broadcasts, what is observed of a delivery, and a heartbeat of the peer:*)
(* a request that is seen forces the next check, and an outcome settles    *)
(* the delivery it is about.                                               *)
LEMMA OwnerKeepsPassport ==
  ASSUME PassInv, Broadcast \/ AskHeartbeat \/ \E o \in passObs : DeliveryObserved(o)
  PROVE  PassInv'
<1>0. PassTypes /\ PassBounds /\ passTime \in PassTimes /\ passTime.clock \in Nat /\ passTime.asks \in Nat
      /\ passTime.calm \in Nat /\ passContent # 0
  BY DEF PassInv, PassTypes, PassTimes, Contents
<1>1. CASE Broadcast
  <2>1. CASE passOut.linked
    BY <1>1, <2>1, ChecksKeepPassport DEF Broadcast
  <2>2. CASE ~passOut.linked
    <3>1. /\ UNCHANGED <<passContent, passIn, passNet, passObs, passTime>>
          /\ passOut' = [passOut EXCEPT !.pending = FALSE]
      BY <1>1, <2>2 DEF Broadcast
    <3>2. /\ passOut' = [f \in OutFields |-> passOut'[f]]
          /\ \A f \in OutFields \ {"pending"} : passOut'[f] = passOut[f]
      BY <1>0, <3>1 DEF PassTypes, OutFields
    <3>3. /\ passOut'.linked = passOut.linked /\ passOut'.knows = passOut.knows /\ passOut'.seen = passOut.seen
          /\ passOut'.lease = passOut.lease /\ passOut'.leaseAt = passOut.leaseAt /\ passOut'.checked = passOut.checked
      BY <3>2 DEF OutFields
    <3>4. PassTypes' /\ PassBounds'
      BY <1>0, <3>1, <3>2, <3>3 DEF PassTypes, PassBounds
    <3>5. passTime'.calm > 0 => Calm'
      BY <2>2, <3>1, <3>3 DEF PassInv, Calm, CalmMail, Linked
    <3> QED BY <3>4, <3>5 DEF PassInv
  <2> QED BY <2>1, <2>2
<1>2. CASE AskHeartbeat
  <2> DEFINE n == passIn.ask.n
             forced == passOut.forced \/ ~passOut.knows \/ n \notin {0, passOut.seen}
             seen == IF n # 0 THEN n ELSE passOut.seen
  <2>1. /\ UNCHANGED <<passContent, passIn, passNet, passObs, passTime>>
        /\ passOut' = [passOut EXCEPT !.knows = TRUE, !.seen = seen, !.forced = forced]
    BY <1>2 DEF AskHeartbeat
  <2>2. /\ passOut' = [f \in OutFields |-> passOut'[f]]
        /\ passOut'.linked = passOut.linked /\ passOut'.knows = TRUE /\ passOut'.seen = seen
        /\ passOut'.lease = passOut.lease /\ passOut'.leaseAt = passOut.leaseAt /\ passOut'.checked = passOut.checked
        /\ passOut'.flight = passOut.flight /\ passOut'.forced = forced
    <3> HIDE DEF n, forced, seen
    <3> QED BY <1>0, <2>1 DEF PassTypes, OutFields
  <2>3. seen \in 0 .. passTime.asks
    BY <1>0 DEF PassBounds
  <2>4. PassTypes' /\ PassBounds'
    <3> HIDE DEF n, forced, seen
    <3> QED BY <1>0, <2>1, <2>2, <2>3 DEF PassTypes, PassBounds
  <2>5. ASSUME passTime'.calm > 0 PROVE Calm'
    <3>1. Calm
      BY <2>1, <2>5 DEF PassInv
    <3>2. CalmMail'
      BY <2>1, <2>2, <3>1 DEF Calm, CalmMail
    <3>3. ASSUME Linked' PROVE CalmLink'
      <4>1. CalmLink
        BY <2>1, <2>2, <3>1, <3>3 DEF Calm, Linked
      <4>2. passIn.ask.n # 0 /\ passIn.ask.n = passOut'.seen => passIn.ask.n = passOut.seen \/ passOut'.forced
        BY <2>2
      <4>3. Outstanding => Outstanding'
        BY <2>1, <2>2 DEF Outstanding
      <4>4. passOut.forced => passOut'.forced
        BY <2>2
      <4> HIDE DEF n, forced, seen
      <4> QED BY <2>1, <2>2, <4>1, <4>2, <4>3, <4>4 DEF CalmLink, HasIt
    <3> QED BY <3>2, <3>3 DEF Calm
  <2> QED BY <2>4, <2>5 DEF PassInv
<1>3. ASSUME NEW o \in passObs, DeliveryObserved(o)
      PROVE  PassInv'
  <2>1. UNCHANGED <<passContent, passIn, passNet>> /\ passObs' \subseteq passObs /\ o.sig # 0
    BY <1>0, <1>3 DEF DeliveryObserved, PassTypes
  <2>2. CASE passOut' = recordAiStatusDeliverySuccess(passOut, o.sig) /\ UNCHANGED passTime
    <3>1. CASE passOut.flight # o.sig
      <4>1. UNCHANGED <<passContent, passOut, passIn, passNet, passTime>>
        BY <2>1, <2>2, <3>1 DEF recordAiStatusDeliverySuccess
      <4> QED BY <2>1, <4>1 DEF PassInv, PassTypes, PassBounds, Calm, CalmMail, CalmLink, Linked, HasIt, Outstanding
    <3>2. CASE passOut.flight = o.sig
      <4>1. /\ passOut' = [passOut EXCEPT !.sent = o.sig, !.retry = 0, !.forced = FALSE, !.flight = 0]
            /\ UNCHANGED passTime
        BY <2>2, <3>2 DEF recordAiStatusDeliverySuccess
      <4>2. /\ passOut' = [f \in OutFields |-> passOut'[f]]
            /\ passOut'.linked = passOut.linked /\ passOut'.knows = passOut.knows /\ passOut'.seen = passOut.seen
            /\ passOut'.lease = passOut.lease /\ passOut'.leaseAt = passOut.leaseAt
            /\ passOut'.checked = passOut.checked /\ passOut'.flight = 0
        BY <1>0, <4>1 DEF PassTypes, OutFields
      <4>3. PassTypes' /\ PassBounds'
        BY <1>0, <2>1, <4>1, <4>2 DEF PassTypes, PassBounds
      <4>4. ASSUME passTime'.calm > 0 PROVE Calm'
        <5>1. Calm
          BY <4>1, <4>4 DEF PassInv
        <5>2. CalmMail'
          BY <2>1, <4>2, <5>1 DEF Calm, CalmMail
        <5>3. ASSUME Linked' PROVE CalmLink'
          <6>1. CalmLink
            BY <2>1, <4>2, <5>1, <5>3 DEF Calm, Linked
          <6>2. passNet # {} \/ HasIt
            BY <2>1, <3>2, <6>1 DEF CalmLink
          <6> QED BY <2>1, <4>1, <4>2, <6>1, <6>2 DEF CalmLink, HasIt, Outstanding
        <5> QED BY <5>2, <5>3 DEF Calm
      <4> QED BY <4>3, <4>4 DEF PassInv
    <3> QED BY <3>1, <3>2
  <2>3. CASE /\ passTime' = Faulty(passTime)
             /\ passOut' = IF passOut.flight # o.sig THEN passOut
                           ELSE [recordAiStatusDeliveryFailure(passOut, o.sig) EXCEPT !.flight = 0]
    <3>1. /\ passOut' = [f \in OutFields |-> passOut'[f]] /\ passOut'.knows = passOut.knows
          /\ passOut'.seen = passOut.seen /\ passOut'.lease = passOut.lease /\ passOut'.leaseAt = passOut.leaseAt
      BY <1>0, <2>3 DEF PassTypes, OutFields, recordAiStatusDeliveryFailure
    <3>2. /\ passTime' \in PassTimes /\ passTime'.calm = 0 /\ passTime'.clock = passTime.clock
          /\ passTime'.asks = passTime.asks
      BY <1>0, <2>3, TimeRecord
    <3>3. PassTypes'
      BY <1>0, <2>1, <3>1, <3>2 DEF PassTypes
    <3>4. PassBounds'
      BY <1>0, <2>1, <3>1, <3>2 DEF PassBounds
    <3> QED BY <3>2, <3>3, <3>4, FaultsKeepPassport
  <2> QED BY <1>3, <2>2, <2>3 DEF DeliveryObserved, Note
<1> QED BY <1>1, <1>2, <1>3

(* A request: a fresh one for the same reason is kept, any other gets a    *)
(* number the owner has not seen.                                          *)
LEMMA RequestIsNew ==
  ASSUME PassTypes, PassBounds, NEW in, in = [f \in InFields |-> in[f]], in.ask = passIn.ask, NEW reason, reason # "none",
         Asked(in, reason)
  PROVE  /\ passTime' \in PassTimes /\ passTime'.clock = passTime.clock /\ passTime'.calm = passTime.calm
         /\ passIn' = [f \in InFields |-> passIn'[f]] /\ \A f \in InFields \ {"ask"} : passIn'[f] = in[f]
         /\ passIn'.ask = [f \in AskFields |-> passIn'.ask[f]]
         /\ \/ passIn'.ask = passIn.ask /\ passIn.ask.n # 0 /\ passIn.ask.fresh /\ passTime'.asks = passTime.asks
            \/ passIn'.ask.n = passTime.asks + 1 /\ passTime'.asks = passTime.asks + 1
<1>1. passTime \in PassTimes /\ passTime.asks \in Nat /\ passIn.ask.n \in 0 .. passTime.asks
  BY DEF PassTypes, PassTimes, PassBounds
<1>2. CASE in.ask.n = 0 \/ in.ask.reason # reason \/ ~in.ask.fresh
  <2> DEFINE ask == [n |-> passTime.asks + 1, reason |-> reason, fresh |-> TRUE]
  <2>1. passIn' = [in EXCEPT !.ask = ask]
    BY <1>2 DEF Asked, queuePassportRefreshRequest
  <2>2. ask.n = passTime.asks + 1 /\ ask = [f \in AskFields |-> ask[f]]
    BY DEF AskFields
  <2> HIDE DEF ask
  <2>3. /\ passIn' = [f \in InFields |-> passIn'[f]] /\ \A f \in InFields \ {"ask"} : passIn'[f] = in[f]
        /\ passIn'.ask = ask
    BY <2>1 DEF InFields
  <2>4. passIn'.ask # in.ask
    BY <1>1, <2>2, <2>3
  <2>5. PICK next \in Nat : next = passTime.asks + 1
    BY <1>1
  <2>6. passTime' = [passTime EXCEPT !.asks = next]
    BY <2>4, <2>5 DEF Asked
  <2>7. passTime' \in PassTimes /\ passTime'.clock = passTime.clock /\ passTime'.calm = passTime.calm
        /\ passTime'.asks = next
    BY <1>1, <2>6 DEF PassTimes
  <2> QED BY <2>2, <2>3, <2>5, <2>7
<1>3. CASE ~(in.ask.n = 0 \/ in.ask.reason # reason \/ ~in.ask.fresh)
  <2>1. passIn' = in
    BY <1>3 DEF Asked, queuePassportRefreshRequest
  <2>2. passTime' = [passTime EXCEPT !.asks = @]
    BY <2>1 DEF Asked
  <2>3. passTime' = passTime
    BY <1>1, <2>2 DEF PassTimes
  <2> QED BY <1>1, <1>3, <2>1, <2>3 DEF PassTypes
<1> QED BY <1>2, <1>3

(* The peer: what a lease tells it makes it ask or renews what it has, and *)
(* what it takes is the Passport of now once the calm has begun.           *)
LEMMA PeerKeepsPassport ==
  ASSUME PassInv,
         LeaseHeartbeat \/ \E msg \in passNet, lost, again \in BOOLEAN : ReceiveStatus(msg, lost, again)
  PROVE  PassInv'
<1>0. PassTypes /\ PassBounds /\ passTime \in PassTimes /\ passTime.clock \in Nat /\ passTime.asks \in Nat
      /\ passTime.calm \in Nat /\ passContent # 0
  BY DEF PassInv, PassTypes, PassTimes, Contents
<1>1. CASE LeaseHeartbeat
  <2> DEFINE heard == [passIn EXCEPT !.heard = passOut.leaseAt]
             renewed == [passIn.copy EXCEPT !.lease = passOut.leaseAt]
  <2>1. UNCHANGED <<passContent, passOut, passNet, passObs>> /\ Linked
    BY <1>1 DEF LeaseHeartbeat, Linked
  <2>2. /\ heard = [f \in InFields |-> heard[f]] /\ heard.ask = passIn.ask /\ heard.copy = passIn.copy
        /\ heard.store = passIn.store /\ heard.linked = passIn.linked /\ heard.heard = passOut.leaseAt
    BY <1>0 DEF PassTypes, InFields
  <2>3. /\ renewed = [f \in HeldFields |-> renewed[f]] /\ renewed.content = passIn.copy.content
        /\ renewed.gen = passIn.copy.gen
    BY <1>0 DEF PassTypes, HeldFields
  <2>4. \/ \E reason \in {"snapshot_missing", "snapshot_mismatch"} : Asked(heard, reason)
        \/ /\ passIn.copy.content # 0 /\ passIn.copy.content = passOut.lease /\ UNCHANGED passTime
           /\ \/ passIn' = heard
              \/ passIn' = [heard EXCEPT !.copy = renewed, !.store = renewed]
    BY <1>1 DEF LeaseHeartbeat
  <2> HIDE DEF heard, renewed
  <2>5. ASSUME NEW reason \in {"snapshot_missing", "snapshot_mismatch"}, Asked(heard, reason)
        PROVE  PassInv'
    <3>1. /\ passTime' \in PassTimes /\ passTime'.clock = passTime.clock /\ passTime'.calm = passTime.calm
          /\ passIn' = [f \in InFields |-> passIn'[f]] /\ \A f \in InFields \ {"ask"} : passIn'[f] = heard[f]
          /\ passIn'.ask = [f \in AskFields |-> passIn'.ask[f]]
          /\ \/ passIn'.ask = passIn.ask /\ passIn.ask.n # 0 /\ passIn.ask.fresh /\ passTime'.asks = passTime.asks
             \/ passIn'.ask.n = passTime.asks + 1 /\ passTime'.asks = passTime.asks + 1
      BY <1>0, <2>2, <2>5, RequestIsNew
    <3>2. /\ passIn'.copy = passIn.copy /\ passIn'.store = passIn.store /\ passIn'.linked = passIn.linked
          /\ passIn'.heard = passOut.leaseAt
      BY <2>2, <3>1 DEF InFields
    <3>3. PassTypes'
      BY <1>0, <2>1, <3>1, <3>2 DEF PassTypes
    <3>4. PassBounds'
      BY <1>0, <2>1, <3>1, <3>2 DEF PassBounds
    <3>5. ASSUME passTime'.calm > 0 PROVE Calm'
      <4>1. Calm
        BY <3>1, <3>5 DEF PassInv
      <4>2. CalmMail'
        BY <2>1, <4>1 DEF Calm, CalmMail
      <4>3. CalmLink
        BY <2>1, <4>1 DEF Calm
      <4>4. passOut.seen < passTime.asks + 1 /\ passTime.asks + 1 # 0 /\ passOut.seen \in Nat
        BY <1>0 DEF PassBounds
      <4>5. Outstanding' \/ HasIt
        BY <2>1, <3>1, <4>3, <4>4 DEF CalmLink, Outstanding
      <4>6. CalmLink'
        BY <2>1, <3>1, <3>2, <4>3, <4>4, <4>5 DEF CalmLink, HasIt
      <4> QED BY <4>2, <4>6 DEF Calm
    <3> QED BY <3>3, <3>4, <3>5 DEF PassInv
  <2>6. ASSUME passIn.copy.content # 0, passIn.copy.content = passOut.lease, UNCHANGED passTime,
               \/ passIn' = heard
               \/ passIn' = [heard EXCEPT !.copy = renewed, !.store = renewed]
        PROVE  PassInv'
    <3>1. /\ passIn' = [f \in InFields |-> passIn'[f]] /\ passIn'.linked = passIn.linked
          /\ passIn'.heard = passOut.leaseAt /\ passIn'.ask = passIn.ask
          /\ \/ passIn'.copy = passIn.copy /\ passIn'.store = passIn.store
             \/ passIn'.copy = renewed /\ passIn'.store = renewed
      BY <2>2, <2>6 DEF InFields
    <3>2. passIn'.copy.content = passIn.copy.content /\ passIn'.copy.gen = passIn.copy.gen
      BY <2>3, <3>1
    <3>3. PassTypes'
      BY <1>0, <2>1, <2>3, <2>6, <3>1 DEF PassTypes
    <3>4. PassBounds'
      BY <1>0, <2>1, <2>3, <2>6, <3>1 DEF PassBounds
    <3>5. ASSUME passTime'.calm > 0 PROVE Calm'
      <4>1. CalmMail /\ CalmLink
        BY <2>1, <2>6, <3>5 DEF PassInv, Calm
      <4>2. CalmMail'
        BY <2>1, <4>1 DEF CalmMail
      <4>3. ~passOut.checked \/ HasIt
        BY <2>6, <4>1 DEF CalmMail, HasIt
      <4>4. CalmLink'
        BY <2>1, <2>6, <3>1, <3>2, <4>1, <4>3 DEF CalmLink, HasIt, Outstanding
      <4> QED BY <4>2, <4>4 DEF Calm
    <3> QED BY <3>3, <3>4, <3>5 DEF PassInv
  <2> QED BY <2>4, <2>5, <2>6
<1>2. ASSUME NEW msg \in passNet, NEW lost \in BOOLEAN, NEW again \in BOOLEAN, ReceiveStatus(msg, lost, again)
      PROVE  PassInv'
  <2> DEFINE copy == [content |-> msg.content, gen |-> msg.at, lease |-> msg.at]
             taken == [passIn EXCEPT !.copy = copy, !.ask = NoAsk, !.store = IF lost THEN @ ELSE copy]
             replaces == passIn.linked /\ msg.at >= passIn.copy.gen
  <2>1. /\ UNCHANGED <<passContent, passOut, passObs>> /\ passNet' \subseteq passNet
        /\ passIn' = IF replaces THEN taken ELSE passIn
        /\ passTime' = Faulty(passTime) \/ passTime' = passTime
    BY <1>2 DEF ReceiveStatus, shouldReplaceRemoteAiStatus, Note
  <2>2. copy = [f \in HeldFields |-> copy[f]] /\ copy.content = msg.content /\ copy.gen = msg.at
    BY DEF HeldFields
  <2>3. NoAsk = [f \in AskFields |-> NoAsk[f]] /\ NoAsk.n = 0
    BY DEF NoAsk, AskFields
  <2> HIDE DEF copy
  <2>4. /\ taken = [f \in InFields |-> taken[f]] /\ taken.linked = passIn.linked /\ taken.heard = passIn.heard
        /\ taken.copy = copy /\ taken.ask = NoAsk /\ taken.store \in {passIn.store, copy}
    BY <1>0 DEF PassTypes, InFields
  <2> HIDE DEF taken
  <2>5. /\ passTime' \in PassTimes /\ passTime'.clock = passTime.clock /\ passTime'.asks = passTime.asks
        /\ passTime'.calm = 0 \/ passTime' = passTime
    BY <1>0, <2>1, TimeRecord
  <2>6. PassTypes'
    BY <1>0, <2>1, <2>2, <2>3, <2>4, <2>5 DEF PassTypes
  <2>7. PassBounds'
    BY <1>0, <2>1, <2>2, <2>3, <2>4, <2>5 DEF PassBounds
  <2>8. ASSUME passTime'.calm > 0 PROVE Calm'
    <3>1. Calm /\ UNCHANGED passTime
      BY <2>5, <2>8 DEF PassInv
    <3>2. CalmMail'
      BY <2>1, <3>1 DEF Calm, CalmMail
    <3>3. ASSUME Linked' PROVE CalmLink'
      <4>1. Linked
        BY <2>1, <2>4, <3>3 DEF Linked
      <4>2. HasIt'
        <5>1. CASE replaces
          BY <2>1, <2>2, <2>4, <3>1, <5>1 DEF HasIt, Calm, CalmMail
        <5>2. CASE ~replaces
          <6>1. msg.at < passIn.copy.gen
            BY <1>0, <4>1, <5>2 DEF PassBounds, Linked
          <6> QED BY <2>1, <3>1, <4>1, <5>2, <6>1 DEF Calm, CalmLink, HasIt
        <5> QED BY <5>1, <5>2
      <4> QED BY <4>2 DEF CalmLink
    <3> QED BY <3>2, <3>3 DEF Calm
  <2> QED BY <2>6, <2>7, <2>8 DEF PassInv
<1> QED BY <1>1, <1>2

(* Losses, restarts, changes, new links and what the user asks for.        *)
LEMMA DisturbancesKeepPassport ==
  ASSUME PassInv,
         \/ AskManually \/ OwnerRestarts \/ PeerRestarts \/ OwnerRelinks \/ PeerRelinks
         \/ \E c \in Contents, policy \in BOOLEAN : ContentChanges(c, policy)
         \/ \E msg \in passNet : Lose(msg)
  PROVE  PassInv'
<1>0. PassTypes /\ PassBounds /\ passTime \in PassTimes /\ passTime.clock \in Nat /\ passTime.asks \in Nat
  BY DEF PassInv, PassTypes, PassTimes
<1>1. CASE \/ \E c \in Contents, policy \in BOOLEAN : ContentChanges(c, policy)
           \/ OwnerRestarts \/ OwnerRelinks \/ \E msg \in passNet : Lose(msg)
  <2>1. /\ UNCHANGED passIn /\ passContent' \in Contents /\ passNet' \subseteq passNet /\ passObs' \subseteq passObs
        /\ passTime' = Faulty(passTime)
    BY <1>0, <1>1 DEF ContentChanges, OwnerRestarts, OwnerRelinks, Lose, Note, PassTypes
  <2>2. /\ passOut' = [f \in OutFields |-> passOut'[f]]
        /\ passOut'.knows = passOut.knows
        /\ passOut'.leaseAt \in {0, passOut.leaseAt} /\ passOut'.seen \in {0, passOut.seen}
        /\ passOut'.lease \in {0, passOut.lease}
    <3>1. CASE \E c \in Contents, policy \in BOOLEAN : ContentChanges(c, policy)
      BY <1>0, <3>1 DEF ContentChanges, PassTypes, OutFields
    <3>2. CASE OwnerRestarts
      BY <3>2 DEF OwnerRestarts, Started, OutFields
    <3>3. CASE OwnerRelinks
      BY <3>3 DEF OwnerRelinks, Started, OutFields
    <3>4. CASE \E msg \in passNet : Lose(msg)
      BY <1>0, <3>4 DEF Lose, PassTypes
    <3> QED BY <1>1, <3>1, <3>2, <3>3, <3>4
  <2>3. /\ passTime' \in PassTimes /\ passTime'.calm = 0 /\ passTime'.clock = passTime.clock
        /\ passTime'.asks = passTime.asks
    BY <1>0, <2>1, TimeRecord
  <2>4. PassTypes'
    BY <1>0, <2>1, <2>2, <2>3 DEF PassTypes
  <2>5. PassBounds'
    BY <1>0, <2>1, <2>2, <2>3 DEF PassBounds
  <2> QED BY <2>3, <2>4, <2>5, FaultsKeepPassport
<1>2. CASE AskManually \/ PeerRestarts \/ PeerRelinks
  <2>1. UNCHANGED <<passContent, passOut, passNet, passObs>> /\ passTime' = [Faulty(passTime) EXCEPT !.asks = @ + 1]
    BY <1>2 DEF AskManually, PeerRestarts, PeerRelinks, Note
  <2>2. /\ passTime' \in PassTimes /\ passTime'.calm = 0 /\ passTime'.clock = passTime.clock
        /\ passTime'.asks = passTime.asks + 1
    BY <1>0, <2>1, TimeAsked
  <2> DEFINE Ask(reason) == [n |-> passTime.asks + 1, reason |-> reason, fresh |-> TRUE]
  <2>3. \A reason : Ask(reason).n = passTime.asks + 1 /\ Ask(reason) = [f \in AskFields |-> Ask(reason)[f]]
    BY DEF AskFields
  <2>4. NoAsk.n = 0 /\ NoAsk = [f \in AskFields |-> NoAsk[f]]
    BY DEF NoAsk, AskFields
  <2>5. NoCopy.gen = 0 /\ NoCopy = [f \in HeldFields |-> NoCopy[f]]
    BY DEF NoCopy, HeldFields
  <2>6. /\ passIn' = [f \in InFields |-> passIn'[f]] /\ passIn'.heard = passIn.heard
        /\ passIn'.copy \in {passIn.copy, passIn.store, NoCopy} /\ passIn'.store \in {passIn.store, NoCopy}
        /\ passIn'.ask \in {passIn.ask, NoAsk} \/ \E reason : passIn'.ask = Ask(reason)
    <3>1. CASE AskManually
      <4>1. passIn' = passIn \/ passIn' = [passIn EXCEPT !.ask = Ask("manual")]
        BY <3>1 DEF AskManually, queuePassportRefreshRequest
      <4> HIDE DEF Ask
      <4> QED BY <1>0, <4>1 DEF PassTypes, InFields
    <3>2. CASE PeerRestarts
      <4>1. \/ passIn' = [passIn EXCEPT !.copy = passIn.store, !.ask = Ask("startup")]
            \/ passIn' = [passIn EXCEPT !.copy = NoCopy, !.store = NoCopy, !.ask = NoAsk]
        BY <3>2 DEF PeerRestarts
      <4> HIDE DEF Ask
      <4> QED BY <1>0, <4>1 DEF PassTypes, InFields
    <3>3. CASE PeerRelinks
      <4>1. PICK ask \in {NoAsk, Ask("connection_confirmed")} :
              passIn' = [linked |-> ~passIn.linked, copy |-> NoCopy, store |-> NoCopy, heard |-> passIn.heard,
                         ask |-> ask]
        BY <3>3 DEF PeerRelinks
      <4> HIDE DEF Ask
      <4> QED BY <4>1 DEF InFields
    <3> QED BY <1>2, <3>1, <3>2, <3>3
  <2> HIDE DEF Ask
  <2>7. PassTypes'
    BY <1>0, <2>1, <2>2, <2>3, <2>4, <2>5, <2>6 DEF PassTypes
  <2>8. PassBounds'
    BY <1>0, <2>1, <2>2, <2>3, <2>4, <2>5, <2>6 DEF PassBounds
  <2> QED BY <2>2, <2>7, <2>8, FaultsKeepPassport
<1> QED BY <1>1, <1>2

(* An interval ends: when everything was done in it, nothing is            *)
(* outstanding, so a calm that had begun has brought the content.          *)
LEMMA TicksKeepPassport ==
  ASSUME PassInv, Tick
  PROVE  PassInv'
<1>0. PassTypes /\ PassBounds /\ passTime \in PassTimes /\ passTime.calm \in Nat
  BY DEF PassInv, PassTypes, PassTimes
<1>1. /\ UNCHANGED <<passContent, passNet, passObs>>
      /\ passOut' = [passOut EXCEPT !.checked = FALSE, !.aged = passOut.retry # 0]
      /\ passIn' = [passIn EXCEPT !.ask.fresh = FALSE]
  BY DEF Tick
<1>2. PICK tick \in Nat, calm \in Nat : /\ passTime' = [passTime EXCEPT !.tick = tick, !.calm = calm]
                                        /\ calm = IF RoundIsOver THEN passTime.calm + 1 ELSE 0
  <2>1. passTime.tick + 1 \in Nat /\ passTime.calm + 1 \in Nat
    BY <1>0 DEF PassTimes
  <2> QED BY <2>1 DEF Tick
<1>3. /\ passTime' \in PassTimes /\ passTime'.clock = passTime.clock /\ passTime'.asks = passTime.asks
      /\ passTime'.calm = calm
  <2>1. passTime = [clock |-> passTime.clock, tick |-> passTime.tick, asks |-> passTime.asks,
                    faults |-> passTime.faults, calm |-> passTime.calm]
        /\ passTime.clock \in Nat /\ passTime.asks \in Nat /\ passTime.faults \in Nat
    BY <1>0 DEF PassTimes
  <2>2. passTime' = [clock |-> passTime.clock, tick |-> tick, asks |-> passTime.asks,
                     faults |-> passTime.faults, calm |-> calm]
    BY <1>2, <2>1
  <2> QED BY <2>1, <2>2 DEF PassTimes
<1>4. /\ passOut' = [f \in OutFields |-> passOut'[f]] /\ passOut'.linked = passOut.linked
      /\ passOut'.knows = passOut.knows /\ passOut'.seen = passOut.seen /\ passOut'.lease = passOut.lease
      /\ passOut'.leaseAt = passOut.leaseAt /\ passOut'.flight = passOut.flight /\ passOut'.checked = FALSE
  BY <1>0, <1>1 DEF PassTypes, OutFields
<1>5. /\ passIn' = [f \in InFields |-> passIn'[f]] /\ passIn'.linked = passIn.linked /\ passIn'.copy = passIn.copy
      /\ passIn'.store = passIn.store /\ passIn'.heard = passIn.heard
      /\ passIn'.ask = [f \in AskFields |-> passIn'.ask[f]] /\ passIn'.ask.n = passIn.ask.n
      /\ passIn'.ask.fresh = FALSE
  <2> DEFINE ask == [passIn.ask EXCEPT !.fresh = FALSE]
  <2>1. passIn' = [passIn EXCEPT !.ask = ask]
    BY <1>1
  <2>2. ask = [f \in AskFields |-> ask[f]] /\ ask.n = passIn.ask.n /\ ask.fresh = FALSE
    BY <1>0 DEF PassTypes, AskFields
  <2> HIDE DEF ask
  <2> QED BY <1>0, <2>1, <2>2 DEF PassTypes, InFields
<1>6. PassTypes'
  BY <1>0, <1>1, <1>3, <1>4, <1>5 DEF PassTypes
<1>7. PassBounds'
  BY <1>0, <1>1, <1>3, <1>4, <1>5 DEF PassBounds
<1>8. ASSUME passTime'.calm > 0 PROVE Calm'
  <2>1. RoundIsOver /\ calm = passTime.calm + 1
    BY <1>2, <1>3, <1>8
  <2>2. CalmMail'
    BY <1>1, <1>4, <2>1 DEF CalmMail, RoundIsOver
  <2>3. ASSUME Linked', passTime'.calm > 1 PROVE HasIt
    <3>1. CalmLink
      BY <1>0, <1>3, <1>4, <1>5, <2>1, <2>3 DEF PassInv, Calm, Linked
    <3>2. ~Outstanding
      BY <1>0, <2>1 DEF RoundIsOver, Outstanding, PassBounds
    <3> QED BY <3>1, <3>2 DEF CalmLink
  <2>4. Linked' => CalmLink'
    BY <1>1, <1>4, <1>5, <2>1, <2>3 DEF CalmLink, RoundIsOver, Outstanding, HasIt
  <2> QED BY <2>2, <2>4 DEF Calm
<1> QED BY <1>6, <1>7, <1>8 DEF PassInv

(* After two intervals in which everything was delivered and nothing       *)
(* failed, the peer has the Passport of now, whatever was lost, repeated,  *)
(* misreported or restarted before (broadcastAiStatus,                     *)
(* observeRemotePassportLease and queuePassportRefreshRequest of           *)
(* connections.ts).                                                        *)
THEOREM PassportsConverge == PassportSpec => []PassportConverges
<1>1. PassInv /\ [PassportNext]_passVars => PassInv'
  <2> SUFFICES ASSUME PassInv, [PassportNext]_passVars PROVE PassInv'
    OBVIOUS
  <2>1. CASE UNCHANGED passVars
    BY <2>1 DEF passVars, PassInv, PassTypes, PassBounds, Calm, CalmMail, CalmLink, Linked, HasIt, Outstanding
  <2>2. CASE \E due \in BOOLEAN : Check(due)
    BY <2>2, ChecksKeepPassport DEF Check
  <2>3. CASE Broadcast \/ AskHeartbeat \/ \E o \in passObs : DeliveryObserved(o)
    BY <2>3, OwnerKeepsPassport
  <2>4. CASE LeaseHeartbeat \/ \E msg \in passNet, lost, again \in BOOLEAN : ReceiveStatus(msg, lost, again)
    BY <2>4, PeerKeepsPassport
  <2>5. CASE \/ AskManually \/ OwnerRestarts \/ PeerRestarts \/ OwnerRelinks \/ PeerRelinks
             \/ \E c \in Contents, policy \in BOOLEAN : ContentChanges(c, policy)
             \/ \E msg \in passNet : Lose(msg)
    BY <2>5, DisturbancesKeepPassport
  <2>6. CASE Tick
    BY <2>6, TicksKeepPassport
  <2> QED BY <2>1, <2>2, <2>3, <2>4, <2>5, <2>6 DEF PassportNext
<1>2. PassInv => PassportConverges
  <2> SUFFICES ASSUME PassInv, passTime.calm >= 2, Linked PROVE HasIt
    BY DEF PassportConverges, Linked, HasIt
  <2>1. passTime.calm \in Nat
    BY DEF PassInv, PassTypes, PassTimes
  <2> QED BY <2>1 DEF PassInv, Calm, CalmLink
<1> QED BY <1>1, <1>2, PassportBegins, PTL DEF PassportSpec
-----------------------------------------------------------------------------
(* The memory of a long-horizon Task                                       *)

MemItemSet == [version : Nat, scope : {"task", "workspace"}, expires : Nat]
MemVersions == [MemSources -> Nat]
Previews == [query : Nat \X Nat, expires : Nat, allowed : BOOLEAN, seen : MemVersions, items : MemVersions,
             approved : BOOLEAN, consumed : BOOLEAN, invalid : BOOLEAN]

MemTypes ==
  /\ memRows \in [MemSources -> {"absent", "kept", "blank"}]
  /\ memItems \in [MemSources -> MemItemSet]
  /\ memAllowed \in BOOLEAN
  /\ memPreviews \in Seq(Previews)
  /\ memTime \in Nat
  /\ memAsk \in [stage : Nat, input : Nat]

(* A preview that is approved and not used up is what the user saw last.   *)
ShownIs(p) == p.approved /\ ~p.consumed => memShown.query = p.query /\ memShown.items = p.items

(* A preview is never ahead of an item that was not deleted, and an item   *)
(* of the workspace that it still names was authorized when it was made.   *)
ItemsAre(p) ==
  \A s \in MemSources :
    /\ s \notin memGone => p.items[s] <= memItems[s].version
    /\ p.items[s] > 0 /\ memItems[s].version = p.items[s] /\ memItems[s].scope = "workspace" => p.allowed

PreviewsAreFaithful == \A i \in DOMAIN memPreviews : ShownIs(memPreviews[i]) /\ ItemsAre(memPreviews[i])

MemInv == MemTypes /\ DeletedMemoryStaysGone /\ PreviewsAreFaithful

(* Marking previews - as invalid, used up or no longer approved - leaves   *)
(* what they offer alone.                                                  *)
Marked(p, q) ==
  /\ q \in Previews /\ q.query = p.query /\ q.items = p.items /\ q.allowed = p.allowed
  /\ q.approved /\ ~q.consumed => p.approved /\ ~p.consumed

MarksOnly ==
  /\ memPreviews' = [i \in DOMAIN memPreviews |-> memPreviews'[i]]
  /\ \A i \in DOMAIN memPreviews : Marked(memPreviews[i], memPreviews'[i])

(* Marked previews are previews.                                           *)
LEMMA MarkedIsTyped ==
  ASSUME MemTypes, MarksOnly
  PROVE  memPreviews' \in Seq(Previews) /\ DOMAIN memPreviews' = DOMAIN memPreviews
<1>1. memPreviews \in Seq(Previews) /\ DOMAIN memPreviews = 1 .. Len(memPreviews) /\ Len(memPreviews) \in Nat
  BY DEF MemTypes
<1>2. memPreviews' \in [1 .. Len(memPreviews) -> Previews]
  BY <1>1 DEF MarksOnly, Marked
<1> QED BY <1>1, <1>2

(* Marking leaves what an approved preview has in common with what is      *)
(* shown.                                                                  *)
LEMMA MarkedIsShown ==
  ASSUME PreviewsAreFaithful, MarksOnly, UNCHANGED memShown
  PROVE  \A i \in DOMAIN memPreviews : ShownIs(memPreviews[i])'
BY DEF PreviewsAreFaithful, MarksOnly, Marked, ShownIs

(* Invalidating the previews of a source only marks them.                  *)
LEMMA InvalidatedIsMarked ==
  ASSUME MemTypes, NEW s \in MemSources, memPreviews' = InvalidateWith(memPreviews, s)
  PROVE  MarksOnly
<1>1. \A i \in DOMAIN memPreviews : memPreviews[i] \in Previews
  BY DEF MemTypes
<1>2. ASSUME NEW i \in DOMAIN memPreviews
      PROVE  Marked(memPreviews[i], memPreviews'[i])
  <2> DEFINE mark == memPreviews[i].invalid \/ (memPreviews[i].seen[s] > 0 /\ ~memPreviews[i].consumed)
  <2>1. memPreviews'[i] = [memPreviews[i] EXCEPT !.invalid = mark]
    BY DEF InvalidateWith
  <2>2. mark \in BOOLEAN
    BY <1>1 DEF Previews
  <2> HIDE DEF mark
  <2> QED BY <1>1, <2>1, <2>2 DEF Marked, Previews
<1> QED BY <1>2 DEF MarksOnly, InvalidateWith

(* At first there is no memory and no preview.                             *)
LEMMA MemoryBegins == MemoryInit => MemInv
<1> SUFFICES ASSUME MemoryInit PROVE MemInv
  OBVIOUS
<1>1. MemTypes
  <2>1. memItems \in [MemSources -> MemItemSet]
    BY DEF MemoryInit, NoItem, MemItemSet
  <2>2. memPreviews \in Seq(Previews)
    BY DEF MemoryInit
  <2>3. memAsk \in [stage : Nat, input : Nat] /\ memTime \in Nat /\ memAllowed \in BOOLEAN
    BY DEF MemoryInit
  <2>4. memRows \in [MemSources -> {"absent", "kept", "blank"}]
    BY DEF MemoryInit
  <2> QED BY <2>1, <2>2, <2>3, <2>4 DEF MemTypes
<1> QED BY <1>1 DEF MemoryInit, MemInv, DeletedMemoryStaysGone, PreviewsAreFaithful

(* Items: what was deleted is not confirmed again, and every change of an  *)
(* item leaves the previews of it behind.                                  *)
LEMMA ItemsKeepMemory ==
  ASSUME MemInv, NEW s \in MemSources,
         \/ saveStage(s) \/ createStructuredMemoryItem(s) \/ updateStructuredMemoryItem(s)
         \/ deleteStructuredMemoryItem(s) \/ cleanupExpiredStructuredMemory(s)
  PROVE  MemInv'
<1>0. /\ MemTypes /\ DeletedMemoryStaysGone /\ PreviewsAreFaithful
      /\ \A i \in DOMAIN memPreviews : memPreviews[i] \in Previews /\ memPreviews[i].items \in MemVersions
      /\ memTime \in Nat /\ memItems \in [MemSources -> MemItemSet] /\ memItems[s].version \in Nat
  <2>1. /\ MemTypes /\ DeletedMemoryStaysGone /\ PreviewsAreFaithful
        /\ memTime \in Nat /\ memItems \in [MemSources -> MemItemSet] /\ memPreviews \in Seq(Previews)
    BY DEF MemInv, MemTypes
  <2>2. \A i \in DOMAIN memPreviews : memPreviews[i] \in Previews
    BY <2>1
  <2>3. \A p \in Previews : p.items \in MemVersions
    BY DEF Previews
  <2>4. memItems[s].version \in Nat
    BY <2>1 DEF MemItemSet
  <2> QED BY <2>1, <2>2, <2>3, <2>4
<1>1. UNCHANGED <<memTime, memAsk, memAllowed, memShown>>
  BY DEF saveStage, createStructuredMemoryItem, updateStructuredMemoryItem, deleteStructuredMemoryItem,
         cleanupExpiredStructuredMemory, Deletes, Writes
<1>2. CASE saveStage(s)
  <2>1. /\ memRows[s] = "absent" /\ memRows' = [memRows EXCEPT ![s] = "kept"]
        /\ UNCHANGED <<memItems, memGone, memPreviews>>
    BY <1>2 DEF saveStage
  <2>2. MemTypes'
    BY <1>0, <1>1, <2>1 DEF MemTypes
  <2>3. DeletedMemoryStaysGone'
    BY <1>0, <2>1 DEF DeletedMemoryStaysGone, MemTypes
  <2> QED BY <1>0, <1>1, <2>1, <2>2, <2>3 DEF MemInv, PreviewsAreFaithful, ShownIs, ItemsAre
<1>3. CASE createStructuredMemoryItem(s)
  <2>1. /\ s \notin memGone /\ memItems[s].version = 0 /\ UNCHANGED <<memRows, memGone, memPreviews>>
    BY <1>3 DEF createStructuredMemoryItem
  <2>2. PICK item \in MemItemSet : memItems' = [memItems EXCEPT ![s] = item] /\ item.version = 1
    <3>1. memTime + 1 \in Nat /\ Forever \in Nat
      BY <1>0, MemoryBounds DEF Forever
    <3>2. PICK scope \in {"task", "workspace"}, expires \in {memTime + 1, Forever} :
            memItems' = [memItems EXCEPT ![s] = [version |-> 1, scope |-> scope, expires |-> expires]]
      BY <1>3 DEF createStructuredMemoryItem
    <3>3. [version |-> 1, scope |-> scope, expires |-> expires] \in MemItemSet
      BY <3>1 DEF MemItemSet
    <3> QED BY <3>2, <3>3
  <2>3. MemTypes'
    BY <1>0, <1>1, <2>1, <2>2 DEF MemTypes
  <2>4. DeletedMemoryStaysGone'
    BY <1>0, <2>1, <2>2 DEF DeletedMemoryStaysGone
  <2>5. \A i \in DOMAIN memPreviews : ItemsAre(memPreviews[i])'
    BY <1>0, <2>1, <2>2 DEF ItemsAre, PreviewsAreFaithful, MemVersions
  <2> QED BY <1>0, <1>1, <2>1, <2>3, <2>4, <2>5 DEF MemInv, PreviewsAreFaithful, ShownIs
<1>4. CASE updateStructuredMemoryItem(s)
  <2>1. /\ memItems[s].version > 0 /\ UNCHANGED <<memRows, memGone>>
        /\ memPreviews' = InvalidateWith(memPreviews, s)
    <3>1. memItems[s].version \in 1 .. MaxMemVersion - 1 /\ MaxMemVersion \in Nat
      BY <1>4, MemoryBounds DEF updateStructuredMemoryItem
    <3>2. memItems[s].version > 0
      BY <1>0, <3>1
    <3> QED BY <1>4, <3>2 DEF updateStructuredMemoryItem
  <2>2. s \notin memGone
    BY <1>0, <2>1 DEF DeletedMemoryStaysGone
  <2>3. PICK item \in MemItemSet : memItems' = [memItems EXCEPT ![s] = item] /\ item.version = memItems[s].version + 1
    <3>1. memItems[s].version + 1 \in Nat /\ Forever \in Nat
      BY <1>0, MemoryBounds DEF Forever
    <3>2. PICK scope \in {"task", "workspace"} :
            memItems' = [memItems EXCEPT ![s] = [version |-> @.version + 1, scope |-> scope, expires |-> Forever]]
      BY <1>4 DEF updateStructuredMemoryItem
    <3> DEFINE item == [version |-> memItems[s].version + 1, scope |-> scope, expires |-> Forever]
    <3>3. item \in MemItemSet /\ item.version = memItems[s].version + 1
      BY <3>1 DEF MemItemSet
    <3>4. memItems' = [memItems EXCEPT ![s] = item]
      BY <1>0, <3>2
    <3> QED BY <3>3, <3>4
  <2>4. MarksOnly
    BY <1>0, <2>1, InvalidatedIsMarked
  <2>5. MemTypes'
    BY <1>0, <1>1, <2>1, <2>3, <2>4, MarkedIsTyped DEF MemTypes
  <2>6. DeletedMemoryStaysGone'
    BY <1>0, <2>1, <2>2, <2>3 DEF DeletedMemoryStaysGone
  <2>7. \A i \in DOMAIN memPreviews : ItemsAre(memPreviews[i])'
    <3> SUFFICES ASSUME NEW i \in DOMAIN memPreviews PROVE ItemsAre(memPreviews[i])'
      OBVIOUS
    <3>1. /\ memPreviews'[i].items = memPreviews[i].items /\ memPreviews'[i].allowed = memPreviews[i].allowed
          /\ ItemsAre(memPreviews[i]) /\ memPreviews[i].items \in MemVersions
      BY <1>0, <2>4 DEF MarksOnly, Marked, PreviewsAreFaithful
    <3> SUFFICES ASSUME NEW t \in MemSources
                 PROVE  /\ t \notin memGone' => memPreviews'[i].items[t] <= memItems'[t].version
                        /\ (/\ memPreviews'[i].items[t] > 0 /\ memItems'[t].version = memPreviews'[i].items[t]
                            /\ memItems'[t].scope = "workspace") => memPreviews'[i].allowed
      BY DEF ItemsAre
    <3>2. memItems'[t] = IF t = s THEN item ELSE memItems[t]
      BY <1>0, <2>3
    <3>3. memPreviews[i].items[t] \in Nat /\ (t = s => memPreviews[i].items[t] <= memItems[s].version)
      BY <2>2, <3>1 DEF ItemsAre, MemVersions
    <3>4. CASE t = s
      BY <1>0, <2>3, <3>1, <3>2, <3>3, <3>4
    <3>5. CASE t # s
      BY <2>1, <3>1, <3>2, <3>5 DEF ItemsAre
    <3> QED BY <3>4, <3>5
  <2> QED BY <1>0, <1>1, <2>4, <2>5, <2>6, <2>7, MarkedIsTyped, MarkedIsShown DEF MemInv, PreviewsAreFaithful
<1>5. CASE deleteStructuredMemoryItem(s) \/ cleanupExpiredStructuredMemory(s)
  <2>1. /\ memItems' = [memItems EXCEPT ![s] = NoItem] /\ memGone' = memGone \cup {s}
        /\ memRows' = [memRows EXCEPT ![s] = "blank"] /\ memPreviews' = InvalidateWith(memPreviews, s)
    BY <1>5 DEF deleteStructuredMemoryItem, cleanupExpiredStructuredMemory, Deletes
  <2>2. NoItem \in MemItemSet /\ NoItem.version = 0
    BY DEF NoItem, MemItemSet
  <2>4. MarksOnly
    BY <1>0, <2>1, InvalidatedIsMarked
  <2>5. MemTypes'
    BY <1>0, <1>1, <2>1, <2>2, <2>4, MarkedIsTyped DEF MemTypes
  <2>6. DeletedMemoryStaysGone'
    BY <1>0, <2>1, <2>2 DEF DeletedMemoryStaysGone, MemTypes
  <2>7. \A i \in DOMAIN memPreviews : ItemsAre(memPreviews[i])'
    <3> SUFFICES ASSUME NEW i \in DOMAIN memPreviews PROVE ItemsAre(memPreviews[i])'
      OBVIOUS
    <3>1. /\ memPreviews'[i].items = memPreviews[i].items /\ memPreviews'[i].allowed = memPreviews[i].allowed
          /\ ItemsAre(memPreviews[i]) /\ memPreviews[i].items \in MemVersions
      BY <1>0, <2>4 DEF MarksOnly, Marked, PreviewsAreFaithful
    <3> SUFFICES ASSUME NEW t \in MemSources
                 PROVE  /\ t \notin memGone' => memPreviews'[i].items[t] <= memItems'[t].version
                        /\ (/\ memPreviews'[i].items[t] > 0 /\ memItems'[t].version = memPreviews'[i].items[t]
                            /\ memItems'[t].scope = "workspace") => memPreviews'[i].allowed
      BY DEF ItemsAre
    <3>2. memItems'[t] = IF t = s THEN NoItem ELSE memItems[t]
      BY <1>0, <2>1
    <3>3. CASE t = s
      BY <2>1, <2>2, <3>2, <3>3
    <3>4. CASE t # s
      BY <2>1, <3>1, <3>2, <3>4 DEF ItemsAre
    <3> QED BY <3>3, <3>4
  <2> QED BY <1>0, <1>1, <2>4, <2>5, <2>6, <2>7, MarkedIsTyped, MarkedIsShown DEF MemInv, PreviewsAreFaithful
<1> QED BY <1>2, <1>3, <1>4, <1>5

(* Previews: a new one names what is eligible now, and approving one takes *)
(* the approval from every other.                                          *)
LEMMA PreviewsKeepMemory ==
  ASSUME MemInv,
         \/ setStructuredMemoryAuthorization \/ createStructuredMemoryContextPreview
         \/ \E i \in DOMAIN memPreviews : approveStructuredMemoryContextPreview(i)
  PROVE  MemInv'
<1>0. /\ MemTypes /\ DeletedMemoryStaysGone /\ PreviewsAreFaithful /\ memTime \in Nat
      /\ memItems \in [MemSources -> MemItemSet] /\ memPreviews \in Seq(Previews)
  BY DEF MemInv, MemTypes
<1>a. \A i \in DOMAIN memPreviews : memPreviews[i] \in Previews
  BY <1>0
<1>1. UNCHANGED <<memTime, memAsk, memRows, memItems, memGone>>
  BY DEF setStructuredMemoryAuthorization, createStructuredMemoryContextPreview,
         approveStructuredMemoryContextPreview, Writes
<1>2. DeletedMemoryStaysGone'
  BY <1>0, <1>1 DEF DeletedMemoryStaysGone
<1>3. ASSUME MarksOnly PROVE \A i \in DOMAIN memPreviews : ItemsAre(memPreviews[i])'
  BY <1>0, <1>1, <1>3 DEF MarksOnly, Marked, PreviewsAreFaithful, ItemsAre
<1>4. CASE setStructuredMemoryAuthorization
  <2>1. /\ memAllowed' = ~memAllowed /\ UNCHANGED memShown
        /\ memPreviews' = [i \in DOMAIN memPreviews |->
             [memPreviews[i] EXCEPT !.invalid = @ \/ ~memPreviews[i].consumed]]
    BY <1>4 DEF setStructuredMemoryAuthorization
  <2>2. ASSUME NEW i \in DOMAIN memPreviews PROVE Marked(memPreviews[i], memPreviews'[i])
    <3> DEFINE mark == memPreviews[i].invalid \/ ~memPreviews[i].consumed
    <3>1. memPreviews'[i] = [memPreviews[i] EXCEPT !.invalid = mark] /\ mark \in BOOLEAN
      BY <1>a, <2>1 DEF Previews
    <3> HIDE DEF mark
    <3> QED BY <1>a, <3>1 DEF Marked, Previews
  <2>3. MarksOnly
    BY <2>1, <2>2 DEF MarksOnly
  <2>4. MemTypes'
    BY <1>0, <1>1, <2>1, <2>3, MarkedIsTyped DEF MemTypes
  <2> QED BY <1>0, <1>2, <1>3, <2>1, <2>3, <2>4, MarkedIsTyped, MarkedIsShown DEF MemInv, PreviewsAreFaithful
<1>5. CASE createStructuredMemoryContextPreview
  <2> DEFINE old == [i \in DOMAIN memPreviews |->
               [memPreviews[i] EXCEPT !.invalid = @ \/ ~(memPreviews[i].approved \/ memPreviews[i].consumed)]]
  <2>1. PICK included \in SUBSET {s \in MemSources : Eligible(s)} :
          memPreviews' = Append(old,
            [query |-> Query, expires |-> memTime + PreviewTtl, allowed |-> memAllowed,
             seen |-> [s \in MemSources |-> IF Eligible(s) THEN memItems[s].version ELSE 0],
             items |-> [s \in MemSources |-> IF s \in included THEN memItems[s].version ELSE 0],
             approved |-> FALSE, consumed |-> FALSE, invalid |-> FALSE])
    BY <1>5 DEF createStructuredMemoryContextPreview
  <2> DEFINE seen == [s \in MemSources |-> IF Eligible(s) THEN memItems[s].version ELSE 0]
             items == [s \in MemSources |-> IF s \in included THEN memItems[s].version ELSE 0]
             p == [query |-> Query, expires |-> memTime + PreviewTtl, allowed |-> memAllowed, seen |-> seen,
                   items |-> items, approved |-> FALSE, consumed |-> FALSE, invalid |-> FALSE]
  <2>2. UNCHANGED <<memAllowed, memShown>> /\ memPreviews' = Append(old, p)
    BY <1>5, <2>1 DEF createStructuredMemoryContextPreview
  <2>3. seen \in MemVersions /\ items \in MemVersions
    BY <1>0 DEF MemVersions, MemItemSet
  <2>4. \A s \in MemSources : items[s] = IF s \in included THEN memItems[s].version ELSE 0
    OBVIOUS
  <2>5. Query \in Nat \X Nat /\ memTime + PreviewTtl \in Nat /\ memAllowed \in BOOLEAN
    <3>1. PreviewTtl \in Nat /\ memAsk \in [stage : Nat, input : Nat] /\ memAllowed \in BOOLEAN
      BY <1>0, MemoryBounds DEF MemTypes
    <3> QED BY <1>0, <3>1 DEF Query
  <2> HIDE DEF seen, items
  <2>6. p \in Previews /\ p.items = items /\ p.allowed = memAllowed /\ p.approved = FALSE
    BY <2>3, <2>5 DEF Previews
  <2> HIDE DEF p
  <2>7. ASSUME NEW i \in DOMAIN memPreviews PROVE Marked(memPreviews[i], old[i])
    <3> DEFINE mark == memPreviews[i].invalid \/ ~(memPreviews[i].approved \/ memPreviews[i].consumed)
    <3>1. old[i] = [memPreviews[i] EXCEPT !.invalid = mark] /\ mark \in BOOLEAN
      BY <1>a DEF Previews
    <3> HIDE DEF mark, old
    <3> QED BY <1>a, <3>1 DEF Marked, Previews
  <2>8. DOMAIN old = DOMAIN memPreviews /\ DOMAIN memPreviews = 1 .. Len(memPreviews) /\ Len(memPreviews) \in Nat
    BY <1>0
  <2>9. old \in Seq(Previews) /\ Len(old) = Len(memPreviews)
    <3>1. old \in [1 .. Len(memPreviews) -> Previews]
      BY <2>7, <2>8 DEF Marked
    <3> HIDE DEF old
    <3> QED BY <2>8, <3>1
  <2> HIDE DEF old
  <2>10. MemTypes'
    BY <1>0, <1>1, <2>2, <2>6, <2>9 DEF MemTypes
  <2>11. ItemsAre(p)
    <3>1. \A s \in included : s \in MemSources /\ (memItems[s].scope = "workspace" => memAllowed)
      BY DEF Eligible
    <3>2. \A s \in MemSources : memItems[s].version \in Nat
      BY <1>0 DEF MemItemSet
    <3> QED BY <2>4, <2>6, <3>1, <3>2 DEF ItemsAre
  <2>12. ASSUME NEW i \in DOMAIN memPreviews' PROVE (ShownIs(memPreviews[i]) /\ ItemsAre(memPreviews[i]))'
    <3>1. CASE i = Len(memPreviews) + 1
      <4>1. memPreviews'[i] = p
        BY <2>2, <2>9, <3>1
      <4> QED BY <1>1, <2>2, <2>6, <2>11, <4>1 DEF ShownIs, ItemsAre
    <3>2. CASE i # Len(memPreviews) + 1
      <4>1. i \in DOMAIN memPreviews /\ memPreviews'[i] = old[i]
        BY <2>2, <2>8, <2>9, <2>6, <3>2
      <4>2. Marked(memPreviews[i], memPreviews'[i]) /\ ShownIs(memPreviews[i]) /\ ItemsAre(memPreviews[i])
        BY <1>0, <2>7, <4>1 DEF PreviewsAreFaithful
      <4> QED BY <1>1, <2>2, <4>2 DEF Marked, ShownIs, ItemsAre
    <3> QED BY <3>1, <3>2
  <2> QED BY <1>2, <2>10, <2>12 DEF MemInv, PreviewsAreFaithful
<1>6. ASSUME NEW i \in DOMAIN memPreviews, approveStructuredMemoryContextPreview(i)
      PROVE  MemInv'
  <2>1. /\ UNCHANGED memAllowed /\ ~memPreviews[i].consumed
        /\ memPreviews' = [j \in DOMAIN memPreviews |->
             [memPreviews[j] EXCEPT !.approved = IF memPreviews[j].consumed THEN @ ELSE j = i]]
        /\ memShown' = [query |-> memPreviews[i].query, items |-> memPreviews[i].items]
    BY <1>6 DEF approveStructuredMemoryContextPreview
  <2>2. ASSUME NEW j \in DOMAIN memPreviews
        PROVE  /\ memPreviews'[j] \in Previews /\ memPreviews'[j].query = memPreviews[j].query
               /\ memPreviews'[j].items = memPreviews[j].items /\ memPreviews'[j].allowed = memPreviews[j].allowed
               /\ memPreviews'[j].approved /\ ~memPreviews'[j].consumed => j = i
    <3> DEFINE mark == IF memPreviews[j].consumed THEN memPreviews[j].approved ELSE j = i
    <3>1. memPreviews'[j] = [memPreviews[j] EXCEPT !.approved = mark] /\ mark \in BOOLEAN
      BY <1>a, <2>1 DEF Previews
    <3>2. ~memPreviews[j].consumed => (mark <=> j = i)
      OBVIOUS
    <3> HIDE DEF mark
    <3> QED BY <1>a, <3>1, <3>2 DEF Previews
  <2>3. DOMAIN memPreviews' = DOMAIN memPreviews /\ memPreviews' \in Seq(Previews)
    <3>1. DOMAIN memPreviews = 1 .. Len(memPreviews) /\ Len(memPreviews) \in Nat
      BY <1>0
    <3>2. memPreviews' \in [1 .. Len(memPreviews) -> Previews]
      BY <2>1, <2>2, <3>1
    <3> QED BY <3>1, <3>2
  <2>4. MemTypes'
    BY <1>0, <1>1, <2>1, <2>3 DEF MemTypes
  <2>5. ASSUME NEW j \in DOMAIN memPreviews PROVE (ShownIs(memPreviews[j]) /\ ItemsAre(memPreviews[j]))'
    <3>1. memShown'.query = memPreviews[i].query /\ memShown'.items = memPreviews[i].items
      BY <2>1
    <3>2. /\ memPreviews'[j].query = memPreviews[j].query /\ memPreviews'[j].items = memPreviews[j].items
          /\ memPreviews'[j].allowed = memPreviews[j].allowed
          /\ memPreviews'[j].approved /\ ~memPreviews'[j].consumed => j = i
      BY <2>2
    <3>3. ShownIs(memPreviews[j])'
      BY <3>1, <3>2 DEF ShownIs
    <3>4. ItemsAre(memPreviews[j])'
      BY <1>0, <1>1, <3>2 DEF ItemsAre, PreviewsAreFaithful
    <3> QED BY <3>3, <3>4
  <2> QED BY <1>2, <2>3, <2>4, <2>5 DEF MemInv, PreviewsAreFaithful
<1> QED BY <1>4, <1>5, <1>6

(* The use of a preview: only what the user saw last is handed over.       *)
Consented ==
  memGiven' # memGiven /\ memGiven'.items # NoMemory =>
    /\ memGiven'.query = memShown.query
    /\ \A s \in MemSources : memGiven'.items[s] > 0 =>
         /\ memGiven'.items[s] = memShown.items[s]
         /\ Eligible(s) /\ memItems[s].version = memGiven'.items[s]

(* A stage starts with what an approved preview offers, or with nothing.   *)
LEMMA StartsKeepMemory ==
  ASSUME MemInv, startStageWithMemory
  PROVE  MemInv' /\ Consented
<1>0. /\ MemTypes /\ DeletedMemoryStaysGone /\ PreviewsAreFaithful /\ memPreviews \in Seq(Previews)
  BY DEF MemInv, MemTypes
<1>a. \A i \in DOMAIN memPreviews : memPreviews[i] \in Previews
  BY <1>0
<1>1. UNCHANGED <<memTime, memAsk, memRows, memItems, memGone, memAllowed, memShown>>
  BY DEF startStageWithMemory
<1>2. \/ Given(NoMemory) /\ UNCHANGED memPreviews
      \/ \E i \in DOMAIN memPreviews :
           /\ Usable(i) /\ Given(NoMemory)
           /\ memPreviews' = [memPreviews EXCEPT ![i].invalid = @ \/ memPreviews[i].items # NoMemory]
      \/ \E i \in DOMAIN memPreviews :
           /\ Usable(i) /\ PreviewCurrent(memPreviews[i]) /\ Given(memPreviews[i].items)
           /\ memPreviews' = [memPreviews EXCEPT ![i].consumed = TRUE]
  BY DEF startStageWithMemory, createStructuredMemoryExecutionContext
<1>3. ASSUME MarksOnly PROVE MemInv'
  <2>1. MemTypes'
    BY <1>0, <1>1, <1>3, MarkedIsTyped DEF MemTypes
  <2>2. DeletedMemoryStaysGone'
    BY <1>0, <1>1 DEF DeletedMemoryStaysGone
  <2>3. \A i \in DOMAIN memPreviews : ItemsAre(memPreviews[i])'
    BY <1>0, <1>1, <1>3 DEF MarksOnly, Marked, PreviewsAreFaithful, ItemsAre
  <2> QED BY <1>0, <1>1, <1>3, <2>1, <2>2, <2>3, MarkedIsTyped, MarkedIsShown DEF MemInv, PreviewsAreFaithful
<1>4. CASE Given(NoMemory) /\ UNCHANGED memPreviews
  <2>1. MemInv'
    BY <1>0, <1>1, <1>4 DEF MemInv, MemTypes, DeletedMemoryStaysGone, PreviewsAreFaithful, ShownIs, ItemsAre
  <2> QED BY <1>4, <2>1 DEF Given, Consented
<1>5. ASSUME NEW i \in DOMAIN memPreviews, Given(NoMemory),
             memPreviews' = [memPreviews EXCEPT ![i].invalid = @ \/ memPreviews[i].items # NoMemory]
      PROVE  MemInv' /\ Consented
  <2> DEFINE mark == memPreviews[i].invalid \/ memPreviews[i].items # NoMemory
             q == [memPreviews[i] EXCEPT !.invalid = mark]
  <2>1. mark \in BOOLEAN
    BY <1>a DEF Previews
  <2>2. memPreviews' = [memPreviews EXCEPT ![i] = q]
    BY <1>0, <1>5
  <2>3. Marked(memPreviews[i], q)
    <3> HIDE DEF mark
    <3> QED BY <1>a, <2>1 DEF Marked, Previews
  <2> HIDE DEF q
  <2>4. MarksOnly
    BY <1>0, <1>a, <2>2, <2>3 DEF MarksOnly, Marked
  <2> QED BY <1>3, <1>5, <2>4 DEF Given, Consented
<1>6. ASSUME NEW i \in DOMAIN memPreviews, Usable(i), PreviewCurrent(memPreviews[i]), Given(memPreviews[i].items),
             memPreviews' = [memPreviews EXCEPT ![i].consumed = TRUE]
      PROVE  MemInv' /\ Consented
  <2> DEFINE q == [memPreviews[i] EXCEPT !.consumed = TRUE]
  <2>1. memPreviews' = [memPreviews EXCEPT ![i] = q]
    BY <1>0, <1>6
  <2>2. Marked(memPreviews[i], q)
    BY <1>a DEF Marked, Previews
  <2> HIDE DEF q
  <2>3. MarksOnly
    BY <1>0, <1>a, <2>1, <2>2 DEF MarksOnly, Marked
  <2>4. /\ memGiven'.query = Query /\ memGiven'.items = memPreviews[i].items
        /\ memPreviews[i].query = Query /\ memPreviews[i].approved /\ ~memPreviews[i].consumed
    BY <1>6 DEF Given, Usable
  <2>5. memShown.query = memPreviews[i].query /\ memShown.items = memPreviews[i].items /\ ItemsAre(memPreviews[i])
    BY <1>0, <2>4 DEF PreviewsAreFaithful, ShownIs
  <2>6. ASSUME NEW s \in MemSources, memPreviews[i].items[s] > 0
        PROVE  Eligible(s) /\ memItems[s].version = memPreviews[i].items[s]
    BY <1>6, <2>5, <2>6 DEF PreviewCurrent, Eligible, ItemsAre
  <2>7. Consented
    BY <2>4, <2>5, <2>6 DEF Consented
  <2> QED BY <1>3, <2>3, <2>7
<1> QED BY <1>2, <1>4, <1>5, <1>6

(* Every operation keeps the invariant, and gives only what was consented  *)
(* to.                                                                     *)
LEMMA MemoryStep ==
  ASSUME MemInv, MemoryNext
  PROVE  MemInv' /\ Consented
<1>1. CASE MemoryMigrates \/ MemoryOpens \/ MemoryCloses \/ MemoryClock \/ StageStartFails \/ StageLeavesArtifact
           \/ MemoryInput
  <2>1. /\ UNCHANGED <<memRows, memItems, memGone, memAllowed, memPreviews, memShown>>
        /\ memGiven' = memGiven \/ memGiven' = NothingGiven
    BY <1>1 DEF MemoryMigrates, MemoryOpens, MemoryCloses, MemoryClock, StageStartFails, StageLeavesArtifact,
                MemoryInput, memData
  <2>2. memTime' \in Nat
    BY <1>1 DEF MemoryMigrates, MemoryOpens, MemoryCloses, MemoryClock, StageStartFails, StageLeavesArtifact,
                MemoryInput, MemInv, MemTypes
  <2>3. memAsk' \in [stage : Nat, input : Nat]
    <3>1. memAsk \in [stage : Nat, input : Nat] /\ memAsk.stage + 1 \in Nat /\ memAsk.input + 1 \in Nat
      BY DEF MemInv, MemTypes
    <3>2. PICK more \in Nat : more = memAsk.input + 1
      BY <3>1
    <3>3. \/ memAsk' = memAsk
          \/ memAsk' = [stage |-> memAsk.stage + 1, input |-> 1]
          \/ memAsk' = [memAsk EXCEPT !.input = more]
      BY <1>1, <3>2 DEF MemoryMigrates, MemoryOpens, MemoryCloses, MemoryClock, StageStartFails, StageLeavesArtifact,
                        MemoryInput
    <3> QED BY <3>1, <3>3
  <2>4. MemInv'
    BY <2>1, <2>2, <2>3 DEF MemInv, MemTypes, DeletedMemoryStaysGone, PreviewsAreFaithful, ShownIs, ItemsAre
  <2>5. NothingGiven.items = NoMemory
    BY DEF NothingGiven
  <2> QED BY <2>1, <2>4, <2>5 DEF Consented
<1>2. CASE \E s \in MemSources : \/ saveStage(s) \/ createStructuredMemoryItem(s) \/ updateStructuredMemoryItem(s)
                                 \/ deleteStructuredMemoryItem(s) \/ cleanupExpiredStructuredMemory(s)
  <2>1. UNCHANGED memGiven
    BY <1>2 DEF saveStage, createStructuredMemoryItem, updateStructuredMemoryItem, deleteStructuredMemoryItem,
                cleanupExpiredStructuredMemory, Writes
  <2> QED BY <1>2, <2>1, ItemsKeepMemory DEF Consented
<1>3. CASE \/ setStructuredMemoryAuthorization \/ createStructuredMemoryContextPreview
           \/ \E i \in DOMAIN memPreviews : approveStructuredMemoryContextPreview(i)
  <2>1. UNCHANGED memGiven
    BY <1>3 DEF setStructuredMemoryAuthorization, createStructuredMemoryContextPreview,
                approveStructuredMemoryContextPreview, Writes
  <2> QED BY <1>3, <2>1, PreviewsKeepMemory DEF Consented
<1>4. CASE startStageWithMemory
  BY <1>4, StartsKeepMemory
<1> QED BY <1>1, <1>2, <1>3, <1>4 DEF MemoryNext

(* Memory follows the user (structured-task-sqlite.ts): what was deleted   *)
(* or has expired never comes back, and a stage is given only what the     *)
(* user saw last, for the instruction it runs, at the versions that were   *)
(* shown, while each item may still be used.                               *)
THEOREM MemoryAlwaysObeys == CollaborationSpec => MemoryObeysTheUser
<1>1. CollaborationInit => MemInv
  BY MemoryBegins DEF CollaborationInit
<1>2. /\ MemInv
      /\ [CollaborationNext]_collaborationVars
      => MemInv' /\ [Consented]_memVars
  <2> SUFFICES ASSUME MemInv,
                      [CollaborationNext]_collaborationVars
               PROVE  MemInv' /\ [Consented]_memVars
    OBVIOUS
  <2>1. MemoryNext \/ UNCHANGED memVars
    BY Zenon DEF CollaborationNext, OnlyStep, collaborationVars
  <2>2. CASE UNCHANGED memVars
    BY <2>2 DEF memVars, MemInv, MemTypes, DeletedMemoryStaysGone, PreviewsAreFaithful, ShownIs, ItemsAre
  <2> QED BY <2>1, <2>2, MemoryStep
<1>3. MemInv => DeletedMemoryStaysGone
  BY DEF MemInv
<1>4. CollaborationSpec => []DeletedMemoryStaysGone
  BY <1>1, <1>2, <1>3, PTL DEF CollaborationSpec
<1>5. CollaborationSpec => [][Consented]_memVars
  BY <1>1, <1>2, PTL DEF CollaborationSpec
<1> QED BY <1>4, <1>5 DEF MemoryObeysTheUser, InjectedMemoryIsConsented, Consented
=============================================================================
