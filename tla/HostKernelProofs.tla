-------------------------- MODULE HostKernelProofs --------------------------
(***************************************************************************)
(* Proofs about HostKernel: nothing of an execution happens twice          *)
(* (OneExecution), and the kernel, the registry and the records together   *)
(* keep the safety part of ExecutionContract for every Task.               *)
(*                                                                         *)
(* The effect and the tracking of first executions hold for every setting. *)
(* That two executions of a Task never have a child at the same time needs *)
(* a kernel that remembers every Task (Retains): one that has pruned a     *)
(* resumed execution from its history takes it for interrupted and starts  *)
(* the next one beside it.                                                 *)
(***************************************************************************)
EXTENDS HostKernel, FiniteSetTheorems, TLAPS

-----------------------------------------------------------------------------
(* Types.                                                                   *)

RecordState == {"pending", "working", "input_required"} \cup Ended
Handle == [epoch : 0 .. MaxEpoch, checkpoint : BOOLEAN,
           state : {"none", "queued", "running", "interrupted"} \cup Ended]

\* A run that can still start a child, or has one to look after.
Busy == {"queued", "cleanup", "finish"} \cup Trying
Over == {"none", "discard", "done", "reported"}
\* A run from its start to the end of its finally block.
Stages == {"cleanup", "finish", "discard"} \cup Trying
Unknown == {"none", "refused"}
Run == [at : Busy \cup Over, machine : {"submitted", "working"} \cup Ended \cup Unknown,
        reason : {"none", "cancel", "shutdown", "timeout", "output_limit"},
        child : {"none", "gone"} \cup Alive, base : Nat]

TypeInv ==
  /\ record \in [Tasks -> RecordState]
  /\ binding \in [Tasks -> Nat]
  /\ handle \in [Tasks -> Handle]
  /\ run \in [Tasks -> [Epochs -> Run]]
  /\ tracked \in [Tasks -> 0 .. MaxEpoch]
  /\ history.epoch \in [Tasks -> 0 .. MaxEpoch]
  /\ revision \in Nat \ {0}
  /\ commits \in Seq(Tasks \X Epochs)
  /\ setting \in Settings

-----------------------------------------------------------------------------
(* The invariant of every kernel.                                           *)

\* A run at each of its stages.
Shape(r) ==
  /\ r.at = "none" => r = NoRun
  /\ r.at = "queued" => r.machine = "submitted"
  /\ r.at \in Trying => r.machine = "working"
  /\ r.at \in {"cleanup", "finish", "discard"} => r.machine \in Ended
  /\ r.at \in {"done", "reported"} => r.machine \in Ended \cup {"refused"}
  /\ r.child \in Alive => r.at \in Trying \cup {"cleanup"}

\* The runs of Task t.
RunsInv(t) ==
  /\ \A e \in Epochs : /\ Shape(run[t][e])
                       /\ e > handle[t].epoch => run[t][e] = NoRun
                       /\ host = "down" => run[t][e] = NoRun
  /\ record[t] = "pending" => handle[t].epoch = 0
  /\ handle[t].state = "failed" =>
       \A e \in Epochs : e = handle[t].epoch =>
         run[t][e].at \in Over /\ run[t][e].machine \in Unknown \cup {"failed"}
  /\ history.epoch[t] # 0 =>
       /\ history.epoch[t] = handle[t].epoch
       /\ run[t][history.epoch[t]].machine \notin Unknown
       /\ record[t] = "input_required" => run[t][history.epoch[t]].machine \in Ended

\* A first execution is known to the kernel and tracked by it, and its Task is
\* not taken for interrupted.
FirstInv(t) ==
  run[t][1].at \in Busy =>
    /\ handle[t].epoch = 1 /\ history.epoch[t] = 1
    /\ record[t] # "input_required"
    /\ (run[t][1].at # "queued" => tracked[t] = 1)

\* The active map holds runs that have started and are not over.
TrackedInv(t) ==
  tracked[t] # 0 => run[t][tracked[t]].at \in Stages

\* What a run works on is what was granted, and a Task that has had its effect
\* was granted an older Workspace.
EffectInv(t) ==
  /\ \A e \in Epochs : /\ run[t][e].base \in {0, binding[t]}
                       /\ run[t][e].machine = "completed" => t \in Effects
  /\ t \in Effects => binding[t] < revision /\ record[t] # "pending"

KernelInv ==
  /\ TypeInv
  /\ \A t \in Tasks : RunsInv(t) /\ FirstInv(t) /\ TrackedInv(t) /\ EffectInv(t)
  /\ EffectAtMostOnce

-----------------------------------------------------------------------------
(* The invariant of a kernel that remembers every Task.                     *)

Retains == Cardinality(Tasks) <= MaxRetained

\* Only the current execution of t is busy, the kernel knows it, and a Task that
\* may be resumed has none.
CurrentInv(t) ==
  \A e \in Epochs :
    /\ e < handle[t].epoch => run[t][e].at \in Over
    /\ e = handle[t].epoch =>
         /\ run[t][e].machine \notin Unknown => history.epoch[t] = e
         /\ record[t] = "input_required" =>
              run[t][e].at \in Over /\ run[t][e].machine \in Unknown \cup {"failed"}

RetainedInv == \A t \in Tasks : CurrentInv(t)

-----------------------------------------------------------------------------
(* How one step changes a run, and what it does to the invariants.          *)

\* Run r is q, or q some stages on.
Follows(q, r) ==
  /\ Shape(r)
  /\ q.at = "none" <=> r.at = "none"
  /\ r.at \in Busy => q.at \in Busy
  /\ r.at = "queued" => q.at = "queued"
  /\ r.machine \in Unknown <=> q.machine \in Unknown
  /\ q.machine \in Ended => r.machine \in Ended
  /\ q.at \in Over => r.machine = q.machine

\* The Task of t may be resumed.
MayResume(t) ==
  /\ history.epoch[t] # 0 => run[t][history.epoch[t]].machine \in Ended
  /\ run[t][1].at \notin Busy

\* A step in which runs, records, handles and the history of Task t only move on.
Progresses(t) ==
  /\ handle'[t].epoch = handle[t].epoch
  /\ \A e \in Epochs :
       /\ Follows(run[t][e], run'[t][e])
       /\ run'[t][e].base \in {0, binding[t]}
       /\ run'[t][e].machine = "completed" => run[t][e].machine = "completed" \/ t \in Effects'
       /\ (handle'[t].state = "failed" /\ e = handle[t].epoch) =>
            \/ handle[t].state = "failed"
            \/ run'[t][e].at \in Over /\ run'[t][e].machine = "failed"
  /\ history'.epoch[t] \in {0, history.epoch[t]}
  /\ run'[t][1].at \in Busy => history'.epoch[t] = history.epoch[t]
  /\ run'[t][1].at \in Busy \ {"queued"} => tracked'[t] = 1
  /\ TrackedInv(t)'
  /\ record'[t] = record[t] \/ "pending" \notin {record[t], record'[t]}
  /\ (record'[t] = "input_required" /\ record[t] # "input_required") => MayResume(t)'

\* The Workspace moves on, and what has had its effect stays.
EffectsMove ==
  /\ UNCHANGED binding
  /\ revision' >= revision
  /\ Effects \subseteq Effects'
  /\ \A t \in Effects' : t \notin Effects => binding[t] < revision' /\ record[t] # "pending"
  /\ EffectAtMostOnce'

\* The same of a kernel that remembers every Task.
Remembers(t) ==
  /\ history'.epoch[t] = history.epoch[t]
  /\ record'[t] = "input_required" =>
       \/ record[t] = "input_required"
       \/ \A e \in Epochs : e = handle[t].epoch =>
            run'[t][e].at \in Over /\ run'[t][e].machine \in Unknown \cup {"failed"}

Carries ==
  /\ TypeInv' /\ EffectsMove /\ (host' = "down" => host = "down")
  /\ \A t \in Tasks : Progresses(t)
  /\ (Retains /\ RetainedInv) => \A t \in Tasks : Remembers(t)

\* What every step has to keep.
Preserved == KernelInv' /\ ((Retains /\ RetainedInv) => RetainedInv')

\* The fields of what has its type.
LEMMA TypeFacts ==
  ASSUME TypeInv, NEW t \in Tasks
  PROVE  /\ record[t] \in RecordState /\ binding[t] \in Nat
         /\ handle[t] \in Handle /\ handle[t].epoch \in 0 .. MaxEpoch
         /\ tracked[t] \in 0 .. MaxEpoch /\ history.epoch[t] \in 0 .. MaxEpoch
         /\ \A e \in Epochs : run[t][e] \in Run /\ run[t][e].base \in Nat
         /\ revision \in Nat /\ revision > 0
         /\ MaxEpoch \in Nat /\ 1 \in Epochs /\ Epochs \subseteq Nat
  BY KernelAssumption DEF TypeInv, Handle, Run, Epochs

\* A step in which things only move on keeps the invariant of every kernel.
LEMMA ProgressKeeps ==
  ASSUME KernelInv, TypeInv', EffectsMove, \A t \in Tasks : Progresses(t),
         host' = "down" => host = "down"
  PROVE  KernelInv'
  <1>1. TypeInv /\ EffectAtMostOnce'
    BY DEF KernelInv, EffectsMove
  <1>2. ASSUME NEW t \in Tasks
        PROVE  RunsInv(t)' /\ FirstInv(t)' /\ TrackedInv(t)' /\ EffectInv(t)'
    <2>1. /\ RunsInv(t) /\ FirstInv(t) /\ EffectInv(t) /\ Progresses(t)
          /\ binding'[t] = binding[t] /\ handle'[t].epoch = handle[t].epoch
      BY DEF KernelInv, EffectsMove, Progresses
    <2>2. /\ handle[t].epoch \in 0 .. MaxEpoch /\ history.epoch[t] \in 0 .. MaxEpoch
          /\ binding[t] \in Nat /\ revision \in Nat /\ revision' \in Nat
          /\ MaxEpoch \in Nat /\ 1 \in Epochs /\ Epochs = 1 .. MaxEpoch
      BY <1>1, TypeFacts DEF TypeInv, Epochs
    <2>3. \A e \in Epochs : Follows(run[t][e], run'[t][e])
      BY <2>1 DEF Progresses
    <2>4. \A e \in Epochs : /\ Shape(run'[t][e])
                            /\ e > handle'[t].epoch => run'[t][e] = NoRun
                            /\ host' = "down" => run'[t][e] = NoRun
      BY <2>1, <2>3 DEF RunsInv, Follows, Shape, NoRun
    <2>5. record'[t] = "pending" => handle'[t].epoch = 0
      BY <2>1 DEF RunsInv, Progresses
    <2>6. handle'[t].state = "failed" =>
            \A e \in Epochs : e = handle'[t].epoch =>
              run'[t][e].at \in Over /\ run'[t][e].machine \in Unknown \cup {"failed"}
      <3>1. SUFFICES ASSUME handle'[t].state = "failed", NEW e \in Epochs, e = handle[t].epoch
                     PROVE  run'[t][e].at \in Over /\ run'[t][e].machine \in Unknown \cup {"failed"}
        BY <2>1
      <3>2. CASE handle[t].state = "failed"
        <4>1. run[t][e].at \in Over /\ run[t][e].machine \in Unknown \cup {"failed"}
          BY <2>1, <3>1, <3>2 DEF RunsInv
        <4>2. run'[t][e] \in Run
          BY <1>1, TypeFacts DEF TypeInv
        <4> QED
          BY <2>3, <4>1, <4>2 DEF Follows, Run, Over, Busy, Trying
      <3>3. CASE handle[t].state # "failed"
        BY <2>1, <3>1, <3>3 DEF Progresses
      <3> QED
        BY <3>2, <3>3
    <2>7. history'.epoch[t] # 0 =>
            /\ history'.epoch[t] = handle'[t].epoch
            /\ run'[t][history'.epoch[t]].machine \notin Unknown
            /\ record'[t] = "input_required" => run'[t][history'.epoch[t]].machine \in Ended
      <3>1. SUFFICES ASSUME history'.epoch[t] # 0
                     PROVE  /\ history'.epoch[t] = handle'[t].epoch
                            /\ run'[t][history'.epoch[t]].machine \notin Unknown
                            /\ record'[t] = "input_required" =>
                                 run'[t][history'.epoch[t]].machine \in Ended
        OBVIOUS
      <3> DEFINE e == history.epoch[t]
      <3>2. history'.epoch[t] = e /\ e \in Epochs /\ e = handle[t].epoch
        BY <2>1, <2>2, <3>1 DEF Progresses, RunsInv
      <3>3. run'[t][e].machine \notin Unknown
        BY <2>1, <2>3, <3>1, <3>2 DEF RunsInv, Follows
      <3>4. record'[t] = "input_required" => run'[t][e].machine \in Ended
        <4>1. CASE record[t] = "input_required"
          BY <2>1, <2>3, <3>1, <3>2, <4>1 DEF RunsInv, Follows
        <4>2. CASE record[t] # "input_required"
          BY <2>1, <3>1, <3>2, <4>2 DEF Progresses, MayResume
        <4> QED
          BY <4>1, <4>2
      <3> QED
        BY <2>1, <3>2, <3>3, <3>4
    <2>8. FirstInv(t)'
      <3>1. SUFFICES ASSUME run'[t][1].at \in Busy
                     PROVE  /\ handle'[t].epoch = 1 /\ history'.epoch[t] = 1
                            /\ record'[t] # "input_required"
                            /\ (run'[t][1].at # "queued" => tracked'[t] = 1)
        BY DEF FirstInv
      <3>2. run[t][1].at \in Busy
        BY <2>2, <2>3, <3>1 DEF Follows
      <3>3. handle[t].epoch = 1 /\ history.epoch[t] = 1 /\ record[t] # "input_required"
        BY <2>1, <3>2 DEF FirstInv
      <3>4. history'.epoch[t] = history.epoch[t] /\ (run'[t][1].at # "queued" => tracked'[t] = 1)
        BY <2>1, <3>1 DEF Progresses
      <3>5. record'[t] # "input_required"
        BY <2>1, <3>1, <3>3 DEF Progresses, MayResume
      <3> QED
        BY <2>1, <3>3, <3>4, <3>5
    <2>9. EffectInv(t)'
      <3>1. t \in Effects' => binding'[t] < revision' /\ record'[t] # "pending"
        <4>1. CASE t \in Effects
          BY <2>1, <2>2, <4>1 DEF EffectInv, EffectsMove, Progresses
        <4>2. CASE t \notin Effects
          BY <2>1, <4>2 DEF EffectsMove, Progresses
        <4> QED
          BY <4>1, <4>2
      <3>2. \A e \in Epochs : /\ run'[t][e].base \in {0, binding'[t]}
                              /\ run'[t][e].machine = "completed" => t \in Effects'
        BY <2>1 DEF Progresses, EffectInv, EffectsMove
      <3> QED
        BY <3>1, <3>2 DEF EffectInv
    <2>10. TrackedInv(t)'
      BY <2>1 DEF Progresses
    <2> QED
      BY <2>4, <2>5, <2>6, <2>7, <2>8, <2>9, <2>10 DEF RunsInv
  <1> QED
    BY <1>1, <1>2 DEF KernelInv

\* It keeps the invariant of a kernel that remembers every Task as well.
LEMMA CarriesKeep ==
  ASSUME KernelInv, Carries
  PROVE  Preserved
  <1>1. KernelInv'
    BY ProgressKeeps DEF Carries
  <1>2. ASSUME Retains, RetainedInv
        PROVE  RetainedInv'
    <2>1. SUFFICES ASSUME NEW t \in Tasks, NEW e \in Epochs
                   PROVE  /\ e < handle'[t].epoch => run'[t][e].at \in Over
                          /\ e = handle'[t].epoch =>
                               /\ run'[t][e].machine \notin Unknown => history'.epoch[t] = e
                               /\ record'[t] = "input_required" =>
                                    run'[t][e].at \in Over /\ run'[t][e].machine \in Unknown \cup {"failed"}
      BY DEF RetainedInv, CurrentInv
    <2>2. /\ Progresses(t) /\ Remembers(t) /\ CurrentInv(t)
          /\ Follows(run[t][e], run'[t][e]) /\ run'[t][e] \in Run
      BY <1>2, TypeFacts DEF Carries, RetainedInv, Progresses, TypeInv
    <2>3. handle'[t].epoch = handle[t].epoch /\ history'.epoch[t] = history.epoch[t]
      BY <2>2 DEF Progresses, Remembers
    <2>4. /\ run[t][e].at \in Over => run'[t][e].at \in Over /\ run'[t][e].machine = run[t][e].machine
          /\ run'[t][e].machine \notin Unknown => run[t][e].machine \notin Unknown
      BY <2>2 DEF Follows, Run, Over, Busy, Trying
    <2>5. e < handle'[t].epoch => run'[t][e].at \in Over
      BY <2>2, <2>3, <2>4 DEF CurrentInv
    <2>6. (e = handle'[t].epoch /\ run'[t][e].machine \notin Unknown) => history'.epoch[t] = e
      BY <2>2, <2>3, <2>4 DEF CurrentInv
    <2>7. (e = handle'[t].epoch /\ record'[t] = "input_required") =>
            run'[t][e].at \in Over /\ run'[t][e].machine \in Unknown \cup {"failed"}
      BY <2>2, <2>3, <2>4 DEF CurrentInv, Remembers
    <2> QED
      BY <2>5, <2>6, <2>7
  <1> QED
    BY <1>1, <1>2 DEF Preserved

\* A Task that a step leaves alone.
LEMMA Unmoved ==
  ASSUME KernelInv, NEW t \in Tasks, run'[t] = run[t], history'.epoch[t] = history.epoch[t],
         tracked'[t] = tracked[t], record'[t] = record[t],
         handle'[t].epoch = handle[t].epoch,
         handle'[t].state = "failed" => handle[t].state = "failed"
  PROVE  Progresses(t) /\ Remembers(t)
  <1>1. TypeInv /\ RunsInv(t) /\ FirstInv(t) /\ TrackedInv(t) /\ EffectInv(t)
    BY DEF KernelInv
  <1>2. ASSUME NEW e \in Epochs
        PROVE  Follows(run[t][e], run[t][e])
    BY <1>1 DEF RunsInv, Follows
  <1>3. run'[t][1].at \in Busy \ {"queued"} => tracked'[t] = 1
    BY <1>1 DEF FirstInv
  <1>4. record[t] \in RecordState
    BY <1>1, TypeFacts
  <1>5. TrackedInv(t)'
    BY <1>1 DEF TrackedInv
  <1> QED
    BY <1>1, <1>2, <1>3, <1>4, <1>5 DEF Progresses, Remembers, EffectInv

-----------------------------------------------------------------------------
(* The stages of a run.                                                     *)

\* Run <<t, e>> moves on to r.
Moves(t, e, r) ==
  /\ Advance(t, e, r)
  /\ r \in Run /\ Follows(run[t][e], r)
  /\ run[t][e].at # "queued" /\ (run[t][e].at \in Stages => r.at \in Stages)
  /\ r.base \in {0, binding[t]}
  /\ r.machine = "completed" => run[t][e].machine = "completed" \/ t \in Effects'

\* The handles of the others stay; that of t fails only with run <<t, e>>.
HandlesMove(t, e, r) ==
  /\ handle' \in [Tasks -> Handle]
  /\ \A u \in Tasks :
       /\ handle'[u].epoch = handle[u].epoch
       /\ handle'[u].state = "failed" =>
            \/ handle[u].state = "failed"
            \/ u = t /\ e = handle[t].epoch /\ r.at \in Over /\ r.machine = "failed"

WorkspaceMoves ==
  EffectsMove /\ revision' \in Nat \ {0} /\ commits' \in Seq(Tasks \X Epochs)

\* A step that leaves the Workspace alone.
LEMMA SameWorkspace ==
  ASSUME KernelInv, UNCHANGED <<binding, revision, commits>>
  PROVE  WorkspaceMoves /\ Effects' = Effects
  <1>1. revision \in Nat \ {0} /\ commits \in Seq(Tasks \X Epochs) /\ EffectAtMostOnce
    BY DEF KernelInv, TypeInv
  <1>2. Effects' = Effects
    BY DEF Effects
  <1>3. EffectAtMostOnce'
    BY <1>1 DEF EffectAtMostOnce
  <1> QED
    BY <1>1, <1>2, <1>3 DEF WorkspaceMoves, EffectsMove

\* A run that moves on keeps what has to be kept.
LEMMA MovesKeep ==
  ASSUME KernelInv, NEW t \in Tasks, NEW e \in Epochs, NEW r, Moves(t, e, r),
         HandlesMove(t, e, r), WorkspaceMoves, UNCHANGED setting
  PROVE  Preserved
  <1>1. /\ TypeInv /\ run \in [Tasks -> [Epochs -> Run]]
        /\ run' = [run EXCEPT ![t][e] = r] /\ r \in Run /\ Follows(run[t][e], r)
        /\ UNCHANGED <<record, binding, tracked, queues, history, host, stops, orphans>>
    BY DEF KernelInv, TypeInv, Moves, Advance
  <1>2. /\ \A u \in Tasks : u # t => run'[u] = run[u]
        /\ \A x \in Epochs : x # e => run'[t][x] = run[t][x]
        /\ run'[t][e] = r
        /\ run' \in [Tasks -> [Epochs -> Run]]
    BY <1>1
  <1>3. TypeInv'
    BY <1>1, <1>2 DEF TypeInv, HandlesMove, WorkspaceMoves
  <1>4. ASSUME NEW u \in Tasks
        PROVE  Progresses(u) /\ Remembers(u)
    <2>1. CASE u # t
      <3>1. handle'[u].epoch = handle[u].epoch
            /\ (handle'[u].state = "failed" => handle[u].state = "failed")
        BY <2>1 DEF HandlesMove
      <3> QED
        BY <1>1, <1>2, <2>1, <3>1, Unmoved
    <2>2. CASE u = t
      <3>1. RunsInv(t) /\ FirstInv(t) /\ TrackedInv(t) /\ EffectInv(t)
        BY DEF KernelInv
      <3>2. \A x \in Epochs : Follows(run[t][x], run'[t][x])
        BY <1>1, <1>2, <3>1 DEF RunsInv, Follows
      <3>3. \A x \in Epochs : run'[t][x].base \in {0, binding[t]}
        BY <1>2, <3>1 DEF EffectInv, Moves
      <3>4. \A x \in Epochs : run'[t][x].machine = "completed" =>
                                run[t][x].machine = "completed" \/ t \in Effects'
        BY <1>2 DEF Moves
      <3>5. \A x \in Epochs : (handle'[t].state = "failed" /\ x = handle[t].epoch) =>
              \/ handle[t].state = "failed"
              \/ run'[t][x].at \in Over /\ run'[t][x].machine = "failed"
        BY <1>2 DEF HandlesMove
      <3>6. run'[t][1].at \in Busy \ {"queued"} => tracked'[t] = 1
        <4>1. 1 \in Epochs
          BY <1>1, TypeFacts
        <4>2. run'[t][1].at \in Busy \ {"queued"} => run[t][1].at \in Busy \ {"queued"}
          BY <1>2, <3>2, <4>1 DEF Follows, Moves
        <4> QED
          BY <1>1, <3>1, <4>2 DEF FirstInv
      <3>7. TrackedInv(t)'
        <4>1. SUFFICES ASSUME tracked[t] # 0
                       PROVE  run'[t][tracked[t]].at \in Stages
          BY <1>1 DEF TrackedInv
        <4>2. tracked[t] \in Epochs /\ run[t][tracked[t]].at \in Stages
          BY <1>1, <3>1, <4>1, TypeFacts DEF TrackedInv, Epochs
        <4> QED
          BY <1>2, <4>2 DEF Moves
      <3>8. record[t] \in RecordState /\ handle'[t].epoch = handle[t].epoch
            /\ history' = history /\ record'[t] = record[t]
        BY <1>1, TypeFacts DEF HandlesMove
      <3>9. Progresses(t)
        BY <3>2, <3>3, <3>4, <3>5, <3>6, <3>7, <3>8 DEF Progresses
      <3> QED
        BY <2>2, <3>8, <3>9 DEF Remembers
    <2> QED
      BY <2>1, <2>2
  <1> QED
    BY <1>1, <1>3, <1>4, CarriesKeep DEF Carries, WorkspaceMoves

\* A step that leaves handles and the Workspace alone.
LEMMA QuietMoveKeeps ==
  ASSUME KernelInv, NEW t \in Tasks, NEW e \in Epochs, NEW r, Moves(t, e, r),
         UNCHANGED <<handle, revision, commits, setting>>
  PROVE  Preserved
  <1>1. handle \in [Tasks -> Handle] /\ UNCHANGED binding
    BY DEF KernelInv, TypeInv, Moves, Advance
  <1>2. HandlesMove(t, e, r)
    BY <1>1 DEF HandlesMove
  <1> QED
    BY <1>1, <1>2, SameWorkspace, MovesKeep

\* What is known of a run that can take a step.
LEMMA RunFacts ==
  ASSUME KernelInv, NEW t \in Tasks, NEW e \in Epochs
  PROVE  /\ run[t][e] \in Run /\ Shape(run[t][e]) /\ run[t][e].base \in {0, binding[t]}
         /\ binding[t] \in Nat /\ revision \in Nat \ {0}
         /\ (run[t][e].machine = "completed" => t \in Effects)
         /\ handle[t] \in Handle /\ handle \in [Tasks -> Handle]
         /\ (run[t][e].at # "none" => e <= handle[t].epoch)
  <1>1. TypeInv /\ RunsInv(t) /\ EffectInv(t)
    BY DEF KernelInv
  <1>2. handle[t].epoch \in Nat /\ e \in Nat
    BY <1>1, TypeFacts
  <1>3. Shape(run[t][e]) /\ (e > handle[t].epoch => run[t][e].at = "none")
    BY <1>1 DEF RunsInv, NoRun
  <1>4. run[t][e].base \in {0, binding[t]} /\ (run[t][e].machine = "completed" => t \in Effects)
    BY <1>1 DEF EffectInv
  <1>5. run[t][e] \in Run /\ binding[t] \in Nat /\ handle[t] \in Handle
    BY <1>1, TypeFacts
  <1> QED
    BY <1>1, <1>2, <1>3, <1>4, <1>5 DEF TypeInv

\* A run that is being tried may end as failed or canceled.
LEMMA EndMoves ==
  ASSUME KernelInv, NEW t \in Tasks, NEW e \in Epochs, run[t][e].at \in Trying,
         NEW m \in {"failed", "canceled"}, Advance(t, e, End(run[t][e], m))
  PROVE  Moves(t, e, End(run[t][e], m))
  <1> DEFINE r == End(run[t][e], m)
  <1>1. run[t][e] \in Run /\ Shape(run[t][e]) /\ run[t][e].base \in {0, binding[t]}
    BY RunFacts
  <1>2. r = [run[t][e] EXCEPT !.machine = m, !.at = "cleanup"]
    BY DEF End
  <1>3. r \in Run
    BY <1>1, <1>2 DEF Run, Busy, Trying, Ended
  <1>4. /\ r.at = "cleanup" /\ r.machine = m /\ r.base = run[t][e].base
    BY <1>1, <1>2 DEF Run
  <1>5. Follows(run[t][e], r)
    BY <1>1, <1>4 DEF Follows, Shape, Busy, Trying, Over, Unknown, Ended
  <1> QED
    BY <1>1, <1>3, <1>4, <1>5 DEF Moves, Stages, Trying

\* So it may when it is caught, and when a termination is carried out.
LEMMA CaughtIsEnd ==
  ASSUME NEW r
  PROVE  /\ \E m \in {"failed", "canceled"} : finishTermination(r) = End(r, m)
         /\ \E m \in {"failed", "canceled"} : Caught(r) = End(r, m)
  BY DEF finishTermination, Caught

\* A run that ends in a failure or a cancellation keeps the invariant (finishTermination).
LEMMA EndKeeps ==
  ASSUME KernelInv, NEW t \in Tasks, NEW e \in Epochs, run[t][e].at \in Trying,
         NEW r, Advance(t, e, r), \E m \in {"failed", "canceled"} : r = End(run[t][e], m),
         UNCHANGED <<handle, revision, commits, setting>>
  PROVE  Preserved
  <1>1. PICK m \in {"failed", "canceled"} : r = End(run[t][e], m)
    OBVIOUS
  <1>2. Moves(t, e, r)
    BY <1>1, EndMoves
  <1> QED
    BY <1>2, QuietMoveKeeps

\* From one stage to another, without an end.
LEMMA StageKeeps ==
  ASSUME KernelInv, NEW t \in Tasks, NEW e \in Epochs, run[t][e].at \in Trying,
         NEW r \in Run, Advance(t, e, r), r.at \in Trying, r.machine = run[t][e].machine,
         r.base \in {0, binding[t]},
         UNCHANGED <<handle, revision, commits, setting>>
  PROVE  Preserved
  <1>1. Shape(run[t][e]) /\ run[t][e] \in Run
    BY RunFacts
  <1>2. Follows(run[t][e], r)
    BY <1>1 DEF Follows, Shape, Busy, Trying, Over, Unknown, Ended
  <1>3. Moves(t, e, r)
    BY <1>1, <1>2 DEF Moves, Stages, Trying, Shape, Ended
  <1> QED
    BY <1>3, QuietMoveKeeps

\* ensurePreparedExecution.
LEMMA RunPrepareKeeps ==
  ASSUME KernelInv, UNCHANGED setting, NEW t \in Tasks, NEW e \in Epochs, RunPrepare(t, e)
  PROVE  Preserved
  <1> DEFINE r == [run[t][e] EXCEPT !.at = "snapshot"]
  <1>1. run[t][e] \in Run /\ run[t][e].base \in {0, binding[t]} /\ run[t][e].at \in Trying
    BY RunFacts DEF RunPrepare, Trying
  <1>2. UNCHANGED <<handle, revision, commits, setting>>
    BY DEF RunPrepare
  <1>3. CASE Advance(t, e, r)
    <2>1. r \in Run /\ r.at \in Trying /\ r.machine = run[t][e].machine
          /\ r.base = run[t][e].base
      BY <1>1 DEF Run, Busy, Trying
    <2> QED
      BY <1>1, <1>2, <1>3, <2>1, StageKeeps
  <1>4. CASE Advance(t, e, Caught(run[t][e]))
    BY <1>1, <1>2, <1>4, CaughtIsEnd, EndKeeps
  <1> QED
    BY <1>3, <1>4 DEF RunPrepare

\* createSnapshot and what else is read for the run.
LEMMA RunSnapshotKeeps ==
  ASSUME KernelInv, UNCHANGED setting, NEW t \in Tasks, NEW e \in Epochs, RunSnapshot(t, e)
  PROVE  Preserved
  <1>1. run[t][e] \in Run /\ Shape(run[t][e]) /\ run[t][e].at \in Trying
        /\ run[t][e].base \in {0, binding[t]} /\ revision \in Nat \ {0}
    BY RunFacts DEF RunSnapshot, Trying
  <1>2. UNCHANGED <<handle, revision, commits, setting>>
    BY DEF RunSnapshot
  <1>3. CASE createSnapshot(t) /\ Advance(t, e, [run[t][e] EXCEPT !.at = "spec", !.base = revision])
    <2> DEFINE r == [run[t][e] EXCEPT !.at = "spec", !.base = revision]
    <2>1. r \in Run /\ r.at \in Trying /\ r.machine = run[t][e].machine /\ r.base = revision
      BY <1>1 DEF Run, Busy, Trying
    <2> QED
      BY <1>1, <1>2, <1>3, <2>1, StageKeeps DEF createSnapshot
  <1>4. CASE Advance(t, e, Caught(run[t][e]))
    BY <1>1, <1>2, <1>4, CaughtIsEnd, EndKeeps
  <1>5. CASE /\ createSnapshot(t)
             /\ Advance(t, e, [End(run[t][e], "failed") EXCEPT !.base = revision])
    <2> DEFINE r == [End(run[t][e], "failed") EXCEPT !.base = revision]
    <2>1. r = [run[t][e] EXCEPT !.machine = "failed", !.at = "cleanup", !.base = revision]
      BY <1>1 DEF End, Run
    <2>2. /\ r \in Run /\ r.at = "cleanup" /\ r.machine = "failed" /\ r.base = binding[t]
      BY <1>1, <1>5, <2>1 DEF Run, Busy, Trying, Ended, createSnapshot
    <2>3. Follows(run[t][e], r)
      BY <1>1, <2>2 DEF Follows, Shape, Busy, Trying, Over, Unknown, Ended
    <2>4. Moves(t, e, r)
      BY <1>1, <1>5, <2>2, <2>3 DEF Moves, Stages, Trying
    <2> QED
      BY <1>2, <2>4, QuietMoveKeeps
  <1> QED
    BY <1>3, <1>4, <1>5 DEF RunSnapshot

\* createExecutionSpec and the start of the child.
LEMMA RunSpecKeeps ==
  ASSUME KernelInv, UNCHANGED setting, NEW t \in Tasks, NEW e \in Epochs, RunSpec(t, e)
  PROVE  Preserved
  <1> DEFINE r == [run[t][e] EXCEPT !.at = "marking", !.child = "running"]
  <1>1. run[t][e] \in Run /\ run[t][e].base \in {0, binding[t]} /\ run[t][e].at \in Trying
    BY RunFacts DEF RunSpec, Trying
  <1>2. UNCHANGED <<handle, revision, commits, setting>>
    BY DEF RunSpec
  <1>3. CASE Advance(t, e, finishTermination(run[t][e]))
    BY <1>1, <1>2, <1>3, CaughtIsEnd, EndKeeps
  <1>4. CASE Advance(t, e, End(run[t][e], "failed"))
    BY <1>1, <1>2, <1>4, EndKeeps
  <1>5. CASE Advance(t, e, r)
    <2>1. r \in Run /\ r.at \in Trying /\ r.machine = run[t][e].machine
          /\ r.base = run[t][e].base
      BY <1>1 DEF Run, Busy, Trying, Alive
    <2> QED
      BY <1>1, <1>2, <1>5, <2>1, StageKeeps
  <1> QED
    BY <1>3, <1>4, <1>5 DEF RunSpec

\* markRunning.
LEMMA RunMarkRunningKeeps ==
  ASSUME KernelInv, UNCHANGED setting, NEW t \in Tasks, NEW e \in Epochs, RunMarkRunning(t, e)
  PROVE  Preserved
  <1>1. /\ run[t][e] \in Run /\ Shape(run[t][e]) /\ run[t][e].at = "marking"
        /\ run[t][e].base \in {0, binding[t]} /\ run[t][e].at \in Trying
        /\ handle \in [Tasks -> Handle] /\ handle[t] \in Handle
    BY RunFacts DEF RunMarkRunning, Trying
  <1>2. UNCHANGED <<revision, commits, setting>>
    BY DEF RunMarkRunning
  <1>3. CASE handle' = [handle EXCEPT ![t] = transition(@, e, "running")]
    <2>1. SUFFICES ASSUME NEW r, Moves(t, e, r)
                   PROVE  Preserved
      <3> DEFINE r == [run[t][e] EXCEPT !.at = "execute"]
      <3>1. r \in Run /\ r.at = "execute" /\ r.machine = run[t][e].machine
            /\ r.base = run[t][e].base
        BY <1>1 DEF Run, Busy, Trying
      <3>2. Follows(run[t][e], r)
        BY <1>1, <3>1 DEF Follows, Shape, Busy, Trying, Over, Unknown, Ended
      <3>3. CASE Advance(t, e, r)
        <4>1. Moves(t, e, r)
          BY <1>1, <3>1, <3>2, <3>3 DEF Moves, Stages, Trying, Shape
        <4> QED
          BY <2>1, <4>1
      <3>4. CASE Advance(t, e, Caught(run[t][e]))
        <4>1. Moves(t, e, Caught(run[t][e]))
          BY <1>1, <3>4, CaughtIsEnd, EndMoves
        <4> QED
          BY <2>1, <4>1
      <3>5. CASE Advance(t, e, End(run[t][e], "failed"))
        <4>1. Moves(t, e, End(run[t][e], "failed"))
          BY <1>1, <3>5, EndMoves
        <4> QED
          BY <2>1, <4>1
      <3> QED
        BY <3>3, <3>4, <3>5 DEF RunMarkRunning
    <2>2. UNCHANGED binding
      BY <2>1 DEF Moves, Advance
    <2>3. /\ transition(handle[t], e, "running") \in Handle
          /\ transition(handle[t], e, "running").epoch = handle[t].epoch
          /\ transition(handle[t], e, "running").state = "failed" => handle[t].state = "failed"
      BY <1>1 DEF transition, Handle, isTerminal, Ended
    <2>4. HandlesMove(t, e, r)
      BY <1>1, <1>3, <2>3 DEF HandlesMove
    <2> QED
      BY <1>2, <2>1, <2>2, <2>4, SameWorkspace, MovesKeep
  <1>4. CASE UNCHANGED handle /\ Advance(t, e, End(run[t][e], "failed"))
    BY <1>1, <1>2, <1>4, EndKeeps
  <1> QED
    BY <1>3, <1>4 DEF RunMarkRunning

\* The stages around the end of the child.
LEMMA RunEndingKeeps ==
  ASSUME KernelInv, UNCHANGED setting, NEW t \in Tasks, NEW e \in Epochs,
         RunTerminate(t, e) \/ RunTerminated(t, e) \/ RunExited(t, e) \/ RunPersist(t, e)
  PROVE  Preserved
  <1>1. run[t][e] \in Run /\ run[t][e].base \in {0, binding[t]} /\ run[t][e].at \in Trying
    BY RunFacts DEF RunTerminate, RunTerminated, RunExited, RunPersist, Trying
  <1>2. UNCHANGED <<handle, revision, commits, setting>>
    BY DEF RunTerminate, RunTerminated, RunExited, RunPersist
  <1>3. CASE \E m \in {"failed", "canceled"} : Advance(t, e, End(run[t][e], m))
    BY <1>1, <1>2, <1>3, EndKeeps
  <1>4. CASE Advance(t, e, finishTermination(run[t][e]))
    BY <1>1, <1>2, <1>4, CaughtIsEnd, EndKeeps
  <1>5. CASE \E s \in Trying, c \in {run[t][e].child, "stopping"} :
               Advance(t, e, [run[t][e] EXCEPT !.at = s, !.child = c])
    <2>1. PICK s \in Trying, c \in {run[t][e].child, "stopping"} :
            Advance(t, e, [run[t][e] EXCEPT !.at = s, !.child = c])
      BY <1>5
    <2> DEFINE r == [run[t][e] EXCEPT !.at = s, !.child = c]
    <2>2. r \in Run /\ r.at \in Trying /\ r.machine = run[t][e].machine
          /\ r.base = run[t][e].base
      BY <1>1 DEF Run, Busy, Alive
    <2> QED
      BY <1>1, <1>2, <2>1, <2>2, StageKeeps
  <1>6. ASSUME NEW s \in Trying, Advance(t, e, [run[t][e] EXCEPT !.at = s])
        PROVE  Preserved
    <2>1. [run[t][e] EXCEPT !.at = s] = [run[t][e] EXCEPT !.at = s, !.child = run[t][e].child]
      BY <1>1 DEF Run
    <2> QED
      BY <1>5, <1>6, <2>1
  <1>7. CASE RunTerminate(t, e)
    BY <1>5, <1>7 DEF RunTerminate, Trying
  <1>8. CASE RunTerminated(t, e)
    BY <1>4, <1>8 DEF RunTerminated
  <1>9. CASE RunExited(t, e)
    BY <1>3, <1>4, <1>6, <1>9 DEF RunExited, Trying
  <1>10. CASE RunPersist(t, e)
    BY <1>3, <1>6, <1>10 DEF RunPersist, Trying
  <1> QED
    BY <1>7, <1>8, <1>9, <1>10

\* commitSnapshot: the revision it replaces is the one the Task was granted, so
\* this is the Task's first effect.
LEMMA CommitMovesWorkspace ==
  ASSUME KernelInv, NEW t \in Tasks, NEW e \in Epochs, run[t][e].at = "commit",
         commitSnapshot(t, e), UNCHANGED binding
  PROVE  WorkspaceMoves /\ t \notin Effects /\ Effects' = Effects \cup {t} /\ record[t] # "pending"
  <1>1. /\ TypeInv /\ RunsInv(t) /\ EffectInv(t) /\ EffectAtMostOnce
        /\ commits \in Seq(Tasks \X Epochs) /\ revision \in Nat \ {0}
        /\ run[t][e].base \in {0, binding[t]} /\ binding[t] \in Nat
        /\ e <= handle[t].epoch /\ handle[t].epoch \in Nat /\ e \in Nat /\ e > 0
    <2>1. TypeInv /\ RunsInv(t) /\ EffectInv(t) /\ EffectAtMostOnce
      BY DEF KernelInv
    <2>2. commits \in Seq(Tasks \X Epochs) /\ revision \in Nat \ {0}
      BY <2>1 DEF TypeInv
    <2>3. run[t][e].base \in {0, binding[t]} /\ e <= handle[t].epoch
      BY RunFacts
    <2>4. binding[t] \in Nat /\ handle[t].epoch \in Nat /\ e \in Nat /\ e > 0
      BY <2>1, TypeFacts DEF Epochs
    <2> QED
      BY <2>1, <2>2, <2>3, <2>4
  <1>2. /\ revision' = revision + 1 /\ commits' = Append(commits, <<t, e>>)
        /\ binding[t] = revision
    BY <1>1 DEF commitSnapshot
  <1>3. t \notin Effects
    BY <1>1, <1>2 DEF EffectInv
  <1>4. record[t] # "pending"
    BY <1>1 DEF RunsInv
  <1>5. /\ commits' \in Seq(Tasks \X Epochs)
        /\ DOMAIN commits = 1 .. Len(commits) /\ Len(commits) \in Nat
        /\ DOMAIN commits' = 1 .. Len(commits) + 1
        /\ \A i \in DOMAIN commits : commits'[i] = commits[i]
        /\ commits'[Len(commits) + 1] = <<t, e>>
    BY <1>1, <1>2
  <1>6. \A i \in DOMAIN commits' : i \notin DOMAIN commits => i = Len(commits) + 1
    BY <1>5
  <1>7. Effects' = Effects \cup {t}
    <2> DEFINE n == Len(commits) + 1
    <2>1. DOMAIN commits' = DOMAIN commits \cup {n}
      BY <1>5
    <2>2. \A i \in DOMAIN commits : commits'[i][1] = commits[i][1]
      BY <1>5
    <2>3. commits'[n][1] = t
      BY <1>5
    <2> HIDE DEF n
    <2>4. Effects' = {commits'[i][1] : i \in DOMAIN commits \cup {n}}
      BY <2>1 DEF Effects
    <2>5. ASSUME NEW u \in Effects'
          PROVE  u \in Effects \cup {t}
      BY <2>2, <2>3, <2>4 DEF Effects
    <2>6. ASSUME NEW u \in Effects \cup {t}
          PROVE  u \in Effects'
      BY <2>2, <2>3, <2>4 DEF Effects
    <2> QED
      BY <2>5, <2>6
  <1>8. \A i \in DOMAIN commits : commits[i][1] # t
    BY <1>3 DEF Effects
  <1>9. EffectAtMostOnce'
    BY <1>1, <1>5, <1>6, <1>8 DEF EffectAtMostOnce
  <1> QED
    BY <1>1, <1>2, <1>3, <1>4, <1>5, <1>7, <1>9 DEF WorkspaceMoves, EffectsMove

\* The commit of the Workspace, or its failure, keeps the invariant (runTask).
LEMMA RunCommitKeeps ==
  ASSUME KernelInv, UNCHANGED setting, NEW t \in Tasks, NEW e \in Epochs, RunCommit(t, e)
  PROVE  Preserved
  <1>1. /\ run[t][e] \in Run /\ Shape(run[t][e]) /\ run[t][e].at = "commit"
        /\ run[t][e].at \in Trying
        /\ handle \in [Tasks -> Handle] /\ UNCHANGED handle
    BY RunFacts DEF RunCommit, Trying
  <1> DEFINE r == [End(run[t][e], "completed") EXCEPT !.base = 0]
  <1>2. CASE commitSnapshot(t, e) /\ Advance(t, e, r)
    <2>1. UNCHANGED binding
      BY <1>2 DEF Advance
    <2>2. WorkspaceMoves /\ t \in Effects'
      BY <1>1, <1>2, <2>1, CommitMovesWorkspace
    <2>3. r = [run[t][e] EXCEPT !.machine = "completed", !.at = "cleanup", !.base = 0]
      BY <1>1 DEF End, Run
    <2>4. r \in Run /\ r.at = "cleanup" /\ r.machine = "completed" /\ r.base = 0
      BY <1>1, <2>3 DEF Run, Busy, Trying, Ended
    <2>5. Follows(run[t][e], r)
      BY <1>1, <2>4 DEF Follows, Shape, Busy, Trying, Over, Unknown, Ended
    <2>6. Moves(t, e, r)
      BY <1>1, <1>2, <2>2, <2>4, <2>5 DEF Moves, Stages
    <2>7. HandlesMove(t, e, r)
      BY <1>1 DEF HandlesMove
    <2> QED
      BY <2>2, <2>6, <2>7, MovesKeep
  <1>3. CASE Advance(t, e, End(run[t][e], "failed")) /\ UNCHANGED <<revision, commits>>
    BY <1>1, <1>3, EndKeeps
  <1> QED
    BY <1>2, <1>3 DEF RunCommit

\* The finally block: the checkpoint does not change what the handle says.
LEMMA RunCleanupKeeps ==
  ASSUME KernelInv, UNCHANGED setting, NEW t \in Tasks, NEW e \in Epochs, RunCleanup(t, e)
  PROVE  Preserved
  <1> DEFINE r == [run[t][e] EXCEPT !.at = "finish"]
  <1>1. /\ run[t][e] \in Run /\ Shape(run[t][e]) /\ run[t][e].at = "cleanup"
        /\ run[t][e].base \in {0, binding[t]}
        /\ handle \in [Tasks -> Handle] /\ handle[t] \in Handle
        /\ run[t][e].child \notin Alive
    BY RunFacts DEF RunCleanup, Alive
  <1>2. /\ r \in Run /\ r.at = "finish" /\ r.machine = run[t][e].machine
        /\ r.base = run[t][e].base /\ r.child = run[t][e].child
    BY <1>1 DEF Run, Busy
  <1>3. Follows(run[t][e], r)
    BY <1>1, <1>2 DEF Follows, Shape, Busy, Trying, Over, Unknown, Ended
  <1>4. Moves(t, e, r)
    BY <1>1, <1>2, <1>3 DEF Moves, Stages, RunCleanup
  <1>5. [handle[t] EXCEPT !.checkpoint = TRUE] \in Handle
    BY <1>1 DEF Handle
  <1>6. /\ handle' \in [Tasks -> Handle]
        /\ \A u \in Tasks : handle'[u].epoch = handle[u].epoch /\ handle'[u].state = handle[u].state
    <2>1. CASE UNCHANGED handle
      BY <1>1, <2>1
    <2>2. CASE captureCheckpoint(t, e)
      <3>1. handle' = [handle EXCEPT ![t] = [handle[t] EXCEPT !.checkpoint = TRUE]]
        BY <1>1, <2>2 DEF captureCheckpoint
      <3>2. /\ [handle[t] EXCEPT !.checkpoint = TRUE].epoch = handle[t].epoch
            /\ [handle[t] EXCEPT !.checkpoint = TRUE].state = handle[t].state
        BY <1>1 DEF Handle
      <3> QED
        BY <1>1, <1>5, <3>1, <3>2
    <2> QED
      BY <2>1, <2>2 DEF RunCleanup
  <1>7. HandlesMove(t, e, r)
    BY <1>6 DEF HandlesMove
  <1>8. UNCHANGED <<binding, revision, commits>>
    BY DEF RunCleanup, Advance
  <1> QED
    BY <1>4, <1>7, <1>8, SameWorkspace, MovesKeep

\* The handle takes the end of the machine, if this is still its execution.
LEMMA RunFinishKeeps ==
  ASSUME KernelInv, UNCHANGED setting, NEW t \in Tasks, NEW e \in Epochs, RunFinish(t, e)
  PROVE  Preserved
  <1> DEFINE r == [run[t][e] EXCEPT !.at = "discard"]
             m == run[t][e].machine
             h == transition(handle[t], e, m)
  <1>1. /\ run[t][e] \in Run /\ Shape(run[t][e]) /\ run[t][e].at = "finish"
        /\ run[t][e].base \in {0, binding[t]}
        /\ handle \in [Tasks -> Handle] /\ handle[t] \in Handle
    BY RunFacts DEF RunFinish
  <1>2. r \in Run /\ r.at = "discard" /\ r.machine = m /\ r.base = run[t][e].base
        /\ r.child = run[t][e].child
    BY <1>1 DEF Run, Over
  <1>3. m \in Ended /\ run[t][e].child \notin Alive
    BY <1>1 DEF Shape, Trying, Ended
  <1>4. Follows(run[t][e], r)
    BY <1>1, <1>2, <1>3 DEF Follows, Shape, Busy, Trying, Over, Unknown, Ended
  <1>5. Moves(t, e, r)
    <2>1. r.machine = "completed" => run[t][e].machine = "completed"
      BY <1>2
    <2> QED
      BY <1>1, <1>2, <1>4, <2>1 DEF Moves, Stages, RunFinish
  <1>6. /\ h \in Handle /\ h.epoch = handle[t].epoch
        /\ h.state = "failed" => handle[t].state = "failed" \/ (handle[t].epoch = e /\ m = "failed")
    BY <1>1, <1>3 DEF transition, Handle, isTerminal, Ended
  <1>7. handle' = [handle EXCEPT ![t] = h]
    BY DEF RunFinish
  <1>8. HandlesMove(t, e, r)
    <2> HIDE DEF h, r, m
    <2>1. handle' \in [Tasks -> Handle] /\ handle'[t] = h
          /\ \A u \in Tasks : u # t => handle'[u] = handle[u]
      BY <1>1, <1>6, <1>7
    <2>2. r.at \in Over /\ r.machine = m
      BY <1>2 DEF Over
    <2> QED
      BY <1>6, <2>1, <2>2 DEF HandlesMove
  <1>9. UNCHANGED <<binding, revision, commits>>
    BY DEF RunFinish, Advance
  <1> QED
    BY <1>5, <1>8, <1>9, SameWorkspace, MovesKeep

\* The child and the timers, at any stage that has them.
LEMMA ChildAndTimersKeep ==
  ASSUME KernelInv, UNCHANGED setting, NEW t \in Tasks, NEW e \in Epochs,
         ChildExits(t, e) \/ TimeoutFires(t, e) \/ OutputLimitReached(t, e)
  PROVE  Preserved
  <1>1. /\ run[t][e] \in Run /\ Shape(run[t][e]) /\ run[t][e].base \in {0, binding[t]}
    BY RunFacts
  <1>2. UNCHANGED <<handle, revision, commits, setting>>
    BY DEF ChildExits, TimeoutFires, OutputLimitReached
  <1>3. run[t][e].at \in Trying \cup {"cleanup"}
    BY <1>1 DEF ChildExits, TimeoutFires, OutputLimitReached, Shape, Trying
  <1>4. PICK r : /\ Advance(t, e, r)
                 /\ \/ r = [run[t][e] EXCEPT !.child = "gone"]
                    \/ \E x \in {"timeout", "output_limit"} : r = [run[t][e] EXCEPT !.reason = x]
                    \/ r = run[t][e]
    BY DEF ChildExits, TimeoutFires, OutputLimitReached, requestTermination
  <1>5. /\ r \in Run /\ r.at = run[t][e].at /\ r.machine = run[t][e].machine
        /\ r.base = run[t][e].base /\ (r.child \in Alive => run[t][e].child \in Alive)
    BY <1>1, <1>4 DEF Run, Alive
  <1>6. Follows(run[t][e], r)
    BY <1>1, <1>3, <1>5 DEF Follows, Shape, Busy, Trying, Over, Unknown, Ended
  <1>7. Moves(t, e, r)
    BY <1>1, <1>3, <1>4, <1>5, <1>6 DEF Moves, Stages, Trying
  <1> QED
    BY <1>2, <1>7, QuietMoveKeeps

-----------------------------------------------------------------------------
(* The history of the kernel, and the end of a run.                         *)

\* A Task that leaves the history has ended and is not active, and none does
\* when there is room for all.
LEMMA PruneKeeps ==
  ASSUME TypeInv, NEW r, NEW a, NEW t \in Tasks
  PROVE  LET h == pruneHistory(history, r, a) IN
         /\ h.epoch \in [Tasks -> 0 .. MaxEpoch]
         /\ h.epoch[t] \in {0, history.epoch[t]}
         /\ (a[t] # 0 \/ r[t][history.epoch[t]].machine \notin Ended) =>
              h.epoch[t] = history.epoch[t]
         /\ Retains => h.epoch = history.epoch
  <1> DEFINE Old == {i \in DOMAIN history.order :
                       LET u == history.order[i] IN
                       r[u][history.epoch[u]].machine \in Ended /\ a[u] = 0}
             Size == Cardinality({u \in Tasks : history.epoch[u] # 0})
             Gone == {i \in Old : MaxRetained + Cardinality({j \in Old : j < i}) < Size}
             gone == {history.order[i] : i \in Gone}
             h == pruneHistory(history, r, a)
  <1>1. history.epoch \in [Tasks -> 0 .. MaxEpoch] /\ 0 \in 0 .. MaxEpoch
    BY KernelAssumption DEF TypeInv
  <1>2. h = IF Size <= MaxRetained THEN history ELSE Forgetting(history, gone)
    BY DEF pruneHistory
  <1>3. t \in gone => r[t][history.epoch[t]].machine \in Ended /\ a[t] = 0
    OBVIOUS
  <1>4. Retains => Size <= MaxRetained
    <2>1. {u \in Tasks : history.epoch[u] # 0} \subseteq Tasks /\ IsFiniteSet(Tasks)
      BY KernelAssumption
    <2>2. Size <= Cardinality(Tasks) /\ Size \in Nat /\ Cardinality(Tasks) \in Nat
      BY <2>1, FS_Subset, FS_CardinalityType
    <2> QED
      BY <2>2, KernelAssumption DEF Retains
  <1> HIDE DEF gone, Size, h
  <1>5. Forgetting(history, gone).epoch = [u \in Tasks |-> IF u \in gone THEN 0 ELSE history.epoch[u]]
    BY DEF Forgetting
  <1>6. h.epoch \in [Tasks -> 0 .. MaxEpoch] /\ (h.epoch[t] = history.epoch[t] \/ (h.epoch[t] = 0 /\ t \in gone))
    BY <1>1, <1>2, <1>5
  <1>7. Retains => h.epoch = history.epoch
    BY <1>2, <1>4
  <1> QED
    BY <1>3, <1>6, <1>7 DEF h

\* The queued entry of a Task, when it has one.
LEMMA QueuedFacts ==
  ASSUME NEW t \in Tasks, Queued(t)
  PROVE  QueuedEpoch(t) \in Epochs /\ run[t][QueuedEpoch(t)].at = "queued"
  BY DEF Queued, QueuedEpoch

\* The run leaves the active map, history is pruned, and waiting runs start.
LEMMA RunDiscardKeeps ==
  ASSUME KernelInv, UNCHANGED setting, NEW t \in Tasks, NEW e \in Epochs, RunDiscard(t, e)
  PROVE  Preserved
  <1> DEFINE free == [tracked EXCEPT ![t] = 0]
             started == drainQueues(free)
             last == [NoRun EXCEPT !.at = "done", !.machine = run[t][e].machine,
                        !.child = IF run[t][e].child \in Alive THEN "running" ELSE "none"]
             ended == [run EXCEPT ![t][e] = last]
  <1>1. /\ TypeInv /\ run \in [Tasks -> [Epochs -> Run]] /\ tracked \in [Tasks -> 0 .. MaxEpoch]
        /\ run[t][e] \in Run /\ Shape(run[t][e]) /\ run[t][e].at = "discard"
    BY RunFacts DEF RunDiscard, KernelInv, TypeInv
  <1>2. /\ tracked' = [u \in Tasks |-> IF u \in started THEN QueuedEpoch(u) ELSE free[u]]
        /\ run' = [u \in Tasks |->
                     IF u \in started
                     THEN [ended[u] EXCEPT ![QueuedEpoch(u)].at = "prepare",
                                           ![QueuedEpoch(u)].machine = "working"]
                     ELSE ended[u]]
        /\ history' = pruneHistory(history, ended, free)
        /\ UNCHANGED <<record, binding, handle, revision, commits, host, stops, orphans>>
    BY DEF RunDiscard
  <1>3. \A u \in Tasks : u \in started => Queued(u)
    BY DEF drainQueues
  <1>4. /\ last \in Run /\ last.at = "done" /\ last.machine = run[t][e].machine
        /\ last.base = 0 /\ last.child = "none" /\ Follows(run[t][e], last)
    <2>1. run[t][e].child \notin Alive /\ run[t][e].machine \in Ended
      BY <1>1 DEF Shape, Trying, Ended, Alive
    <2>2. last = [NoRun EXCEPT !.at = "done", !.machine = run[t][e].machine, !.child = "none"]
      BY <2>1
    <2> HIDE DEF last
    <2>3. NoRun \in Run /\ NoRun.base = 0
      BY DEF NoRun, Run, Over, Unknown
    <2>4. /\ last \in Run /\ last.at = "done" /\ last.machine = run[t][e].machine
          /\ last.base = 0 /\ last.child = "none"
      BY <2>1, <2>2, <2>3 DEF Run, Over
    <2> QED
      BY <1>1, <2>1, <2>4 DEF Follows, Shape, Busy, Trying, Over, Unknown, Ended, Alive
  <1> HIDE DEF last, started
  <1>5. /\ ended \in [Tasks -> [Epochs -> Run]]
        /\ ended[t][e] = last
        /\ \A u \in Tasks : \A x \in Epochs : u # t \/ x # e => ended[u][x] = run[u][x]
    BY <1>1, <1>4
  <1> HIDE DEF ended
  <1>6. ASSUME NEW u \in Tasks, u \in started
        PROVE  LET q == QueuedEpoch(u) IN
               /\ q \in Epochs /\ run[u][q].at = "queued"
               /\ run'[u] \in [Epochs -> Run]
               /\ run'[u][q].at = "prepare" /\ run'[u][q].machine = "working"
               /\ run'[u][q].base = run[u][q].base /\ Follows(run[u][q], run'[u][q])
               /\ \A x \in Epochs : x # q => run'[u][x] = ended[u][x]
    <2> DEFINE q == QueuedEpoch(u)
               r == [run[u][q] EXCEPT !.at = "prepare", !.machine = "working"]
    <2>1. q \in Epochs /\ run[u][q].at = "queued"
      BY <1>3, <1>6, QueuedFacts
    <2>2. run[u][q] \in Run /\ Shape(run[u][q]) /\ ended[u][q] = run[u][q]
      BY <1>1, <1>5, <2>1, RunFacts
    <2>3. r \in Run /\ r.at = "prepare" /\ r.machine = "working" /\ r.base = run[u][q].base
      BY <2>2 DEF Run, Busy, Trying
    <2>4. Follows(run[u][q], r)
      BY <2>1, <2>2, <2>3 DEF Follows, Shape, Busy, Trying, Over, Unknown, Ended
    <2>5. ended[u] \in [Epochs -> Run]
      BY <1>5
    <2>6. run'[u] = [ended[u] EXCEPT ![q].at = "prepare", ![q].machine = "working"]
      BY <1>2, <1>6
    <2> HIDE DEF q
    <2>7. run'[u] = [ended[u] EXCEPT ![q] = r]
      BY <2>1, <2>2, <2>5, <2>6
    <2> HIDE DEF r
    <2>8. run'[u][q] = r /\ run'[u] \in [Epochs -> Run]
          /\ \A x \in Epochs : x # q => run'[u][x] = ended[u][x]
      BY <2>1, <2>3, <2>5, <2>7
    <2> QED
      BY <2>1, <2>3, <2>4, <2>8 DEF q
  <1>7. \A u \in Tasks : u \notin started => run'[u] = ended[u]
    BY <1>2
  <1>8. ASSUME NEW u \in Tasks
        PROVE  run'[u] \in [Epochs -> Run]
    <2>1. CASE u \in started
      BY <1>6, <2>1
    <2>2. CASE u \notin started
      BY <1>5, <1>7, <2>2
    <2> QED
      BY <2>1, <2>2
  <1>9. run' \in [Tasks -> [Epochs -> Run]] /\ tracked' \in [Tasks -> 0 .. MaxEpoch]
    <2>1. DOMAIN run' = Tasks /\ run' = [u \in Tasks |-> run'[u]]
      BY <1>2
    <2>2. \A u \in Tasks : tracked'[u] \in 0 .. MaxEpoch
      <3>1. ASSUME NEW u \in Tasks, u \in started
            PROVE  tracked'[u] \in 0 .. MaxEpoch
        <4>1. tracked'[u] = QueuedEpoch(u) /\ QueuedEpoch(u) \in Epochs
          BY <1>2, <1>6, <3>1
        <4> QED
          BY <4>1, KernelAssumption DEF Epochs
      <3>2. ASSUME NEW u \in Tasks, u \notin started
            PROVE  tracked'[u] \in 0 .. MaxEpoch
        BY <1>1, <1>2, <3>2, KernelAssumption
      <3> QED
        BY <3>1, <3>2
    <2> QED
      BY <1>2, <1>8, <2>1, <2>2
  <1>10. history'.epoch \in [Tasks -> 0 .. MaxEpoch]
    BY <1>1, <1>2, PruneKeeps
  <1>11. TypeInv'
    BY <1>1, <1>2, <1>9, <1>10 DEF TypeInv
  <1>12. ASSUME NEW u \in Tasks, NEW x \in Epochs
         PROVE  /\ Follows(run[u][x], run'[u][x])
                /\ run'[u][x].base \in {0, run[u][x].base}
                /\ run'[u][x].machine = "completed" => run[u][x].machine = "completed"
    <2>1. CASE u \in started /\ x = QueuedEpoch(u)
      <3>1. /\ Follows(run[u][x], run'[u][x]) /\ run'[u][x].base = run[u][x].base
            /\ run'[u][x].machine = "working"
        BY <1>6, <2>1
      <3> QED
        BY <3>1
    <2>2. CASE u = t /\ x = e /\ ~(u \in started /\ x = QueuedEpoch(u))
      <3>1. run'[u][x] = ended[u][x]
        BY <1>6, <1>7, <2>2
      <3>2. run'[u][x] = last
        BY <1>5, <2>2, <3>1
      <3> QED
        BY <1>4, <2>2, <3>2
    <2>3. CASE ~(u = t /\ x = e) /\ ~(u \in started /\ x = QueuedEpoch(u))
      <3>1. run'[u][x] = ended[u][x]
        BY <1>6, <1>7, <2>3
      <3>2. run'[u][x] = run[u][x]
        BY <1>5, <2>3, <3>1
      <3>3. Shape(run[u][x])
        BY RunFacts
      <3> QED
        BY <3>2, <3>3 DEF Follows
    <2> QED
      BY <2>1, <2>2, <2>3
  <1>13. ASSUME NEW u \in Tasks, run[u][1].at \in Busy
         PROVE  /\ history.epoch[u] = 1 /\ (run[u][1].at # "queued" => tracked[u] = 1)
                /\ \A x \in Epochs : x # 1 => run[u][x] = NoRun
                /\ u = t => e = 1
    <2>1. FirstInv(u) /\ RunsInv(u) /\ 1 \in Epochs /\ Epochs \subseteq Nat
      BY <1>1, TypeFacts DEF KernelInv
    <2>2. \A x \in Epochs : x # 1 => x > 1
      BY <2>1 DEF Epochs
    <2>3. \A x \in Epochs : x # 1 => run[u][x] = NoRun
      BY <1>13, <2>1, <2>2 DEF FirstInv, RunsInv
    <2> QED
      BY <1>1, <1>13, <2>1, <2>3 DEF FirstInv, NoRun
  <1>14. ASSUME NEW u \in Tasks, run'[u][1].at \in Busy
         PROVE  /\ history'.epoch[u] = history.epoch[u]
                /\ run'[u][1].at # "queued" => tracked'[u] = 1
    <2>1. 1 \in Epochs /\ run[u][1].at \in Busy
      BY <1>1, <1>12, <1>14, TypeFacts DEF Follows
    <2>2. u # t
      <3>1. u = t => e = 1
        BY <1>13, <2>1
      <3> QED
        BY <1>1, <2>1, <3>1 DEF Busy, Trying
    <2>3. free[u] = tracked[u] /\ ended[u][1] = run[u][1]
      BY <1>1, <1>5, <2>1, <2>2
    <2>4. history'.epoch[u] = history.epoch[u]
      <3>1. CASE run[u][1].at = "queued"
        <4>1. run[u][1].machine \notin Ended
          BY <2>1, <3>1, RunFacts DEF Shape, Ended
        <4>2. ended[u][history.epoch[u]].machine \notin Ended
          BY <1>13, <2>1, <2>3, <4>1
        <4>3. pruneHistory(history, ended, free).epoch[u] = history.epoch[u]
          <5> HIDE DEF free
          <5> QED
            BY <1>1, <4>2, PruneKeeps
        <4> QED
          BY <1>2, <4>3
      <3>2. CASE run[u][1].at # "queued"
        <4>1. free[u] # 0
          BY <1>13, <2>1, <2>3, <3>2
        <4>2. pruneHistory(history, ended, free).epoch[u] = history.epoch[u]
          <5> HIDE DEF free
          <5> QED
            BY <1>1, <4>1, PruneKeeps
        <4> QED
          BY <1>2, <4>2
      <3> QED
        BY <3>1, <3>2
    <2>5. ASSUME run'[u][1].at # "queued"
          PROVE  tracked'[u] = 1
      <3>1. CASE u \in started
        <4>1. QueuedEpoch(u) = 1
          <5>1. QueuedEpoch(u) \in Epochs /\ run[u][QueuedEpoch(u)].at = "queued"
            BY <1>6, <3>1
          <5>2. \A x \in Epochs : x # 1 => run[u][x] = NoRun
            BY <1>13, <2>1
          <5> QED
            BY <5>1, <5>2 DEF NoRun
        <4> QED
          BY <1>2, <3>1, <4>1
      <3>2. CASE u \notin started
        <4>1. run[u][1].at # "queued"
          BY <1>7, <2>3, <2>5, <3>2
        <4> QED
          BY <1>2, <1>13, <2>1, <2>3, <3>2, <4>1
      <3> QED
        BY <3>1, <3>2
    <2> QED
      BY <2>4, <2>5
  <1>15. ASSUME NEW u \in Tasks
         PROVE  TrackedInv(u)'
    <2>1. SUFFICES ASSUME tracked'[u] # 0
                   PROVE  run'[u][tracked'[u]].at \in Stages
      BY DEF TrackedInv
    <2>2. CASE u \in started
      <3>1. tracked'[u] = QueuedEpoch(u) /\ run'[u][QueuedEpoch(u)].at = "prepare"
        BY <1>2, <1>6, <2>2
      <3> QED
        BY <3>1 DEF Stages, Trying
    <2>3. CASE u \notin started
      <3>1. tracked'[u] = free[u] /\ u # t /\ free[u] = tracked[u]
        BY <1>1, <1>2, <2>1, <2>3
      <3>2. TrackedInv(u) /\ tracked[u] \in Epochs
        BY <1>1, <2>1, <3>1, TypeFacts DEF KernelInv, Epochs
      <3>3. run'[u][tracked[u]] = run[u][tracked[u]]
        BY <1>5, <1>7, <2>3, <3>1, <3>2
      <3> QED
        BY <2>1, <3>1, <3>2, <3>3 DEF TrackedInv
    <2> QED
      BY <2>2, <2>3
  <1>16. ASSUME NEW u \in Tasks
         PROVE  Progresses(u)
    <2>1. history'.epoch[u] \in {0, history.epoch[u]}
      BY <1>1, <1>2, PruneKeeps
    <2>2. \A x \in Epochs : run[u][x].base \in {0, binding[u]}
      BY RunFacts
    <2>3. record[u] \in RecordState
      BY <1>1, TypeFacts
    <2> QED
      BY <1>2, <1>12, <1>14, <1>15, <2>1, <2>2, <2>3 DEF Progresses
  <1>17. Retains => \A u \in Tasks : Remembers(u)
    BY <1>1, <1>2, PruneKeeps DEF Remembers
  <1>18. EffectsMove
    BY <1>2, SameWorkspace DEF WorkspaceMoves
  <1> QED
    BY <1>2, <1>11, <1>16, <1>17, <1>18, CarriesKeep DEF Carries

-----------------------------------------------------------------------------
(* The user, the Task transport, and the runtime.                           *)

\* What cancel and shutdown do to a handle never makes it fail.
LEMMA HandleFacts ==
  ASSUME KernelInv, NEW t \in Tasks, NEW e \in Nat
  PROVE  /\ cancelHandle(handle[t]) \in Handle
         /\ cancelHandle(handle[t]).epoch = handle[t].epoch
         /\ cancelHandle(handle[t]).state = "failed" => handle[t].state = "failed"
         /\ transition(handle[t], e, "canceled") \in Handle
         /\ transition(handle[t], e, "canceled").epoch = handle[t].epoch
         /\ transition(handle[t], e, "canceled").state = "failed" => handle[t].state = "failed"
  <1>1. handle[t] \in Handle
    BY TypeFacts DEF KernelInv
  <1> QED
    BY <1>1 DEF cancelHandle, transition, Handle, isTerminal, Ended

\* A run that is told to end.
LEMMA TerminationMoves ==
  ASSUME NEW q \in Run, Shape(q), q.at \in Stages,
         NEW x \in {"cancel", "shutdown"}, NEW c \in {q.child, "gone"},
         NEW r, r = [requestTermination(q, x) EXCEPT !.child = c]
  PROVE  /\ r \in Run /\ Follows(q, r) /\ r.at = q.at /\ r.base = q.base
         /\ r.machine = q.machine
  <1>1. requestTermination(q, x) = q \/ requestTermination(q, x) = [q EXCEPT !.reason = x]
    BY DEF requestTermination
  <1>2. /\ r \in Run /\ r.at = q.at /\ r.base = q.base /\ r.machine = q.machine
        /\ r.child \in {q.child, "gone"}
    BY <1>1 DEF Run, Alive
  <1> QED
    BY <1>2 DEF Follows, Shape, Stages, Busy, Trying, Over, Unknown, Ended, Alive

\* A waiting run that is canceled.
LEMMA CanceledMoves ==
  ASSUME NEW q \in Run, Shape(q), q.at = "queued",
         NEW r, r = [q EXCEPT !.at = "done", !.machine = "canceled"]
  PROVE  /\ r \in Run /\ Follows(q, r) /\ r.at = "done" /\ r.base = q.base
         /\ r.machine = "canceled"
  <1>1. /\ r \in Run /\ r.at = "done" /\ r.base = q.base /\ r.machine = "canceled"
        /\ r.child = q.child
    BY DEF Run, Over, Ended
  <1> QED
    BY <1>1 DEF Follows, Shape, Busy, Trying, Over, Unknown, Ended

\* kernel.cancel of a waiting Task.
LEMMA CancelQueuedKeeps ==
  ASSUME KernelInv, UNCHANGED <<setting, binding, tracked, revision, commits, host, stops, orphans>>,
         NEW t \in Tasks, Queued(t),
         record[t] \in {"working", "input_required"},
         record' = [record EXCEPT ![t] = "canceled"],
         run' = [run EXCEPT ![t][QueuedEpoch(t)].at = "done",
                            ![t][QueuedEpoch(t)].machine = "canceled"],
         handle' = [handle EXCEPT ![t] = transition(@, QueuedEpoch(t), "canceled")],
         history' = pruneHistory(history, run', tracked)
  PROVE  Preserved
  <1> DEFINE e == QueuedEpoch(t)
             r == [run[t][e] EXCEPT !.at = "done", !.machine = "canceled"]
  <1>1. /\ TypeInv /\ run \in [Tasks -> [Epochs -> Run]] /\ handle \in [Tasks -> Handle]
        /\ e \in Epochs /\ run[t][e].at = "queued" /\ run[t][e] \in Run /\ Shape(run[t][e])
        /\ record \in [Tasks -> RecordState] /\ e \in Nat
    BY QueuedFacts, RunFacts DEF KernelInv, TypeInv, Epochs
  <1> HIDE DEF e
  <1>2. /\ r \in Run /\ Follows(run[t][e], r) /\ r.at = "done" /\ r.base = run[t][e].base
        /\ r.machine = "canceled"
    BY <1>1, CanceledMoves
  <1>3. run' = [run EXCEPT ![t][e] = r]
    BY <1>1 DEF e
  <1> HIDE DEF r
  <1>4. /\ run' \in [Tasks -> [Epochs -> Run]] /\ run'[t][e] = r
        /\ \A u \in Tasks, x \in Epochs : u # t \/ x # e => run'[u][x] = run[u][x]
        /\ \A u \in Tasks : u # t => run'[u] = run[u]
    <2> DEFINE rt == [run[t] EXCEPT ![e] = r]
    <2>1. run[t] \in [Epochs -> Run] /\ run' = [run EXCEPT ![t] = rt]
      BY <1>1, <1>3
    <2>2. rt \in [Epochs -> Run] /\ rt[e] = r /\ \A x \in Epochs : x # e => rt[x] = run[t][x]
      BY <1>1, <1>2, <2>1
    <2> HIDE DEF rt
    <2>3. run' \in [Tasks -> [Epochs -> Run]] /\ run'[t] = rt
      BY <1>1, <2>1, <2>2
    <2>4. \A u \in Tasks : u # t => run'[u] = run[u]
      BY <1>1, <2>1
    <2> QED
      BY <2>2, <2>3, <2>4
  <1>5. /\ handle' \in [Tasks -> Handle]
        /\ \A u \in Tasks : /\ handle'[u].epoch = handle[u].epoch
                            /\ handle'[u].state = "failed" => handle[u].state = "failed"
    <2> DEFINE h == transition(handle[t], e, "canceled")
    <2>1. /\ h \in Handle /\ h.epoch = handle[t].epoch
          /\ h.state = "failed" => handle[t].state = "failed"
      BY <1>1, HandleFacts
    <2>2. handle' = [handle EXCEPT ![t] = h]
      BY DEF e
    <2> HIDE DEF h
    <2> QED
      BY <1>1, <2>1, <2>2
  <1>6. /\ record' \in [Tasks -> RecordState] /\ record'[t] = "canceled"
        /\ \A u \in Tasks : u # t => record'[u] = record[u]
    BY <1>1 DEF RecordState, Ended
  <1>7. TypeInv'
    <2>1. history'.epoch \in [Tasks -> 0 .. MaxEpoch]
      BY <1>1, PruneKeeps
    <2> QED
      BY <1>1, <1>4, <1>5, <1>6, <2>1 DEF TypeInv
  <1>8. ASSUME NEW u \in Tasks
        PROVE  Progresses(u)
    <2>1. RunsInv(u) /\ FirstInv(u) /\ TrackedInv(u) /\ EffectInv(u) /\ 1 \in Epochs
      BY <1>1, TypeFacts DEF KernelInv
    <2>2. ASSUME NEW x \in Epochs
          PROVE  /\ Follows(run[u][x], run'[u][x]) /\ run'[u][x].base = run[u][x].base
                 /\ (run'[u][x].machine = "completed" => run[u][x].machine = "completed")
                 /\ (run[u][x].at # "queued" => run'[u][x] = run[u][x])
      <3>1. CASE u = t /\ x = e
        BY <1>1, <1>2, <1>4, <3>1
      <3>2. CASE u # t \/ x # e
        <4>1. run'[u][x] = run[u][x] /\ Shape(run[u][x])
          BY <1>4, <2>1, <3>2 DEF RunsInv
        <4> QED
          BY <4>1 DEF Follows
      <3> QED
        BY <3>1, <3>2
    <2>3. ASSUME run'[u][1].at \in Busy
          PROVE  history'.epoch[u] = history.epoch[u] /\ (run'[u][1].at # "queued" => tracked[u] = 1)
      <3>1. run[u][1].at \in Busy /\ (run'[u][1].at # "queued" => run[u][1].at # "queued")
        BY <2>1, <2>2, <2>3, <1>1, <1>2, <1>4 DEF Follows, Busy, Trying
      <3>2. history.epoch[u] = 1 /\ (run[u][1].at # "queued" => tracked[u] = 1)
        BY <2>1, <3>1 DEF FirstInv
      <3>3. tracked[u] # 0 \/ run'[u][history.epoch[u]].machine \notin Ended
        <4>1. CASE run'[u][1].at = "queued"
          BY <2>1, <2>2, <3>2, <4>1 DEF Follows, Shape, Ended
        <4>2. CASE run'[u][1].at # "queued"
          BY <3>1, <3>2, <4>2
        <4> QED
          BY <4>1, <4>2
      <3>4. history'.epoch[u] = history.epoch[u]
        <4> DEFINE after == run'
        <4>1. tracked[u] # 0 \/ after[u][history.epoch[u]].machine \notin Ended
          BY <3>3
        <4>2. history' = pruneHistory(history, after, tracked)
          OBVIOUS
        <4> HIDE DEF after
        <4>3. pruneHistory(history, after, tracked).epoch[u] = history.epoch[u]
          BY <1>1, <4>1, PruneKeeps
        <4> QED
          BY <4>2, <4>3
      <3> QED
        BY <3>1, <3>2, <3>4
    <2>4. TrackedInv(u)'
      <3>1. SUFFICES ASSUME tracked[u] # 0
                     PROVE  run'[u][tracked[u]].at \in Stages
        BY DEF TrackedInv
      <3>2. tracked[u] \in Epochs /\ run[u][tracked[u]].at \in Stages
        BY <1>1, <2>1, <3>1, TypeFacts DEF TrackedInv, Epochs
      <3> QED
        BY <2>2, <3>2 DEF Stages, Trying
    <2>5. history'.epoch[u] \in {0, history.epoch[u]}
      BY <1>1, PruneKeeps
    <2>6. record'[u] = record[u] \/ ("pending" \notin {record[u], record'[u]} /\ record'[u] = "canceled")
      BY <1>6
    <2> QED
      BY <1>5, <2>1, <2>2, <2>3, <2>4, <2>5, <2>6 DEF Progresses, EffectInv
  <1>9. Retains => \A u \in Tasks : Remembers(u)
    <2>1. Retains => history'.epoch = history.epoch
      BY <1>1, PruneKeeps
    <2> QED
      BY <1>6, <2>1 DEF Remembers
  <1>10. EffectsMove
    BY SameWorkspace DEF WorkspaceMoves
  <1> QED
    BY <1>7, <1>8, <1>9, <1>10, CarriesKeep DEF Carries

\* Record t may show input_required now.
MayWait(t) ==
  /\ MayResume(t)'
  /\ (Retains /\ RetainedInv) =>
       \A e \in Epochs : e = handle[t].epoch =>
         run'[t][e].at \in Over /\ run'[t][e].machine \in Unknown \cup {"failed"}

\* A step that reports Tasks, or tells runs to end, and starts nothing.
LEMMA ReportsKeep ==
  ASSUME KernelInv, UNCHANGED <<setting, binding, tracked, history, revision, commits>>,
         host' = "down" => host = "down",
         run' \in [Tasks -> [Epochs -> Run]],
         record' \in [Tasks -> RecordState],
         handle' \in [Tasks -> Handle],
         \A u \in Tasks, x \in Epochs :
           /\ Follows(run[u][x], run'[u][x])
           /\ run'[u][x].base = run[u][x].base
           /\ run'[u][x].machine = "completed" => run[u][x].machine = "completed"
           /\ run[u][x].at = "queued" => run'[u][x].at \notin Busy \ {"queued"}
           /\ run[u][x].at \in Stages => run'[u][x].at \in Stages,
         \A u \in Tasks :
           /\ handle'[u].epoch = handle[u].epoch
           /\ handle'[u].state = "failed" => handle[u].state = "failed"
           /\ record'[u] = record[u] \/ "pending" \notin {record[u], record'[u]}
           /\ (record'[u] = "input_required" /\ record[u] # "input_required") => MayWait(u)
  PROVE  Preserved
  <1>1. TypeInv /\ TypeInv'
    BY DEF KernelInv, TypeInv
  <1>2. ASSUME NEW u \in Tasks
        PROVE  Progresses(u)
    <2>1. RunsInv(u) /\ FirstInv(u) /\ TrackedInv(u) /\ EffectInv(u) /\ 1 \in Epochs
      BY <1>1, TypeFacts DEF KernelInv
    <2>2. \A x \in Epochs : run'[u][x].base \in {0, binding[u]}
      BY <2>1 DEF EffectInv
    <2>3. run'[u][1].at \in Busy \ {"queued"} => tracked'[u] = 1
      <3>1. run'[u][1].at \in Busy \ {"queued"} => run[u][1].at \in Busy \ {"queued"}
        BY <2>1 DEF Follows
      <3> QED
        BY <2>1, <3>1 DEF FirstInv
    <2>4. TrackedInv(u)'
      <3>1. SUFFICES ASSUME tracked[u] # 0
                     PROVE  run'[u][tracked[u]].at \in Stages
        BY DEF TrackedInv
      <3>2. tracked[u] \in Epochs /\ run[u][tracked[u]].at \in Stages
        BY <1>1, <2>1, <3>1, TypeFacts DEF TrackedInv, Epochs
      <3> QED
        BY <3>2
    <2>5. (record'[u] = "input_required" /\ record[u] # "input_required") => MayResume(u)'
      BY DEF MayWait
    <2> QED
      BY <2>2, <2>3, <2>4, <2>5 DEF Progresses
  <1>3. (Retains /\ RetainedInv) => \A u \in Tasks : Remembers(u)
    BY DEF Remembers, MayWait
  <1>4. EffectsMove
    BY SameWorkspace DEF WorkspaceMoves
  <1> QED
    BY <1>1, <1>2, <1>3, <1>4, CarriesKeep DEF Carries

\* Runs that stay what they are.
LEMMA SameRuns ==
  ASSUME KernelInv, run' = run
  PROVE  /\ run' \in [Tasks -> [Epochs -> Run]]
         /\ \A u \in Tasks, x \in Epochs :
              /\ Follows(run[u][x], run'[u][x])
              /\ run'[u][x].base = run[u][x].base
              /\ run'[u][x].machine = "completed" => run[u][x].machine = "completed"
              /\ run[u][x].at = "queued" => run'[u][x].at \notin Busy \ {"queued"}
              /\ run[u][x].at \in Stages => run'[u][x].at \in Stages
  <1>1. \A u \in Tasks, x \in Epochs : Shape(run[u][x])
    BY RunFacts
  <1> QED
    BY <1>1 DEF KernelInv, TypeInv, Follows

\* kernel.cancel of a Task that runs.
LEMMA CancelWorkingKeeps ==
  ASSUME KernelInv, UNCHANGED <<setting, binding, tracked, queues, history, revision, commits,
                                host, stops, orphans>>,
         NEW t \in Tasks, Working(t),
         record[t] \in {"working", "input_required"},
         record' = [record EXCEPT ![t] = "canceled"],
         handle' = [handle EXCEPT ![t] = cancelHandle(@)],
         run' = [run EXCEPT ![t][tracked[t]] = requestTermination(@, "cancel")]
  PROVE  Preserved
  <1> DEFINE e == tracked[t]
             r == [requestTermination(run[t][e], "cancel") EXCEPT !.child = run[t][e].child]
             h == cancelHandle(handle[t])
             rt == [run[t] EXCEPT ![e] = r]
  <1>1. /\ TypeInv /\ run \in [Tasks -> [Epochs -> Run]] /\ handle \in [Tasks -> Handle]
        /\ record \in [Tasks -> RecordState] /\ TrackedInv(t)
    BY DEF KernelInv, TypeInv
  <1>2. e \in Epochs /\ run[t][e].at \in Stages /\ run[t][e] \in Run /\ Shape(run[t][e])
    <2>1. e # 0
      BY DEF Working
    <2>2. e \in Epochs
      BY <1>1, <2>1, TypeFacts DEF Epochs
    <2> QED
      BY <1>1, <2>1, <2>2, RunFacts DEF TrackedInv
  <1>3. /\ r \in Run /\ Follows(run[t][e], r) /\ r.at = run[t][e].at /\ r.base = run[t][e].base
        /\ r.machine = run[t][e].machine
    BY <1>2, TerminationMoves
  <1>4. requestTermination(run[t][e], "cancel") = r
    BY <1>2 DEF requestTermination, Run
  <1>5. run' = [run EXCEPT ![t] = rt]
    BY <1>1, <1>2, <1>4
  <1>6. h \in Handle /\ h.epoch = handle[t].epoch /\ (h.state = "failed" => handle[t].state = "failed")
    BY HandleFacts
  <1> HIDE DEF r, h
  <1>7. rt \in [Epochs -> Run] /\ rt[e] = r /\ \A x \in Epochs : x # e => rt[x] = run[t][x]
    BY <1>1, <1>2, <1>3
  <1> HIDE DEF rt
  <1>8. /\ run' \in [Tasks -> [Epochs -> Run]] /\ run'[t] = rt
        /\ \A u \in Tasks : u # t => run'[u] = run[u]
    BY <1>1, <1>5, <1>7
  <1>9. ASSUME NEW u \in Tasks, NEW x \in Epochs
        PROVE  /\ Follows(run[u][x], run'[u][x])
               /\ run'[u][x].base = run[u][x].base
               /\ run'[u][x].machine = "completed" => run[u][x].machine = "completed"
               /\ run[u][x].at = "queued" => run'[u][x].at \notin Busy \ {"queued"}
               /\ run[u][x].at \in Stages => run'[u][x].at \in Stages
    <2>1. CASE u = t /\ x = e
      BY <1>2, <1>3, <1>7, <1>8, <2>1 DEF Stages, Trying
    <2>2. CASE u # t \/ x # e
      <3>1. run'[u][x] = run[u][x] /\ Shape(run[u][x])
        BY <1>7, <1>8, <2>2, RunFacts
      <3> QED
        BY <3>1 DEF Follows
    <2> QED
      BY <2>1, <2>2
  <1>10. /\ handle' \in [Tasks -> Handle]
         /\ \A u \in Tasks : /\ handle'[u].epoch = handle[u].epoch
                             /\ handle'[u].state = "failed" => handle[u].state = "failed"
    <2>1. handle' = [handle EXCEPT ![t] = h]
      BY DEF h
    <2> QED
      BY <1>1, <1>6, <2>1
  <1>11. /\ record' \in [Tasks -> RecordState]
         /\ \A u \in Tasks : record'[u] = record[u] \/ (u = t /\ record'[u] = "canceled")
    BY <1>1 DEF RecordState, Ended
  <1> QED
    BY <1>8, <1>9, <1>10, <1>11, ReportsKeep

\* A cancel, of a queued run or of one at work, keeps the invariant (cancel).
LEMMA CancelKeeps ==
  ASSUME KernelInv, UNCHANGED setting, NEW t \in Tasks, Cancel(t)
  PROVE  Preserved
  <1>1. /\ record[t] \in {"working", "input_required"}
        /\ record' = [record EXCEPT ![t] = "canceled"]
        /\ UNCHANGED <<binding, tracked, revision, commits, host, stops, orphans>>
    BY DEF Cancel
  <1>2. CASE Queued(t)
    <2>1. /\ run' = [run EXCEPT ![t][QueuedEpoch(t)].at = "done",
                                ![t][QueuedEpoch(t)].machine = "canceled"]
          /\ handle' = [handle EXCEPT ![t] = transition(@, QueuedEpoch(t), "canceled")]
          /\ history' = pruneHistory(history, run', tracked)
      BY <1>2 DEF Cancel
    <2> QED
      BY <1>1, <1>2, <2>1, CancelQueuedKeeps
  <1>3. CASE ~Queued(t) /\ Working(t)
    <2>1. /\ handle' = [handle EXCEPT ![t] = cancelHandle(@)]
          /\ run' = [run EXCEPT ![t][tracked[t]] = requestTermination(@, "cancel")]
          /\ UNCHANGED <<queues, history>>
      BY <1>3 DEF Cancel
    <2> QED
      BY <1>1, <1>3, <2>1, CancelWorkingKeeps
  <1>4. CASE ~Queued(t) /\ ~Working(t)
    <2>1. UNCHANGED <<handle, run, queues, history>>
      BY <1>4 DEF Cancel
    <2>2. /\ handle \in [Tasks -> Handle] /\ record \in [Tasks -> RecordState]
      BY DEF KernelInv, TypeInv
    <2>3. /\ record' \in [Tasks -> RecordState]
          /\ \A u \in Tasks : record'[u] = record[u] \/ (u = t /\ record'[u] = "canceled")
      BY <1>1, <2>2 DEF RecordState, Ended
    <2> QED
      BY <1>1, <2>1, <2>2, <2>3, SameRuns, ReportsKeep
  <1> QED
    BY <1>2, <1>3, <1>4

\* What finishSingleStageExecution can make of a record.
LEMMA FinishedFacts ==
  ASSUME NEW m, NEW h, NEW e
  PROVE  /\ FinishedState(m, h, e) \in {"completed", "failed", "canceled", "input_required"}
         /\ FinishedState(m, h, e) = "completed" <=> m = "completed"
         /\ FinishedState(m, h, e) = "input_required" => h.epoch = e /\ h.state = "failed" /\ h.checkpoint
  <1>1. CASE m = "completed"
    BY <1>1 DEF FinishedState
  <1>2. CASE m # "completed" /\ h.epoch = e /\ h.state = "failed" /\ h.checkpoint
    BY <1>2 DEF FinishedState
  <1>3. CASE m # "completed" /\ ~(h.epoch = e /\ h.state = "failed" /\ h.checkpoint)
    BY <1>3 DEF FinishedState
  <1> QED
    BY <1>1, <1>2, <1>3

\* finishExecution: a record waits to be resumed only for a handle that failed,
\* and a handle fails only at the end of its run.
LEMMA FinishKeeps ==
  ASSUME KernelInv, UNCHANGED setting, NEW t \in Tasks, NEW e \in Epochs, Finish(t, e)
  PROVE  Preserved
  <1> DEFINE r == [run[t][e] EXCEPT !.at = "reported"]
             rt == [run[t] EXCEPT ![e] = r]
             s == FinishedState(run[t][e].machine, handle[t], e)
  <1>1. /\ TypeInv /\ run \in [Tasks -> [Epochs -> Run]] /\ handle \in [Tasks -> Handle]
        /\ record \in [Tasks -> RecordState] /\ RunsInv(t) /\ FirstInv(t)
        /\ run[t][e] \in Run /\ Shape(run[t][e]) /\ run[t][e].at = "done"
        /\ handle[t].epoch \in 0 .. MaxEpoch /\ 1 \in Epochs /\ e \in Nat /\ 0 \notin Epochs
    <2>1. TypeInv /\ RunsInv(t) /\ FirstInv(t)
      BY DEF KernelInv
    <2>2. run[t][e] \in Run /\ Shape(run[t][e]) /\ run[t][e].at = "done"
      BY RunFacts DEF Finish
    <2>3. handle[t].epoch \in 0 .. MaxEpoch /\ 1 \in Epochs /\ e \in Nat /\ 0 \notin Epochs
      BY <2>1, TypeFacts DEF Epochs
    <2> QED
      BY <2>1, <2>2, <2>3 DEF TypeInv
  <1>2. /\ r \in Run /\ r.at = "reported" /\ r.machine = run[t][e].machine
        /\ r.base = run[t][e].base /\ r.child = run[t][e].child
    BY <1>1 DEF Run, Over
  <1>3. Follows(run[t][e], r)
    BY <1>1, <1>2 DEF Follows, Shape, Busy, Trying, Over, Unknown, Ended
  <1>4. /\ run' = [run EXCEPT ![t] = rt]
        /\ UNCHANGED <<binding, handle, tracked, queues, history, revision, commits,
                       host, stops, orphans>>
    BY <1>1 DEF Finish
  <1> HIDE DEF r
  <1>5. rt \in [Epochs -> Run] /\ rt[e] = r /\ \A x \in Epochs : x # e => rt[x] = run[t][x]
    BY <1>1, <1>2
  <1> HIDE DEF rt
  <1>6. /\ run' \in [Tasks -> [Epochs -> Run]] /\ run'[t] = rt
        /\ \A u \in Tasks : u # t => run'[u] = run[u]
    BY <1>1, <1>4, <1>5
  <1>7. ASSUME NEW u \in Tasks, NEW x \in Epochs
        PROVE  /\ Follows(run[u][x], run'[u][x])
               /\ run'[u][x].base = run[u][x].base
               /\ run'[u][x].machine = "completed" => run[u][x].machine = "completed"
               /\ run[u][x].at = "queued" => run'[u][x].at \notin Busy \ {"queued"}
               /\ run[u][x].at \in Stages => run'[u][x].at \in Stages
    <2>1. CASE u = t /\ x = e
      BY <1>1, <1>2, <1>3, <1>5, <1>6, <2>1 DEF Stages, Trying
    <2>2. CASE u # t \/ x # e
      <3>1. run'[u][x] = run[u][x] /\ Shape(run[u][x])
        BY <1>5, <1>6, <2>2, RunFacts
      <3> QED
        BY <3>1 DEF Follows
    <2> QED
      BY <2>1, <2>2
  <1>8. CASE record' = record
    BY <1>1, <1>4, <1>6, <1>7, <1>8, ReportsKeep
  <1>9. CASE record' # record
    <2>1. /\ record' = [record EXCEPT ![t] = s]
          /\ record[t] \notin Ended /\ handle[t].epoch = e
      BY <1>9 DEF Finish
    <2>2. s \in {"completed", "failed", "canceled", "input_required"}
          /\ (s = "input_required" => handle[t].state = "failed")
      BY FinishedFacts
    <2>3. record[t] # "pending"
      BY <1>1, <2>1 DEF RunsInv
    <2> HIDE DEF s
    <2>4. /\ record' \in [Tasks -> RecordState]
          /\ \A u \in Tasks : record'[u] = record[u] \/ (u = t /\ record'[u] = s)
      BY <1>1, <2>1, <2>2 DEF RecordState, Ended
    <2>5. ASSUME s = "input_required"
          PROVE  MayWait(t)
      <3>1. run[t][e].at \in Over /\ run[t][e].machine \in Unknown \cup {"failed"}
        BY <1>1, <2>1, <2>2, <2>5 DEF RunsInv
      <3>2. run'[t][e].at \in Over /\ run'[t][e].machine \in Unknown \cup {"failed"}
        BY <1>2, <1>5, <1>6, <3>1 DEF Over
      <3>3. history.epoch[t] # 0 => run'[t][history.epoch[t]].machine \in Ended
        <4>1. history.epoch[t] # 0 => history.epoch[t] = e /\ run[t][e].machine \notin Unknown
          BY <1>1, <2>1 DEF RunsInv
        <4> QED
          BY <1>2, <1>5, <1>6, <3>1, <4>1 DEF Ended
      <3>4. run'[t][1].at \notin Busy
        <4>1. CASE e = 1
          BY <1>2, <1>5, <1>6, <4>1 DEF Busy, Trying
        <4>2. CASE e # 1
          <5>1. run'[t][1] = run[t][1] /\ run[t][1].at \notin Busy
            BY <1>1, <1>5, <1>6, <2>1, <4>2 DEF FirstInv
          <5> QED
            BY <5>1
        <4> QED
          BY <4>1, <4>2
      <3> QED
        BY <1>4, <2>1, <3>2, <3>3, <3>4 DEF MayWait, MayResume
    <2>6. \A u \in Tasks :
            /\ record'[u] = record[u] \/ "pending" \notin {record[u], record'[u]}
            /\ (record'[u] = "input_required" /\ record[u] # "input_required") => MayWait(u)
      BY <2>2, <2>3, <2>4, <2>5
    <2> QED
      BY <1>1, <1>4, <1>6, <1>7, <2>4, <2>6, ReportsKeep
  <1> QED
    BY <1>8, <1>9

\* reconcileExecutionHandles.
LEMMA InterruptedFacts ==
  ASSUME KernelInv, NEW live, handle' = Interrupted(live)
  PROVE  /\ handle' \in [Tasks -> Handle]
         /\ \A u \in Tasks :
              /\ handle'[u].epoch = handle[u].epoch
              /\ handle'[u].state \in {handle[u].state, "interrupted"}
              /\ handle'[u].checkpoint = handle[u].checkpoint
  <1>1. ASSUME NEW u \in Tasks
        PROVE  /\ handle'[u] \in Handle
               /\ handle'[u].epoch = handle[u].epoch
               /\ handle'[u].state \in {handle[u].state, "interrupted"}
               /\ handle'[u].checkpoint = handle[u].checkpoint
    <2>1. handle[u] \in Handle
      BY TypeFacts DEF KernelInv
    <2>2. handle'[u] = handle[u] \/ handle'[u] = [handle[u] EXCEPT !.state = "interrupted"]
      BY DEF Interrupted
    <2> QED
      BY <2>1, <2>2 DEF Handle
  <1>2. handle' = [u \in Tasks |-> handle'[u]]
    BY DEF Interrupted
  <1> QED
    BY <1>1, <1>2

\* reconcileInterruptedExecutions.
LEMMA ReconciledFacts ==
  ASSUME NEW h, NEW m, NEW t \in Tasks
  PROVE  LET s == Reconciled(h, m)[t] IN
         /\ s # record[t] => record[t] = "working"
         /\ (record[t] = "working" /\ m[t] \in {"submitted", "working"}) => s = "working"
         /\ (record[t] = "working" /\ m[t] \in Ended) => s = FinishedState(m[t], h[t], h[t].epoch)
         /\ (record[t] = "working" /\ m[t] \notin {"submitted", "working"} \cup Ended) =>
              s \in {"input_required", "failed"}
  <1>1. {"submitted", "working"} \cap Ended = {}
    BY DEF Ended
  <1>2. CASE record[t] # "working"
    BY <1>2 DEF Reconciled
  <1>3. CASE record[t] = "working" /\ m[t] \in {"submitted", "working"}
    BY <1>1, <1>3 DEF Reconciled
  <1>4. CASE record[t] = "working" /\ m[t] \in Ended
    BY <1>1, <1>4 DEF Reconciled
  <1>5. CASE record[t] = "working" /\ m[t] \notin {"submitted", "working"} \cup Ended
    BY <1>5 DEF Reconciled
  <1> QED
    BY <1>2, <1>3, <1>4, <1>5

\* Both together, by a kernel that knows at least what its history says.
LEMMA ReconcileKeeps ==
  ASSUME KernelInv, UNCHANGED <<setting, binding, run, tracked, queues, history, revision, commits>>,
         host' = "up", NEW live, NEW m,
         handle' = Interrupted(live), record' = Reconciled(handle', m),
         \A u \in Tasks : m[u] = getTask(u)
  PROVE  Preserved
  <1>1. /\ TypeInv /\ record \in [Tasks -> RecordState]
        /\ handle' \in [Tasks -> Handle]
        /\ \A u \in Tasks : /\ handle'[u].epoch = handle[u].epoch
                            /\ handle'[u].state = "failed" => handle[u].state = "failed"
    BY InterruptedFacts DEF KernelInv, TypeInv
  <1>2. ASSUME NEW u \in Tasks
        PROVE  /\ record'[u] \in RecordState
               /\ record'[u] = record[u] \/ "pending" \notin {record[u], record'[u]}
               /\ (record'[u] = "input_required" /\ record[u] # "input_required") => MayWait(u)
    <2> DEFINE s == record'[u]
    <2>1. CASE s = record[u]
      BY <1>1, <2>1
    <2>2. CASE s # record[u] /\ m[u] \in Ended
      <3>1. record[u] = "working" /\ s = FinishedState(m[u], handle'[u], handle'[u].epoch)
        BY <2>2, ReconciledFacts
      <3>2. s \in {"completed", "failed", "canceled", "input_required"}
            /\ (s = "input_required" => handle'[u].state = "failed")
        BY <3>1, FinishedFacts
      <3>3. ASSUME s = "input_required"
            PROVE  MayWait(u)
        <4>1. RunsInv(u) /\ FirstInv(u) /\ handle[u].state = "failed"
          BY <1>1, <3>2, <3>3 DEF KernelInv
        <4>2. history.epoch[u] # 0 /\ m[u] = run[u][history.epoch[u]].machine
          BY <2>2 DEF getTask, InHistory, Ended
        <4>3. \A e \in Epochs : e = handle[u].epoch =>
                run[u][e].at \in Over /\ run[u][e].machine \in Unknown \cup {"failed"}
          BY <4>1 DEF RunsInv
        <4>4. run[u][1].at \notin Busy
          <5>1. 1 \in Epochs
            BY <1>1, TypeFacts
          <5> QED
            BY <4>1, <4>3, <5>1 DEF FirstInv, Busy, Over, Trying
        <4> QED
          BY <2>2, <4>2, <4>3, <4>4 DEF MayWait, MayResume
      <3> QED
        BY <3>1, <3>2, <3>3 DEF RecordState, Ended
    <2>3. CASE s # record[u] /\ m[u] \notin Ended
      <3>1. /\ record[u] = "working" /\ m[u] \notin {"submitted", "working"} \cup Ended
            /\ s \in {"input_required", "failed"}
        BY <2>3, ReconciledFacts
      <3>2. RunsInv(u) /\ FirstInv(u) /\ history.epoch[u] \in 0 .. MaxEpoch
        BY <1>1, TypeFacts DEF KernelInv
      <3>3. history.epoch[u] = 0
        <4>1. SUFFICES ASSUME history.epoch[u] # 0
                       PROVE  FALSE
          OBVIOUS
        <4>2. history.epoch[u] \in Epochs /\ m[u] = run[u][history.epoch[u]].machine
          BY <3>2, <4>1 DEF Epochs, getTask, InHistory
        <4>3. run[u][history.epoch[u]] \in Run /\ run[u][history.epoch[u]].machine \notin Unknown
          BY <3>2, <4>1, <4>2, RunFacts DEF RunsInv
        <4> QED
          BY <3>1, <4>2, <4>3 DEF Run
      <3>4. run[u][1].at \notin Busy
        BY <3>2, <3>3 DEF FirstInv
      <3>5. ASSUME Retains, RetainedInv, NEW e \in Epochs, e = handle[u].epoch
            PROVE  run[u][e].at \in Over /\ run[u][e].machine \in Unknown
        <4>1. run[u][e].machine \in Unknown
          BY <3>3, <3>5 DEF RetainedInv, CurrentInv, Epochs
        <4>2. run[u][e] \in Run /\ Shape(run[u][e])
          BY RunFacts
        <4> QED
          BY <4>1, <4>2 DEF Run, Shape, Unknown, Over, Busy, Trying, Ended
      <3>6. MayWait(u)
        BY <3>3, <3>4, <3>5 DEF MayWait, MayResume
      <3> QED
        BY <3>1, <3>6 DEF RecordState, Ended
    <2> QED
      BY <2>1, <2>2, <2>3
  <1>3. record' \in [Tasks -> RecordState]
    <2>1. record' = [u \in Tasks |-> record'[u]]
      BY DEF Reconciled
    <2> QED
      BY <1>2, <2>1
  <1> QED
    BY <1>1, <1>2, <1>3, SameRuns, ReportsKeep

\* The flush that settles interrupted Tasks keeps the invariant (flushOutbox).
LEMMA FlushKeeps ==
  ASSUME KernelInv, UNCHANGED setting, Flush
  PROVE  Preserved
  <1> DEFINE m == [t \in Tasks |-> getTask(t)]
             live == {t \in Tasks : tracked[t] # 0 \/ Queued(t)}
  <1>1. /\ host' = "up" /\ handle' = Interrupted(live) /\ record' = Reconciled(handle', m)
        /\ UNCHANGED <<binding, run, tracked, queues, history, revision, commits>>
    BY DEF Flush
  <1>2. \A u \in Tasks : m[u] = getTask(u)
    OBVIOUS
  <1> HIDE DEF m, live
  <1> QED
    BY <1>1, <1>2, ReconcileKeeps

\* A new process knows nothing of any Task, and no run of an old one is left.
LEMMA StartKeeps ==
  ASSUME KernelInv, UNCHANGED setting, Start
  PROVE  Preserved
  <1> DEFINE m == [t \in Tasks |-> "none"]
  <1>1. /\ host = "down" /\ host' = "up"
        /\ handle' = Interrupted({}) /\ record' = Reconciled(handle', m)
        /\ UNCHANGED <<binding, run, tracked, queues, history, revision, commits>>
    BY DEF Start
  <1>2. ASSUME NEW u \in Tasks
        PROVE  m[u] = getTask(u)
    <2>1. RunsInv(u) /\ history.epoch[u] \in 0 .. MaxEpoch
      BY TypeFacts DEF KernelInv
    <2>2. history.epoch[u] = 0
      BY <1>1, <2>1 DEF RunsInv, NoRun, Unknown, Epochs
    <2> QED
      BY <2>2 DEF getTask, InHistory
  <1> HIDE DEF m
  <1> QED
    BY <1>1, <1>2, ReconcileKeeps

\* shutdown: waiting runs end and active ones are told to.
LEMMA ShutdownKeeps ==
  ASSUME KernelInv, UNCHANGED setting, Shutdown
  PROVE  Preserved
  <1> DEFINE Stopped(r, t, e) ==
               CASE r.at = "queued" -> [r EXCEPT !.at = "done", !.machine = "canceled"]
                 [] tracked[t] = e -> [requestTermination(r, "shutdown")
                                         EXCEPT !.child = IF @ \in Alive THEN "gone" ELSE @]
                 [] OTHER -> r
  <1>1. /\ run' = [t \in Tasks |-> [e \in Epochs |-> Stopped(run[t][e], t, e)]]
        /\ handle' = [t \in Tasks |-> IF tracked[t] # 0 \/ Queued(t)
                                      THEN cancelHandle(handle[t]) ELSE handle[t]]
        /\ host' = "stopping"
        /\ UNCHANGED <<record, binding, tracked, history, revision, commits, orphans>>
    BY DEF Shutdown
  <1>2. TypeInv
    BY DEF KernelInv
  <1>3. ASSUME NEW u \in Tasks, NEW x \in Epochs
        PROVE  /\ run'[u][x] \in Run /\ Follows(run[u][x], run'[u][x])
               /\ run'[u][x].base = run[u][x].base
               /\ run'[u][x].machine = "completed" => run[u][x].machine = "completed"
               /\ run[u][x].at = "queued" => run'[u][x].at \notin Busy \ {"queued"}
               /\ run[u][x].at \in Stages => run'[u][x].at \in Stages
    <2> DEFINE q == run[u][x]
               r == run'[u][x]
    <2>1. r = Stopped(q, u, x)
      BY <1>1
    <2>2. q \in Run /\ Shape(q)
      BY RunFacts
    <2>3. CASE q.at = "queued"
      <3>1. r = [q EXCEPT !.at = "done", !.machine = "canceled"]
        <4>1. TrackedInv(u) /\ x # 0
          BY DEF KernelInv, Epochs
        <4>2. tracked[u] # x
          BY <2>3, <4>1 DEF TrackedInv, Stages, Trying
        <4> QED
          BY <2>1, <2>3, <4>2
      <3> HIDE DEF q, r
      <3>2. r \in Run /\ Follows(q, r) /\ r.at = "done" /\ r.base = q.base /\ r.machine = "canceled"
        BY <2>2, <2>3, <3>1, CanceledMoves
      <3>3. r.at \notin Busy /\ q.at \notin Stages
        BY <2>3, <3>2 DEF Busy, Stages, Trying
      <3> USE DEF q, r
      <3> QED
        BY <3>2, <3>3
    <2>4. CASE q.at # "queued" /\ tracked[u] = x
      <3> DEFINE g == requestTermination(q, "shutdown")
                 c == IF g.child \in Alive THEN "gone" ELSE g.child
      <3>1. q.at \in Stages
        <4>1. TrackedInv(u) /\ x # 0
          BY DEF KernelInv, Epochs
        <4> QED
          BY <2>4, <4>1 DEF TrackedInv
      <3>2. c \in {q.child, "gone"} /\ r = [g EXCEPT !.child = c]
        <4>1. g.child = q.child
          BY <2>2 DEF requestTermination, Run
        <4> QED
          BY <2>1, <2>4, <4>1
      <3> HIDE DEF q, r, c
      <3>3. r \in Run /\ Follows(q, r) /\ r.at = q.at /\ r.base = q.base /\ r.machine = q.machine
        BY <2>2, <3>1, <3>2, TerminationMoves
      <3> USE DEF q, r
      <3> QED
        BY <2>4, <3>3
    <2>5. CASE q.at # "queued" /\ tracked[u] # x
      <3>1. r = q
        BY <2>1, <2>5
      <3> QED
        BY <2>2, <2>5, <3>1 DEF Follows
    <2> QED
      BY <2>3, <2>4, <2>5
  <1>4. run' \in [Tasks -> [Epochs -> Run]]
    BY <1>1, <1>3
  <1>5. /\ handle' \in [Tasks -> Handle]
        /\ \A u \in Tasks : /\ handle'[u].epoch = handle[u].epoch
                            /\ handle'[u].state = "failed" => handle[u].state = "failed"
    <2>1. ASSUME NEW u \in Tasks
          PROVE  handle'[u] = cancelHandle(handle[u]) \/ handle'[u] = handle[u]
      BY <1>1
    <2>2. ASSUME NEW u \in Tasks
          PROVE  /\ handle'[u] \in Handle /\ handle'[u].epoch = handle[u].epoch
                 /\ handle'[u].state = "failed" => handle[u].state = "failed"
      <3>1. handle[u] \in Handle
        BY <1>2, TypeFacts
      <3>2. 1 \in Nat
        OBVIOUS
      <3> QED
        BY <2>1, <3>1, <3>2, HandleFacts
    <2>3. handle' = [u \in Tasks |-> handle'[u]]
      BY <1>1
    <2> QED
      BY <2>2, <2>3
  <1>6. record' \in [Tasks -> RecordState]
    BY <1>1, <1>2 DEF TypeInv
  <1> HIDE DEF Stopped
  <1> QED
    BY <1>1, <1>3, <1>4, <1>5, <1>6, ReportsKeep

\* Exit and Crash: the handles, the records and the Workspace stay.
LEMMA MemoryLossKeeps ==
  ASSUME KernelInv, MemoryIsLost, UNCHANGED <<setting, record, binding, handle, revision, commits>>
  PROVE  Preserved
  <1>1. TypeInv /\ NoRun \in Run /\ 0 \in 0 .. MaxEpoch
    BY KernelAssumption DEF KernelInv, NoRun, Run, Over, Unknown
  <1>2. /\ run' = [t \in Tasks |-> [e \in Epochs |-> NoRun]]
        /\ tracked' = [t \in Tasks |-> 0]
        /\ history'.epoch = [t \in Tasks |-> 0]
    BY DEF MemoryIsLost, NoHistory
  <1>3. TypeInv'
    <2>1. /\ run' \in [Tasks -> [Epochs -> Run]] /\ tracked' \in [Tasks -> 0 .. MaxEpoch]
          /\ history'.epoch \in [Tasks -> 0 .. MaxEpoch]
      BY <1>1, <1>2
    <2> QED
      BY <1>1, <2>1 DEF TypeInv
  <1>4. \A t \in Tasks : /\ \A e \in Epochs : run'[t][e] = NoRun
                         /\ tracked'[t] = 0 /\ history'.epoch[t] = 0
    BY <1>2
  <1>5. NoRun.at = "none" /\ NoRun.machine = "none" /\ NoRun.child = "none" /\ NoRun.base = 0
    BY DEF NoRun
  <1>6. ASSUME NEW t \in Tasks
        PROVE  RunsInv(t)' /\ FirstInv(t)' /\ TrackedInv(t)' /\ EffectInv(t)'
    <2>1. RunsInv(t) /\ EffectInv(t) /\ 1 \in Epochs
      BY <1>1, TypeFacts DEF KernelInv
    <2>2. Shape(NoRun)
      BY <1>5 DEF Shape, Trying, Alive
    <2>3. RunsInv(t)'
      BY <1>4, <1>5, <2>1, <2>2 DEF RunsInv, Over, Unknown
    <2>4. FirstInv(t)' /\ TrackedInv(t)'
      BY <1>4, <1>5, <2>1 DEF FirstInv, TrackedInv, Busy, Trying
    <2>5. EffectInv(t)'
      BY <1>4, <1>5, <2>1 DEF EffectInv, Effects
    <2> QED
      BY <2>3, <2>4, <2>5
  <1>7. KernelInv'
    BY <1>3, <1>6 DEF KernelInv, EffectAtMostOnce
  <1>8. RetainedInv'
    BY <1>4, <1>5 DEF RetainedInv, CurrentInv, Over, Unknown
  <1> QED
    BY <1>7, <1>8 DEF Preserved

\* What the call of execute for a new epoch does.
LEMMA ExecuteFacts ==
  ASSUME KernelInv, NEW t \in Tasks, NEW e \in Epochs, execute(t, e), host = "up"
  PROVE  /\ \E r \in Run :
              /\ run' = [run EXCEPT ![t][e] = r] /\ Shape(r) /\ r.base = 0
              /\ \/ /\ r.at = "done" /\ r.machine = "refused" /\ UNCHANGED tracked
                    /\ history'.epoch[t] \in {0, history.epoch[t]}
                    /\ (e > 1 /\ getTask(t) \in Ended) => history'.epoch[t] = 0
                 \/ /\ r.at = "prepare" /\ r.machine = "working"
                    /\ tracked' = [tracked EXCEPT ![t] = e] /\ history'.epoch[t] = e
                 \/ /\ r.at = "queued" /\ r.machine = "submitted" /\ UNCHANGED tracked
                    /\ history'.epoch[t] = e
         /\ history'.epoch \in [Tasks -> 0 .. MaxEpoch]
         /\ \A u \in Tasks : u # t => history'.epoch[u] = history.epoch[u]
  <1>1. history.epoch \in [Tasks -> 0 .. MaxEpoch] /\ 0 \in 0 .. MaxEpoch /\ e \in 0 .. MaxEpoch
    BY KernelAssumption DEF KernelInv, TypeInv, Epochs
  <1>2. NoRun \in Run /\ NoRun.base = 0 /\ NoRun.child = "none"
    BY DEF NoRun, Run, Over, Unknown
  <1>3. /\ Forgotten(t).epoch = [u \in Tasks |-> IF u = t THEN 0 ELSE history.epoch[u]]
        /\ Remembered(t, e).epoch = [history.epoch EXCEPT ![t] = e]
    <2>1. \A u : u \in {t} <=> u = t
      OBVIOUS
    <2> QED
      BY <2>1 DEF Forgotten, Forgetting, Remembered
  <1>4. CASE /\ run' = [run EXCEPT ![t][e] = [NoRun EXCEPT !.at = "done", !.machine = "refused"]]
             /\ history' = IF host = "up" /\ e > 1 /\ getTask(t) \in Ended
                           THEN Forgotten(t) ELSE history
             /\ UNCHANGED tracked
    <2> DEFINE r == [NoRun EXCEPT !.at = "done", !.machine = "refused"]
    <2>1. r \in Run /\ r.at = "done" /\ r.machine = "refused" /\ r.base = 0 /\ r.child = "none"
      BY <1>2 DEF Run, Over, Unknown
    <2> HIDE DEF r
    <2>2. Shape(r)
      BY <2>1 DEF Shape, Trying, Alive
    <2>3. history'.epoch \in [Tasks -> 0 .. MaxEpoch]
          /\ (\A u \in Tasks : u # t => history'.epoch[u] = history.epoch[u])
          /\ history'.epoch[t] \in {0, history.epoch[t]}
          /\ ((e > 1 /\ getTask(t) \in Ended) => history'.epoch[t] = 0)
      <3>1. CASE e > 1 /\ getTask(t) \in Ended
        BY <1>1, <1>3, <1>4, <3>1
      <3>2. CASE ~(e > 1 /\ getTask(t) \in Ended)
        BY <1>1, <1>4, <3>2
      <3> QED
        BY <3>1, <3>2
    <2>4. run' = [run EXCEPT ![t][e] = r]
      BY <1>4 DEF r
    <2> QED
      BY <1>4, <2>1, <2>2, <2>3, <2>4
  <1>5. CASE /\ run' = [run EXCEPT ![t][e] = [NoRun EXCEPT !.at = "prepare", !.machine = "working"]]
             /\ tracked' = [tracked EXCEPT ![t] = e] /\ history' = Remembered(t, e)
    <2> DEFINE r == [NoRun EXCEPT !.at = "prepare", !.machine = "working"]
    <2>1. r \in Run /\ r.at = "prepare" /\ r.machine = "working" /\ r.base = 0 /\ r.child = "none"
      BY <1>2 DEF Run, Busy, Trying
    <2>2. run' = [run EXCEPT ![t][e] = r]
      BY <1>5
    <2> HIDE DEF r
    <2>3. Shape(r)
      BY <2>1 DEF Shape, Trying, Alive
    <2>4. history'.epoch = [history.epoch EXCEPT ![t] = e]
      BY <1>3, <1>5
    <2> QED
      BY <1>1, <1>5, <2>1, <2>2, <2>3, <2>4
  <1>6. CASE /\ run' = [run EXCEPT ![t][e] = [NoRun EXCEPT !.at = "queued", !.machine = "submitted"]]
             /\ history' = Remembered(t, e) /\ UNCHANGED tracked
    <2> DEFINE r == [NoRun EXCEPT !.at = "queued", !.machine = "submitted"]
    <2>1. r \in Run /\ r.at = "queued" /\ r.machine = "submitted" /\ r.base = 0 /\ r.child = "none"
      BY <1>2 DEF Run, Busy
    <2>2. run' = [run EXCEPT ![t][e] = r]
      BY <1>6
    <2> HIDE DEF r
    <2>3. Shape(r)
      BY <2>1 DEF Shape, Trying, Alive
    <2>4. history'.epoch = [history.epoch EXCEPT ![t] = e]
      BY <1>3, <1>6
    <2> QED
      BY <1>1, <1>6, <2>1, <2>2, <2>3, <2>4
  <1> QED
    BY <1>4, <1>5, <1>6 DEF execute

\* A new execution: it is the current one, and no other run of its Task is busy.
LEMMA BeginKeeps ==
  ASSUME KernelInv, UNCHANGED <<setting, revision, commits, host, stops, orphans>>,
         NEW t \in Tasks, NEW e \in Epochs, host = "up",
         e = handle[t].epoch + 1,
         handle' = [handle EXCEPT ![t] = prepare(t)],
         record' = [record EXCEPT ![t] = "working"],
         binding' \in [Tasks -> Nat],
         \A u \in Tasks : u # t => binding'[u] = binding[u],
         \/ record[t] = "pending"
         \/ record[t] = "input_required" /\ binding'[t] = binding[t],
         execute(t, e)
  PROVE  Preserved
  <1>1. /\ TypeInv /\ run \in [Tasks -> [Epochs -> Run]] /\ handle \in [Tasks -> Handle]
        /\ record \in [Tasks -> RecordState] /\ tracked \in [Tasks -> 0 .. MaxEpoch]
        /\ e \in Nat /\ e > 0 /\ handle[t].epoch \in Nat /\ 1 \in Epochs /\ handle[t] \in Handle
        /\ e \in 0 .. MaxEpoch /\ Epochs \subseteq Nat
    <2>1. TypeInv
      BY DEF KernelInv
    <2>2. handle[t].epoch \in Nat /\ 1 \in Epochs /\ handle[t] \in Handle /\ Epochs \subseteq Nat
      BY <2>1, TypeFacts
    <2>3. e \in 0 .. MaxEpoch /\ e \in Nat /\ e > 0
      BY KernelAssumption DEF Epochs
    <2> QED
      BY <2>1, <2>2, <2>3 DEF TypeInv
  <1>2. /\ RunsInv(t) /\ FirstInv(t) /\ TrackedInv(t) /\ EffectInv(t)
    BY DEF KernelInv
  <1>3. PICK r \in Run :
          /\ run' = [run EXCEPT ![t][e] = r] /\ Shape(r) /\ r.base = 0
          /\ \/ /\ r.at = "done" /\ r.machine = "refused" /\ UNCHANGED tracked
                /\ history'.epoch[t] \in {0, history.epoch[t]}
                /\ (e > 1 /\ getTask(t) \in Ended) => history'.epoch[t] = 0
             \/ /\ r.at = "prepare" /\ r.machine = "working"
                /\ tracked' = [tracked EXCEPT ![t] = e] /\ history'.epoch[t] = e
             \/ /\ r.at = "queued" /\ r.machine = "submitted" /\ UNCHANGED tracked
                /\ history'.epoch[t] = e
    BY ExecuteFacts
  <1>4. /\ history'.epoch \in [Tasks -> 0 .. MaxEpoch]
        /\ \A u \in Tasks : u # t => history'.epoch[u] = history.epoch[u]
    BY ExecuteFacts
  <1>5. /\ run' \in [Tasks -> [Epochs -> Run]] /\ run'[t][e] = r
        /\ \A u \in Tasks : u # t => run'[u] = run[u]
        /\ \A x \in Epochs : x # e => run'[t][x] = run[t][x]
    <2> DEFINE rt == [run[t] EXCEPT ![e] = r]
    <2>1. run' = [run EXCEPT ![t] = rt] /\ run[t] \in [Epochs -> Run]
      BY <1>1, <1>3
    <2>2. rt \in [Epochs -> Run] /\ rt[e] = r /\ \A x \in Epochs : x # e => rt[x] = run[t][x]
      BY <1>1, <2>1
    <2> HIDE DEF rt
    <2>3. /\ run' \in [Tasks -> [Epochs -> Run]] /\ run'[t] = rt
          /\ \A u \in Tasks : u # t => run'[u] = run[u]
      BY <1>1, <2>1, <2>2
    <2> QED
      BY <2>2, <2>3
  <1>6. /\ prepare(t) \in Handle /\ prepare(t).epoch = e /\ prepare(t).state = "queued"
        /\ handle' \in [Tasks -> Handle] /\ handle'[t] = prepare(t)
        /\ \A u \in Tasks : u # t => handle'[u] = handle[u]
    <2>1. prepare(t) \in Handle /\ prepare(t).epoch = e /\ prepare(t).state = "queued"
      BY <1>1 DEF prepare, Handle
    <2> QED
      BY <1>1, <2>1
  <1>7. /\ record' \in [Tasks -> RecordState] /\ record'[t] = "working"
        /\ \A u \in Tasks : u # t => record'[u] = record[u]
    BY <1>1 DEF RecordState
  <1>8. tracked' \in [Tasks -> 0 .. MaxEpoch] /\ \A u \in Tasks : u # t => tracked'[u] = tracked[u]
    BY <1>1, <1>3
  <1>9. TypeInv'
    BY <1>1, <1>4, <1>5, <1>6, <1>7, <1>8 DEF TypeInv
  <1>10. Effects' = Effects /\ EffectAtMostOnce'
    BY DEF Effects, EffectAtMostOnce, KernelInv
  <1>11. record[t] = "pending" => handle[t].epoch = 0 /\ \A x \in Epochs : run[t][x] = NoRun
    BY <1>1, <1>2 DEF RunsInv, Epochs
  \* The entry of an old execution does not outlive a refusal.
  <1>12. history'.epoch[t] # 0 => history'.epoch[t] = e /\ r.machine \in {"submitted", "working"}
    <2>1. CASE r.at = "done"
      <3>1. SUFFICES ASSUME history'.epoch[t] # 0
                     PROVE  FALSE
        BY <1>3, <2>1
      <3>2. history'.epoch[t] = history.epoch[t] /\ history.epoch[t] # 0
            /\ ~(e > 1 /\ getTask(t) \in Ended)
        BY <1>3, <2>1, <3>1
      <3>3. history.epoch[t] = handle[t].epoch /\ e > 1
        BY <1>1, <1>2, <3>2 DEF RunsInv
      <3>4. record[t] = "input_required"
        BY <1>1, <1>11, <3>3
      <3>5. getTask(t) \in Ended
        BY <1>2, <3>2, <3>4 DEF RunsInv, getTask, InHistory
      <3> QED
        BY <3>2, <3>3, <3>5
    <2>2. CASE r.at # "done"
      BY <1>3, <2>2
    <2> QED
      BY <2>1, <2>2
  <1>13. RunsInv(t)'
    <2>1. \A x \in Epochs : /\ Shape(run'[t][x])
                            /\ x > e => run'[t][x] = NoRun
      <3>1. \A x \in Epochs : x > e => x # e /\ x > handle[t].epoch
        BY <1>1
      <3> QED
        BY <1>2, <1>3, <1>5, <3>1 DEF RunsInv
    <2>2. r.machine \in {"submitted", "working"} => r.machine \notin Unknown
      BY DEF Unknown
    <2> QED
      BY <1>5, <1>6, <1>7, <1>12, <2>1, <2>2 DEF RunsInv
  <1>14. FirstInv(t)'
    <2>1. CASE e = 1
      <3>1. r.at = "done" => r.at \notin Busy
        BY DEF Busy, Trying
      <3>2. r.at = "prepare" => tracked'[t] = 1
        BY <1>1, <1>3, <2>1
      <3> QED
        BY <1>3, <1>5, <1>6, <1>7, <2>1, <3>1, <3>2 DEF FirstInv
    <2>2. CASE e # 1
      <3>1. record[t] = "input_required"
        BY <1>11, <2>2
      <3>2. run'[t][1].at \notin Busy
        BY <1>1, <1>2, <1>5, <2>2, <3>1 DEF FirstInv
      <3> QED
        BY <3>2 DEF FirstInv
    <2> QED
      BY <2>1, <2>2
  <1>15. TrackedInv(t)'
    <2>1. CASE r.at = "prepare"
      BY <1>1, <1>3, <1>5, <2>1 DEF TrackedInv, Stages, Trying
    <2>2. CASE r.at # "prepare"
      <3>1. SUFFICES ASSUME tracked[t] # 0
                     PROVE  run'[t][tracked[t]].at \in Stages
        BY <1>3, <2>2 DEF TrackedInv
      <3>2. tracked[t] \in Epochs /\ run[t][tracked[t]].at \in Stages
        BY <1>1, <1>2, <3>1, TypeFacts DEF TrackedInv, Epochs
      <3>3. run[t][e] = NoRun
        BY <1>1, <1>2 DEF RunsInv
      <3>4. tracked[t] # e
        BY <3>2, <3>3 DEF NoRun, Stages, Trying
      <3> QED
        BY <1>5, <3>2, <3>4
    <2> QED
      BY <2>1, <2>2
  <1>16. EffectInv(t)'
    <2>1. \A x \in Epochs : /\ run'[t][x].base \in {0, binding'[t]}
                            /\ run'[t][x].machine = "completed" => t \in Effects'
      <3>1. ASSUME NEW x \in Epochs, x # e
            PROVE  run'[t][x].base \in {0, binding'[t]}
        <4>1. run'[t][x] = run[t][x]
          BY <1>5, <3>1
        <4>2. CASE record[t] = "pending"
          BY <1>11, <4>1, <4>2 DEF NoRun
        <4>3. CASE binding'[t] = binding[t]
          BY <1>2, <4>1, <4>3 DEF EffectInv
        <4> QED
          BY <4>2, <4>3
      <3>2. r.machine # "completed"
        BY <1>3
      <3> QED
        BY <1>2, <1>3, <1>5, <1>10, <3>1, <3>2 DEF EffectInv
    <2>2. t \in Effects' => binding'[t] < revision' /\ record'[t] # "pending"
      BY <1>2, <1>7, <1>10 DEF EffectInv
    <2> QED
      BY <2>1, <2>2 DEF EffectInv
  <1>17. ASSUME NEW u \in Tasks, u # t
         PROVE  RunsInv(u)' /\ FirstInv(u)' /\ TrackedInv(u)' /\ EffectInv(u)'
    <2>1. RunsInv(u) /\ FirstInv(u) /\ TrackedInv(u) /\ EffectInv(u)
      BY DEF KernelInv
    <2>2. /\ run'[u] = run[u] /\ handle'[u] = handle[u] /\ record'[u] = record[u]
          /\ tracked'[u] = tracked[u] /\ history'.epoch[u] = history.epoch[u]
          /\ binding'[u] = binding[u]
      BY <1>4, <1>5, <1>6, <1>7, <1>8, <1>17
    <2>3. RunsInv(u)'
      BY <2>1, <2>2 DEF RunsInv
    <2>4. FirstInv(u)' /\ TrackedInv(u)'
      BY <2>1, <2>2 DEF FirstInv, TrackedInv
    <2>5. EffectInv(u)'
      BY <1>10, <2>1, <2>2 DEF EffectInv
    <2> QED
      BY <2>3, <2>4, <2>5
  <1>18. KernelInv'
    BY <1>9, <1>10, <1>13, <1>14, <1>15, <1>16, <1>17 DEF KernelInv
  <1>19. ASSUME RetainedInv
         PROVE  RetainedInv'
    <2>1. ASSUME NEW u \in Tasks
          PROVE  CurrentInv(u)'
      <3>1. CASE u # t
        <4>1. /\ run'[u] = run[u] /\ handle'[u] = handle[u] /\ record'[u] = record[u]
              /\ history'.epoch[u] = history.epoch[u]
          BY <1>4, <1>5, <1>6, <1>7, <3>1
        <4>2. CurrentInv(u)
          BY <1>19 DEF RetainedInv
        <4> QED
          BY <4>1, <4>2 DEF CurrentInv
      <3>2. CASE u = t
        <4>1. \A x \in Epochs : x < e => run'[t][x].at \in Over
          <5>1. SUFFICES ASSUME NEW x \in Epochs, x < e
                         PROVE  run[t][x].at \in Over
            BY <1>1, <1>5
          <5>2. CurrentInv(t) /\ x \in Nat /\ (x < handle[t].epoch \/ x = handle[t].epoch)
            <6>1. CurrentInv(t)
              BY <1>19 DEF RetainedInv
            <6>2. x \in Nat /\ e = handle[t].epoch + 1
              BY <1>1
            <6>3. handle[t].epoch \in Nat /\ x < e
              BY <1>1, <5>1
            <6>4. x < handle[t].epoch \/ x = handle[t].epoch
              BY <6>2, <6>3
            <6> QED
              BY <6>1, <6>2, <6>4
          <5>3. CASE record[t] = "pending"
            BY <1>11, <5>3 DEF NoRun, Over
          <5>4. CASE record[t] = "input_required"
            BY <5>2, <5>4 DEF CurrentInv
          <5> QED
            BY <5>3, <5>4
        <4>2. r.machine \notin Unknown => history'.epoch[t] = e
          BY <1>3 DEF Unknown
        <4> QED
          BY <1>5, <1>6, <1>7, <3>2, <4>1, <4>2 DEF CurrentInv
      <3> QED
        BY <3>1, <3>2
    <2> QED
      BY <2>1 DEF RetainedInv
  <1> QED
    BY <1>18, <1>19 DEF Preserved

\* Approving a Task begins its first run (approve).
LEMMA ApproveKeeps ==
  ASSUME KernelInv, UNCHANGED setting, NEW t \in Tasks, Approve(t)
  PROVE  Preserved
  <1>1. /\ 1 \in Epochs /\ binding \in [Tasks -> Nat] /\ revision \in Nat
    BY TypeFacts DEF KernelInv, TypeInv
  <1>2. /\ host = "up" /\ record[t] = "pending" /\ 1 = handle[t].epoch + 1
        /\ record' = [record EXCEPT ![t] = "working"]
        /\ binding' = [binding EXCEPT ![t] = revision]
        /\ handle' = [handle EXCEPT ![t] = prepare(t)]
        /\ execute(t, 1)
        /\ UNCHANGED <<revision, commits, host, stops, orphans>>
    BY DEF Approve, Preparable
  <1>3. binding' \in [Tasks -> Nat] /\ \A u \in Tasks : u # t => binding'[u] = binding[u]
    BY <1>1, <1>2
  <1> QED
    BY <1>1, <1>2, <1>3, BeginKeeps

\* Resuming a Task begins a run of the next epoch (resume).
LEMMA ResumeKeeps ==
  ASSUME KernelInv, UNCHANGED setting, NEW t \in Tasks, Resume(t)
  PROVE  Preserved
  <1> DEFINE e == handle[t].epoch + 1
  <1>1. /\ binding \in [Tasks -> Nat] /\ handle[t].epoch \in Nat
        /\ setting \in Settings /\ MaxEpoch \in Nat
    BY TypeFacts DEF KernelInv, TypeInv
  <1>2. /\ host = "up" /\ record[t] = "input_required"
        /\ handle[t].epoch < setting.epochs
        /\ record' = [record EXCEPT ![t] = "working"]
        /\ handle' = [handle EXCEPT ![t] = prepare(t)]
        /\ execute(t, e)
        /\ UNCHANGED <<binding, revision, commits, host, stops, orphans>>
    BY DEF Resume
  <1>3. e \in Epochs
    BY <1>1, <1>2, KernelAssumption DEF Epochs
  <1> HIDE DEF e
  <1>4. e = handle[t].epoch + 1
    BY DEF e
  <1> QED
    BY <1>1, <1>2, <1>3, <1>4, BeginKeeps

-----------------------------------------------------------------------------
(* The invariants.                                                          *)

\* Before the first Task.
LEMMA InitHolds ==
  ASSUME Init
  PROVE  KernelInv /\ RetainedInv
  <1>1. /\ MaxEpoch \in Nat /\ 0 \in 0 .. MaxEpoch /\ NoRun \in Run
        /\ NoRun.at = "none" /\ NoRun.machine = "none" /\ NoRun.child = "none" /\ NoRun.base = 0
    BY KernelAssumption DEF NoRun, Run, Over, Unknown
  <1>2. /\ \A t \in Tasks : /\ \A e \in Epochs : run[t][e] = NoRun
                            /\ record[t] = "pending" /\ handle[t].epoch = 0 /\ handle[t].state = "none"
                            /\ tracked[t] = 0 /\ history.epoch[t] = 0
        /\ commits = <<>>
    BY DEF Init, NoHistory
  <1>3. TypeInv
    <2>1. handle \in [Tasks -> Handle] /\ record \in [Tasks -> RecordState]
      BY <1>1 DEF Init, Handle, RecordState
    <2>2. run \in [Tasks -> [Epochs -> Run]]
      BY <1>1 DEF Init
    <2>3. tracked \in [Tasks -> 0 .. MaxEpoch] /\ history.epoch \in [Tasks -> 0 .. MaxEpoch]
      BY <1>1 DEF Init, NoHistory
    <2>4. commits \in Seq(Tasks \X Epochs) /\ binding \in [Tasks -> Nat]
          /\ revision \in Nat \ {0} /\ setting \in Settings
      BY DEF Init
    <2> QED
      BY <2>1, <2>2, <2>3, <2>4 DEF TypeInv
  <1>4. Effects = {} /\ EffectAtMostOnce
    BY <1>2 DEF Effects, EffectAtMostOnce
  <1>5. ASSUME NEW t \in Tasks
        PROVE  RunsInv(t) /\ FirstInv(t) /\ TrackedInv(t) /\ EffectInv(t) /\ CurrentInv(t)
    <2>1. 1 \in Epochs
      BY <1>3, TypeFacts
    <2>2. Shape(NoRun)
      BY <1>1 DEF Shape, Trying, Alive
    <2>3. RunsInv(t)
      BY <1>1, <1>2, <2>2 DEF RunsInv
    <2>4. FirstInv(t) /\ TrackedInv(t)
      BY <1>1, <1>2, <2>1 DEF FirstInv, TrackedInv, Busy, Trying
    <2>5. EffectInv(t)
      BY <1>1, <1>2, <1>4 DEF EffectInv
    <2>6. CurrentInv(t)
      BY <1>1, <1>2 DEF CurrentInv, Over, Unknown
    <2> QED
      BY <2>3, <2>4, <2>5, <2>6
  <1> QED
    BY <1>3, <1>4, <1>5 DEF KernelInv, RetainedInv

\* Every step keeps both.
LEMMA StepKeeps ==
  ASSUME KernelInv, [Next]_vars
  PROVE  Preserved
  <1>1. CASE UNCHANGED vars
    <2>1. UNCHANGED <<setting, record, binding, handle, run, tracked, queues, history, revision,
                      commits, host, stops, orphans>>
      BY <1>1 DEF vars
    <2>2. KernelInv'
      BY <2>1 DEF KernelInv, TypeInv, RunsInv, FirstInv, TrackedInv, EffectInv, EffectAtMostOnce, Effects
    <2>3. RetainedInv => RetainedInv'
      BY <2>1 DEF RetainedInv, CurrentInv
    <2> QED
      BY <2>2, <2>3 DEF Preserved
  <1>2. CASE Step /\ UNCHANGED setting
    <2>1. ASSUME NEW t \in Tasks, Approve(t) \/ Resume(t) \/ Cancel(t)
          PROVE  Preserved
      BY <1>2, <2>1, ApproveKeeps, ResumeKeeps, CancelKeeps
    <2>2. ASSUME NEW t \in Tasks, NEW e \in Epochs, RunStep(t, e)
          PROVE  Preserved
      <3>1. CASE RunPrepare(t, e) \/ RunSnapshot(t, e) \/ RunSpec(t, e) \/ RunMarkRunning(t, e)
        BY <1>2, <3>1, RunPrepareKeeps, RunSnapshotKeeps, RunSpecKeeps, RunMarkRunningKeeps
      <3>2. CASE RunTerminate(t, e) \/ RunTerminated(t, e) \/ RunExited(t, e) \/ RunPersist(t, e)
        BY <1>2, <3>2, RunEndingKeeps
      <3>3. CASE RunCommit(t, e) \/ RunCleanup(t, e) \/ RunFinish(t, e) \/ RunDiscard(t, e)
        BY <1>2, <3>3, RunCommitKeeps, RunCleanupKeeps, RunFinishKeeps, RunDiscardKeeps
      <3> QED
        BY <2>2, <3>1, <3>2, <3>3 DEF RunStep
    <2>3. ASSUME NEW t \in Tasks, NEW e \in Epochs,
                 Finish(t, e) \/ ChildExits(t, e) \/ TimeoutFires(t, e) \/ OutputLimitReached(t, e)
          PROVE  Preserved
      BY <1>2, <2>3, FinishKeeps, ChildAndTimersKeep
    <2>4. CASE Flush \/ Shutdown \/ Start
      BY <1>2, <2>4, FlushKeeps, ShutdownKeeps, StartKeeps
    <2>5. CASE Exit \/ Crash
      <3>1. MemoryIsLost /\ UNCHANGED <<setting, record, binding, handle, revision, commits>>
        BY <1>2, <2>5 DEF Exit, Crash
      <3> QED
        BY <3>1, MemoryLossKeeps
    <2> QED
      BY <1>2, <2>1, <2>2, <2>3, <2>4, <2>5 DEF Step
  <1> QED
    BY <1>1, <1>2 DEF Next

\* KernelInv holds for every setting and every history size.
THEOREM KernelInvariance == Spec => []KernelInv
  <1>1. Init => KernelInv
    BY InitHolds
  <1>2. KernelInv /\ [Next]_vars => KernelInv'
    BY StepKeeps DEF Preserved
  <1> QED
    BY <1>1, <1>2, PTL DEF Spec

\* With room for every Task in the history, only the current execution is busy.
THEOREM RetainedInvariance ==
  ASSUME Retains
  PROVE  Spec => [](KernelInv /\ RetainedInv)
  <1>1. Init => KernelInv /\ RetainedInv
    BY InitHolds
  <1>2. KernelInv /\ RetainedInv /\ [Next]_vars => (KernelInv /\ RetainedInv)'
    BY StepKeeps DEF Preserved
  <1> QED
    BY <1>1, <1>2, PTL DEF Spec

\* A Task changes the Workspace at most once, and a first execution is tracked
\* as long as it lasts: across resumes, crashes, restarts, and whatever the
\* kernel has forgotten (commitSnapshot, pruneHistory).
THEOREM EffectsAndTracking == Spec => [](EffectAtMostOnce /\ FirstRunsAreTracked)
  <1>1. ASSUME KernelInv
        PROVE  EffectAtMostOnce /\ FirstRunsAreTracked
    <2>1. ASSUME NEW t \in Tasks, run[t][1].at \in Trying
          PROVE  tracked[t] = 1
      <3>1. FirstInv(t)
        BY <1>1 DEF KernelInv
      <3> QED
        BY <2>1, <3>1 DEF FirstInv, Busy, Trying
    <2> QED
      BY <1>1, <2>1 DEF KernelInv, FirstRunsAreTracked
  <1>2. KernelInv => EffectAtMostOnce /\ FirstRunsAreTracked
    BY <1>1
  <1> QED
    BY <1>2, KernelInvariance, PTL

\* Only the current execution of a Task can have a child.
LEMMA OneChild ==
  ASSUME KernelInv, RetainedInv
  PROVE  OneChildPerTask
  <1>1. SUFFICES ASSUME NEW t \in Tasks
                 PROVE  Cardinality({e \in Epochs : run[t][e].child \in Alive}) <= 1
    BY DEF OneChildPerTask
  <1> DEFINE S == {e \in Epochs : run[t][e].child \in Alive}
  <1>2. ASSUME NEW e \in S
        PROVE  e = handle[t].epoch
    <2>1. /\ Shape(run[t][e]) /\ e \in Nat /\ handle[t].epoch \in Nat
          /\ (run[t][e].at # "none" => e <= handle[t].epoch)
      BY RunFacts, TypeFacts DEF KernelInv
    <2>2. run[t][e].at \in Trying \cup {"cleanup"}
      BY <2>1 DEF Shape
    <2>3. run[t][e].at \notin Over
      BY <2>2 DEF Over, Trying
    <2>4. ~(e < handle[t].epoch)
      BY <2>3 DEF RetainedInv, CurrentInv
    <2>5. e <= handle[t].epoch
      BY <2>1, <2>3 DEF Over
    <2> QED
      BY <2>1, <2>4, <2>5
  <1>3. S \subseteq {handle[t].epoch}
    BY <1>2
  <1>4. /\ IsFiniteSet({handle[t].epoch}) /\ Cardinality({handle[t].epoch}) = 1
    BY FS_Singleton
  <1>5. Cardinality(S) <= Cardinality({handle[t].epoch})
    BY <1>3, <1>4, FS_Subset
  <1> QED
    BY <1>4, <1>5

\* Nothing of an execution happens twice: neither its effect nor its child, and
\* no first execution escapes the limits of the kernel, as long as the kernel
\* remembers its Tasks (maxRetainedTasks).
THEOREM ExecutionIsOne ==
  ASSUME Retains
  PROVE  Spec => []OneExecution
  <1>1. KernelInv /\ RetainedInv => OneChildPerTask
    BY OneChild
  <1>2. Spec => [](KernelInv /\ RetainedInv)
    BY RetainedInvariance
  <1>3. EffectAtMostOnce /\ FirstRunsAreTracked /\ OneChildPerTask => OneExecution
    BY DEF OneExecution
  <1> QED
    BY <1>1, <1>2, <1>3, EffectsAndTracking, PTL

-----------------------------------------------------------------------------
(* The contract of one Task.                                                *)

Contract(t) == INSTANCE ExecutionContract WITH status <- record[t], effect <- t \in Effects

\* What a step may do to the record and the effect of a Task.
ContractStep(t) ==
  \/ record'[t] = record[t] /\ (t \in Effects' <=> t \in Effects)
  \/ /\ t \in Effects' <=> t \in Effects
     /\ \/ record[t] \in {"pending", "input_required"} /\ record'[t] = "working"
        \/ record[t] = "working" /\ t \in Effects /\ record'[t] = "completed"
        \/ record[t] = "working" /\ record'[t] \in {"failed", "canceled", "input_required"}
        \/ record[t] = "input_required" /\ record'[t] \in {"canceled", "failed"}
  \/ record'[t] = record[t] /\ record[t] # "pending" /\ t \notin Effects /\ t \in Effects'

\* These are the steps of the contract.
LEMMA ContractStepFacts ==
  ASSUME NEW t \in Tasks, ContractStep(t)
  PROVE  [Contract(t)!Next]_(Contract(t)!contractVars)
  <1>1. CASE record'[t] = record[t] /\ (t \in Effects' <=> t \in Effects)
    BY <1>1 DEF Contract!contractVars
  <1>2. CASE /\ t \in Effects' <=> t \in Effects
             /\ record[t] \in {"pending", "input_required"} /\ record'[t] = "working"
    BY <1>2 DEF Contract!Next, Contract!Begin
  <1>3. CASE /\ t \in Effects' <=> t \in Effects
             /\ \/ record[t] = "working" /\ t \in Effects /\ record'[t] = "completed"
                \/ record[t] = "working" /\ record'[t] \in {"failed", "canceled", "input_required"}
    BY <1>3 DEF Contract!Next, Contract!Report
  <1>4. CASE /\ t \in Effects' <=> t \in Effects
             /\ record[t] = "input_required" /\ record'[t] \in {"canceled", "failed"}
    BY <1>4 DEF Contract!Next, Contract!Abandon
  <1>5. CASE record'[t] = record[t] /\ record[t] # "pending" /\ t \notin Effects /\ t \in Effects'
    BY <1>5 DEF Contract!Next, Contract!TakeEffect
  <1> QED
    BY <1>1, <1>2, <1>3, <1>4, <1>5 DEF ContractStep

\* Reconciliation reports a Task as completed only for a machine that has, and
\* that one has had its effect.
LEMMA ReconcileIsReport ==
  ASSUME KernelInv, NEW t \in Tasks, NEW h, NEW m, record' = Reconciled(h, m),
         m[t] = getTask(t) \/ m[t] = "none", UNCHANGED commits
  PROVE  ContractStep(t)
  <1>1. Effects' = Effects
    BY DEF Effects
  <1>2. CASE record'[t] = record[t]
    BY <1>1, <1>2 DEF ContractStep
  <1>3. CASE record'[t] # record[t] /\ m[t] \in Ended
    <2>1. record[t] = "working" /\ record'[t] = FinishedState(m[t], h[t], h[t].epoch)
      BY <1>3, ReconciledFacts
    <2>2. m[t] = "completed" => t \in Effects
      <3>1. EffectInv(t) /\ history.epoch[t] \in 0 .. MaxEpoch
        BY TypeFacts DEF KernelInv
      <3>2. m[t] # "none" /\ m[t] = run[t][history.epoch[t]].machine /\ history.epoch[t] \in Epochs
        BY <1>3, <3>1 DEF getTask, InHistory, Ended, Epochs
      <3> QED
        BY <3>1, <3>2 DEF EffectInv
    <2>3. /\ record'[t] \in {"completed", "failed", "canceled", "input_required"}
          /\ record'[t] = "completed" => m[t] = "completed"
      BY <2>1, FinishedFacts
    <2> QED
      BY <1>1, <2>1, <2>2, <2>3 DEF ContractStep
  <1>4. CASE record'[t] # record[t] /\ m[t] \notin Ended
    <2>1. record[t] = "working" /\ record'[t] \in {"input_required", "failed"}
      BY <1>4, ReconciledFacts
    <2> QED
      BY <1>1, <2>1 DEF ContractStep
  <1> QED
    BY <1>2, <1>3, <1>4

\* The handler of a run reports what its machine says; a Task that waits to be
\* resumed has no completed run to report.
LEMMA FinishIsReport ==
  ASSUME KernelInv, RetainedInv, NEW t \in Tasks, NEW u \in Tasks, NEW e \in Epochs, Finish(u, e)
  PROVE  ContractStep(t)
  <1>1. Effects' = Effects
    BY DEF Finish, Effects
  <1>2. CASE record'[t] = record[t]
    BY <1>1, <1>2 DEF ContractStep
  <1>3. CASE record'[t] # record[t]
    <2> DEFINE m == run[t][e].machine
               s == FinishedState(m, handle[t], e)
    <2>1. /\ record \in [Tasks -> RecordState] /\ RunsInv(t) /\ EffectInv(t) /\ CurrentInv(t)
      BY DEF KernelInv, TypeInv, RetainedInv
    <2>2. /\ t = u /\ record'[t] = s /\ record[t] \notin Ended /\ handle[t].epoch = e
      BY <1>3, <2>1 DEF Finish
    <2>3. record[t] \in {"working", "input_required"}
      BY <2>1, <2>2 DEF RunsInv, RecordState, Epochs
    <2>4. m = "completed" => t \in Effects
      BY <2>1 DEF EffectInv
    <2>5. record[t] = "input_required" => m # "completed"
      BY <2>1, <2>2 DEF CurrentInv, Unknown
    <2>6. /\ s \in {"completed", "failed", "canceled", "input_required"}
          /\ s = "completed" => m = "completed"
      BY FinishedFacts
    <2> HIDE DEF s, m
    <2>7. CASE record[t] = "working"
      BY <1>1, <2>2, <2>4, <2>6, <2>7 DEF ContractStep
    <2>8. CASE record[t] = "input_required"
      BY <1>1, <1>3, <2>2, <2>5, <2>6, <2>8 DEF ContractStep
    <2> QED
      BY <2>3, <2>7, <2>8
  <1> QED
    BY <1>2, <1>3

\* Every step is a step of the contract of every Task, or leaves it alone.
LEMMA StepIsContractStep ==
  ASSUME KernelInv, RetainedInv, [Next]_vars, NEW t \in Tasks
  PROVE  ContractStep(t)
  <1>1. record \in [Tasks -> RecordState]
    BY DEF KernelInv, TypeInv
  <1>2. CASE UNCHANGED <<record, commits>>
    BY <1>2 DEF ContractStep, Effects
  <1>3. ASSUME NEW u \in Tasks, Approve(u) \/ Resume(u) \/ Cancel(u)
        PROVE  ContractStep(t)
    <2>1. /\ UNCHANGED commits
          /\ \/ /\ record' = [record EXCEPT ![u] = "working"]
                /\ record[u] \in {"pending", "input_required"}
             \/ /\ record' = [record EXCEPT ![u] = "canceled"]
                /\ record[u] \in {"working", "input_required"}
      BY <1>3 DEF Approve, Resume, Cancel
    <2>2. Effects' = Effects
      BY <2>1 DEF Effects
    <2> QED
      BY <1>1, <2>1, <2>2 DEF ContractStep
  <1>4. ASSUME NEW u \in Tasks, NEW e \in Epochs, RunStep(u, e)
        PROVE  ContractStep(t)
    <2>1. CASE UNCHANGED <<record, commits>>
      BY <1>2, <2>1
    <2>2. CASE RunCommit(u, e) /\ commitSnapshot(u, e)
      <3>1. UNCHANGED <<record, binding>> /\ run[u][e].at = "commit"
        BY <2>2 DEF RunCommit, Advance
      <3>2. Effects' = Effects \cup {u} /\ u \notin Effects /\ record[u] # "pending"
        BY <2>2, <3>1, CommitMovesWorkspace
      <3> QED
        BY <3>1, <3>2 DEF ContractStep
    <2>3. RunCommit(u, e) => commitSnapshot(u, e) \/ UNCHANGED <<record, commits>>
      BY DEF RunCommit, Advance
    <2>4. ~RunCommit(u, e) => UNCHANGED <<record, commits>>
      BY <1>4 DEF RunStep, Advance, RunPrepare, RunSnapshot, RunSpec, RunMarkRunning, RunTerminate,
                  RunTerminated, RunExited, RunPersist, RunCleanup, RunFinish, RunDiscard
    <2> QED
      BY <2>1, <2>2, <2>3, <2>4
  <1>5. CASE Flush
    <2> DEFINE m == [u \in Tasks |-> getTask(u)]
    <2>1. record' = Reconciled(handle', m) /\ m[t] = getTask(t) /\ UNCHANGED commits
      BY <1>5 DEF Flush
    <2> HIDE DEF m
    <2> QED
      BY <2>1, ReconcileIsReport
  <1>6. CASE Start
    <2> DEFINE m == [u \in Tasks |-> "none"]
    <2>1. record' = Reconciled(handle', m) /\ m[t] = "none" /\ UNCHANGED commits
      BY <1>6 DEF Start
    <2> HIDE DEF m
    <2> QED
      BY <2>1, ReconcileIsReport
  <1>7. CASE Step
    <2>1. ASSUME NEW u \in Tasks, NEW e \in Epochs,
                 ChildExits(u, e) \/ TimeoutFires(u, e) \/ OutputLimitReached(u, e)
          PROVE  ContractStep(t)
      BY <1>2, <2>1 DEF ChildExits, TimeoutFires, OutputLimitReached, Advance
    <2>2. CASE Shutdown \/ Exit \/ Crash
      BY <1>2, <2>2 DEF Shutdown, Exit, Crash
    <2> QED
      BY <1>3, <1>4, <1>5, <1>6, <1>7, <2>1, <2>2, FinishIsReport DEF Step
  <1> QED
    BY <1>2, <1>7 DEF Next, vars

\* The kernel, the registry and the records keep the safety part of the contract
\* of every Task: it is reported as completed only when its work is in the
\* Workspace, the work enters once and never before an approval, and an end is
\* final (finishSingleStageExecution, commitSnapshot, reconcileInterruptedExecutions).
THEOREM KernelKeepsContract ==
  ASSUME Retains, NEW t \in Tasks
  PROVE  Spec => Contract(t)!Init /\ [][Contract(t)!Next]_(Contract(t)!contractVars)
  <1>1. Init => Contract(t)!Init
    BY DEF Init, Contract!Init, Effects
  <1>2. KernelInv /\ RetainedInv /\ [Next]_vars => [Contract(t)!Next]_(Contract(t)!contractVars)
    BY StepIsContractStep, ContractStepFacts
  <1>3. Spec => [](KernelInv /\ RetainedInv)
    BY RetainedInvariance
  <1> QED
    BY <1>1, <1>2, <1>3, PTL DEF Spec

=============================================================================
