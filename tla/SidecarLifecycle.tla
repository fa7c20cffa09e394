--------------------------- MODULE SidecarLifecycle ---------------------------
(***************************************************************************)
(* The life of the Runtime process: the native shell's bridge that starts  *)
(* it, writes requests to its stdin and waits for answers (one bridge for  *)
(* each running application), the process itself (main.ts), and the lock   *)
(* file that keeps a profile to one Runtime.                               *)
(*                                                                         *)
(* The bridge's mutex makes everything from the restart check to the write *)
(* of a request one step; the wait for the answer is outside of it.  Every *)
(* file operation of the lock is a step of its own.                        *)
(***************************************************************************)
EXTENDS Naturals, FiniteSets

CONSTANTS
  Apps,              \* running copies of the application
  Requests,          \* request ids
  MaxSpawns,         \* bound: Runtime processes
  SidecarSettings    \* the faults to consider, and the spawns of each application

SidecarFaults == {"crash", "timeout", "logout", "quit", "hard_exit"}

ASSUME SidecarAssumption ==
  /\ IsFiniteSet(Apps) /\ IsFiniteSet(Requests) /\ MaxSpawns \in Nat \ {0}
  /\ SidecarSettings \subseteq [faults : SUBSET SidecarFaults, apps : SUBSET Apps, spawns : 1 .. MaxSpawns]

VARIABLES
  world,     \* the setting of this behaviour
  bridge,    \* each application's bridge
  proc,      \* the Runtime processes
  lock,      \* the lock file of the profile
  req,       \* each request as its caller sees it
  line,      \* requests written to a process and not read yet
  busy,      \* requests that a process is handling
  reply      \* responses written and not dispatched yet

sidecarVars == <<world, bridge, proc, lock, req, line, busy, reply>>

Procs == 1 .. MaxSpawns
NoLock == [owner |-> 0, written |-> FALSE, old |-> FALSE]
Unborn == [at |-> "unborn", app |-> 0, stdin |-> "open", tries |-> 0, holds |-> FALSE, rival |-> FALSE]

Starting == {"open", "read", "stat", "recover", "write", "init"}
Closing == {"stop", "release", "unlink"}
AliveStages == Starting \cup {"serve"} \cup Closing
ProcAlive(p) == proc[p].at \in AliveStages
Answered == {"ok", "failed", "timeout"}

SpawnedBy(a) == {p \in Procs : proc[p].app = a}
Unused == {p \in Procs : proc[p].at = "unborn"}
MaySpawn(a) == Unused # {} /\ Cardinality(SpawnedBy(a)) < world.spawns
NextProc == CHOOSE p \in Unused : TRUE

-----------------------------------------------------------------------------
(* The bridge                                                              *)

\* fail_pending_responses: every caller that waits for p gets an error.
fail_pending_responses(p) ==
  [r \in Requests |-> IF req[r].at = "waiting" /\ req[r].proc = p
                      THEN [req[r] EXCEPT !.at = "failed"] ELSE req[r]]

\* request, first part: the check of disabled_for_local_logout, made before the
\* mutex is taken.
RequestArrives(a, r) ==
  /\ a \in world.apps /\ bridge[a].up /\ req[r].at = "idle"
  /\ req' = [req EXCEPT ![r] = [at |-> IF bridge[a].disabled THEN "failed" ELSE "checked",
                                app |-> a, proc |-> 0]]
  /\ UNCHANGED <<world, bridge, proc, lock, line, busy, reply>>

\* spawn_sidecar; those that are starting, this one included, note their rivals.
Spawned(a, p) ==
  [q \in Procs |->
     IF q = p THEN [Unborn EXCEPT !.at = "open", !.app = a, !.rival = \E o \in Procs : ProcAlive(o)]
     ELSE [proc[q] EXCEPT !.rival = @ \/ proc[q].at \in Starting]]

\* request, under the mutex: a process that has exited is replaced, the request
\* is registered and written.
RequestIsWritten(a, r) ==
  /\ req[r].at = "checked" /\ req[r].app = a /\ bridge[a].up /\ bridge[a].dropping = 0
  /\ LET cur == bridge[a].cur
         usable == IF cur = 0 THEN FALSE ELSE ProcAlive(cur)
         p == IF usable THEN cur ELSE NextProc
     IN
     /\ usable \/ MaySpawn(a)
     /\ bridge' = [bridge EXCEPT ![a].cur = p]
     /\ proc' = IF usable THEN proc ELSE Spawned(a, p)
     /\ line' = [line EXCEPT ![p] = @ \cup {r}]
     /\ req' = [fail_pending_responses(IF usable THEN 0 ELSE cur)
                  EXCEPT ![r] = [at |-> "waiting", app |-> a, proc |-> p]]
  /\ UNCHANGED <<world, lock, busy, reply>>

\* spawn_sidecar fails: there is no process, and the caller gets an error.
SpawnFails(a, r) ==
  /\ req[r].at = "checked" /\ req[r].app = a /\ bridge[a].up /\ bridge[a].dropping = 0
  /\ IF bridge[a].cur = 0 THEN TRUE ELSE ~ProcAlive(bridge[a].cur)
  /\ req' = [fail_pending_responses(bridge[a].cur) EXCEPT ![r].at = "failed"]
  /\ bridge' = [bridge EXCEPT ![a].cur = 0]
  /\ UNCHANGED <<world, proc, lock, line, busy, reply>>

\* The write fails because the process has just exited or is about to: the
\* bridge drops it and holds the mutex until it is gone (ManagedSidecar::terminate).
WriteFails(a, r) ==
  /\ req[r].at = "checked" /\ req[r].app = a /\ bridge[a].up /\ bridge[a].dropping = 0
  /\ bridge[a].cur # 0 /\ proc[bridge[a].cur].at \in Closing \cup {"gone", "refused"}
  /\ bridge' = [bridge EXCEPT ![a].cur = 0, ![a].dropping = bridge[a].cur]
  /\ req' = [fail_pending_responses(bridge[a].cur) EXCEPT ![r].at = "failed"]
  /\ proc' = [proc EXCEPT ![bridge[a].cur].stdin = "closed"]
  /\ UNCHANGED <<world, lock, line, busy, reply>>

Dropped(a) ==
  /\ bridge[a].dropping # 0 /\ ~ProcAlive(bridge[a].dropping)
  /\ bridge' = [bridge EXCEPT ![a].dropping = 0]
  /\ UNCHANGED <<world, proc, lock, req, line, busy, reply>>

\* wait_for_response: the timeout forgets the request, not what was written.
RequestTimesOut(r) ==
  /\ "timeout" \in world.faults /\ req[r].at = "waiting"
  /\ req' = [req EXCEPT ![r].at = "timeout"]
  /\ UNCHANGED <<world, bridge, proc, lock, line, busy, reply>>

\* dispatch_response_line: an answer that nobody waits for is dropped.
Dispatch(p, r) ==
  /\ r \in reply[p]
  /\ reply' = [reply EXCEPT ![p] = @ \ {r}]
  /\ req' = IF req[r].at = "waiting" /\ req[r].proc = p THEN [req EXCEPT ![r].at = "ok"] ELSE req
  /\ UNCHANGED <<world, bridge, proc, lock, line, busy>>

\* A variant of the reader thread that ends without a word.
ReaderEndsSilently(p) ==
  /\ proc[p].at \in {"gone", "refused"} /\ reply[p] = {}
  /\ UNCHANGED sidecarVars

\* The end of stdout, once all of it has been read.
ReaderEnds(p) ==
  /\ proc[p].at \in {"gone", "refused"} /\ reply[p] = {}
  /\ req' = fail_pending_responses(p)
  /\ UNCHANGED <<world, bridge, proc, lock, line, busy, reply>>

\* shutdown: the process is taken out of the bridge under the mutex and
\* terminated after it has been released.
TakeProcess(a, b) ==
  LET cur == bridge[a].cur IN
  /\ bridge' = [bridge EXCEPT ![a] = [b EXCEPT !.cur = 0]]
  /\ req' = IF cur = 0 THEN req ELSE fail_pending_responses(cur)
  /\ proc' = IF cur = 0 THEN proc ELSE [proc EXCEPT ![cur].stdin = "closed"]

\* The application quits, restarts or dies; its callers are gone with it.
Quit(a) ==
  /\ "quit" \in world.faults /\ a \in world.apps /\ bridge[a].up /\ bridge[a].dropping = 0
  /\ TakeProcess(a, [bridge[a] EXCEPT !.up = FALSE])
  /\ UNCHANGED <<world, lock, line, busy, reply>>

\* shutdown_for_local_logout, then remove_local_teti_profile when the process
\* that was taken is gone.
Logout(a) ==
  /\ "logout" \in world.faults /\ a \in world.apps /\ bridge[a].up /\ ~bridge[a].disabled /\ bridge[a].dropping = 0
  /\ TakeProcess(a, [bridge[a] EXCEPT !.disabled = TRUE, !.clearing = bridge[a].cur])
  /\ UNCHANGED <<world, lock, line, busy, reply>>

ProfileIsCleared(a) ==
  /\ bridge[a].disabled /\ ~bridge[a].cleared
  /\ IF bridge[a].clearing = 0 THEN TRUE ELSE ~ProcAlive(bridge[a].clearing)
  /\ bridge' = [bridge EXCEPT ![a].cleared = TRUE]
  /\ lock' = NoLock
  /\ UNCHANGED <<world, proc, req, line, busy, reply>>

\* terminate: after the grace periods the process group is killed.
ForceKill(p) ==
  /\ ProcAlive(p) /\ proc[p].stdin = "closed"
  /\ proc' = [proc EXCEPT ![p].at = "gone", ![p].holds = FALSE]
  /\ busy' = [busy EXCEPT ![p] = {}]
  /\ UNCHANGED <<world, bridge, lock, req, line, reply>>

-----------------------------------------------------------------------------
(* The lock: acquireTetiRuntimeProfileLock                                 *)

ProcStep(p, q) ==
  /\ proc' = [proc EXCEPT ![p] = q]
  /\ UNCHANGED <<world, bridge, req, line, busy, reply>>

\* Startup ends here; there is no lock to release.
Refuse(p) == [proc[p] EXCEPT !.at = "refused"]

\* open(path, "wx"), at most three times
LockOpen(p) ==
  /\ proc[p].at = "open"
  /\ \/ /\ proc[p].tries = 3 /\ ProcStep(p, Refuse(p)) /\ UNCHANGED lock
     \/ /\ proc[p].tries < 3 /\ lock = NoLock
        /\ lock' = [owner |-> p, written |-> FALSE, old |-> FALSE]
        /\ ProcStep(p, [proc[p] EXCEPT !.at = "write"])
     \/ /\ proc[p].tries < 3 /\ lock # NoLock /\ UNCHANGED lock
        /\ ProcStep(p, [proc[p] EXCEPT !.at = "read", !.tries = @ + 1])

\* writeFile and sync: into the file that was opened, wherever it is by now.
LockWrite(p) ==
  /\ proc[p].at = "write"
  /\ lock' = IF lock.owner = p THEN [lock EXCEPT !.written = TRUE] ELSE lock
  /\ ProcStep(p, [proc[p] EXCEPT !.at = "init", !.holds = TRUE])

\* readLockMetadata and isProcessAlive
LockRead(p) ==
  /\ proc[p].at = "read"
  /\ \/ lock.written /\ ProcAlive(lock.owner) /\ ProcStep(p, Refuse(p))
     \/ lock.written /\ ~ProcAlive(lock.owner) /\ ProcStep(p, [proc[p] EXCEPT !.at = "recover"])
     \/ ~lock.written /\ ProcStep(p, [proc[p] EXCEPT !.at = "stat"])
  /\ UNCHANGED lock

\* isFreshUnknownLock
LockStat(p) ==
  /\ proc[p].at = "stat"
  /\ \/ lock # NoLock /\ ~lock.old /\ ProcStep(p, [Refuse(p) EXCEPT !.rival = TRUE])
     \/ (lock = NoLock \/ lock.old) /\ ProcStep(p, [proc[p] EXCEPT !.at = "recover"])
  /\ UNCHANGED lock

\* A variant that gives up when the first recovery has not helped.
LockRecoverOnce(p) ==
  /\ proc[p].at = "recover"
  /\ UNCHANGED lock
  /\ ProcStep(p, Refuse(p))

\* quarantineStaleLock: whatever is at the path now is moved away.
LockRecover(p) ==
  /\ proc[p].at = "recover"
  /\ lock' = NoLock
  /\ ProcStep(p, [proc[p] EXCEPT !.at = "open"])

\* A lock without an owner's data is taken for stale 30 seconds after its writer
\* died; a living writer writes at once.
LockAges ==
  /\ lock # NoLock /\ ~lock.written /\ ~lock.old /\ ~ProcAlive(lock.owner)
  /\ lock' = [lock EXCEPT !.old = TRUE]
  /\ UNCHANGED <<world, bridge, proc, req, line, busy, reply>>

-----------------------------------------------------------------------------
(* The process: main.ts                                                    *)

\* The rest of startSidecar: the runtime starts, or startup fails.
Initialize(p) ==
  /\ proc[p].at = "init"
  /\ \/ ProcStep(p, [proc[p] EXCEPT !.at = "serve"])
     \/ ProcStep(p, [proc[p] EXCEPT !.at = "release"])
  /\ UNCHANGED lock

\* handleLine: the request is handled while others are.
HandleLine(p, r) ==
  /\ proc[p].at = "serve" /\ r \in line[p]
  /\ line' = [line EXCEPT ![p] = @ \ {r}]
  /\ busy' = [busy EXCEPT ![p] = @ \cup {r}]
  /\ UNCHANGED <<world, bridge, proc, lock, req, reply>>

\* writeResponse: also while the runtime stops.
WriteResponse(p, r) ==
  /\ ProcAlive(p) /\ r \in busy[p]
  /\ busy' = [busy EXCEPT ![p] = @ \ {r}]
  /\ reply' = [reply EXCEPT ![p] = @ \cup {r}]
  /\ UNCHANGED <<world, bridge, proc, lock, req, line>>

\* A variant that does not listen for the end of stdin.
BeginShutdownOnSignal(p) ==
  /\ proc[p].at = "serve" /\ "crash" \in world.faults
  /\ ProcStep(p, [proc[p] EXCEPT !.at = "stop"])
  /\ UNCHANGED lock

\* beginShutdown: stdin has ended, SIGTERM came, or an error was not caught.
BeginShutdown(p) ==
  /\ proc[p].at = "serve"
  /\ proc[p].stdin = "closed" \/ "crash" \in world.faults
  /\ ProcStep(p, [proc[p] EXCEPT !.at = "stop"])
  /\ UNCHANGED lock

\* A variant of release that removes the lock before the runtime has stopped.
ReleaseFirst(p) ==
  /\ proc[p].at = "stop"
  /\ lock' = IF lock.owner = p THEN NoLock ELSE lock
  /\ ProcStep(p, [proc[p] EXCEPT !.at = "release"])

\* runtime.stop has settled, or its deadline has passed.
RuntimeStopped(p) ==
  /\ proc[p].at = "stop"
  /\ ProcStep(p, [proc[p] EXCEPT !.at = "release"])
  /\ UNCHANGED lock

\* release: the token is read, and then the file removed.
LockRelease(p) ==
  /\ proc[p].at = "release"
  /\ ProcStep(p, IF lock.owner = p /\ lock.written
                 THEN [proc[p] EXCEPT !.at = "unlink"]
                 ELSE [proc[p] EXCEPT !.at = "gone", !.holds = FALSE])
  /\ UNCHANGED lock

LockUnlink(p) ==
  /\ proc[p].at = "unlink"
  /\ lock' = NoLock
  /\ ProcStep(p, [proc[p] EXCEPT !.at = "gone", !.holds = FALSE])

\* A crash, or the hard limit of beginShutdown: the lock stays.
ProcessDies(p) ==
  /\ \/ "crash" \in world.faults /\ ProcAlive(p)
     \/ "hard_exit" \in world.faults /\ proc[p].at \in Closing
  /\ proc' = [proc EXCEPT ![p].at = "gone", ![p].holds = FALSE]
  /\ busy' = [busy EXCEPT ![p] = {}]
  /\ UNCHANGED <<world, bridge, lock, req, line, reply>>

-----------------------------------------------------------------------------
NoBridge == [up |-> TRUE, cur |-> 0, dropping |-> 0, disabled |-> FALSE, clearing |-> 0, cleared |-> FALSE]

SidecarInit ==
  /\ world \in SidecarSettings
  /\ bridge = [a \in Apps |-> NoBridge]
  /\ proc = [p \in Procs |-> Unborn]
  /\ lock = NoLock
  /\ req = [r \in Requests |-> [at |-> "idle", app |-> 0, proc |-> 0]]
  /\ line = [p \in Procs |-> {}] /\ busy = [p \in Procs |-> {}] /\ reply = [p \in Procs |-> {}]

StartStep(p) ==
  LockOpen(p) \/ LockWrite(p) \/ LockRead(p) \/ LockStat(p) \/ LockRecover(p) \/ Initialize(p)
EndStep(p) ==
  (proc[p].stdin = "closed" /\ BeginShutdown(p)) \/ RuntimeStopped(p) \/ LockRelease(p) \/ LockUnlink(p)

SidecarNext ==
  \/ \E a \in Apps, r \in Requests :
       RequestArrives(a, r) \/ RequestIsWritten(a, r) \/ SpawnFails(a, r) \/ WriteFails(a, r)
  \/ \E a \in Apps : Dropped(a) \/ Quit(a) \/ Logout(a) \/ ProfileIsCleared(a)
  \/ \E p \in Procs : ReaderEnds(p) \/ ForceKill(p) \/ StartStep(p) \/ BeginShutdown(p)
                      \/ EndStep(p) \/ ProcessDies(p)
  \/ \E p \in Procs, r \in Requests : HandleLine(p, r) \/ WriteResponse(p, r) \/ Dispatch(p, r)
  \/ \E r \in Requests : RequestTimesOut(r)
  \/ LockAges

\* Threads and event loops go on, children included; a mutex is handed over.
SidecarFairness ==
  /\ \A a \in Apps, r \in Requests :
       WF_sidecarVars(RequestIsWritten(a, r) \/ SpawnFails(a, r) \/ WriteFails(a, r))
  /\ \A a \in Apps : WF_sidecarVars(Dropped(a))
  /\ \A p \in Procs : WF_sidecarVars(StartStep(p)) /\ WF_sidecarVars(EndStep(p)) /\ WF_sidecarVars(ReaderEnds(p))
  /\ \A p \in Procs, r \in Requests :
       WF_sidecarVars(HandleLine(p, r)) /\ WF_sidecarVars(WriteResponse(p, r)) /\ WF_sidecarVars(Dispatch(p, r))

SidecarSpec == SidecarInit /\ [][SidecarNext]_sidecarVars /\ SidecarFairness

-----------------------------------------------------------------------------
(* Properties                                                              *)

\* "Exactly one Runtime may own a local Teti profile": two processes never hold it
\* at once (acquireTetiRuntimeProfileLock, release).
OneRuntimePerProfile == Cardinality({p \in Procs : proc[p].holds}) <= 1

\* A Runtime refuses to start only when there was another one, or a lock too young
\* to be judged: what a dead Runtime left behind does not keep it out.
RefusalHasAReason == \A p \in Procs : proc[p].at = "refused" => proc[p].rival

\* The lock admits one Runtime, and keeps one out only for a cause.
LockIsSound == OneRuntimePerProfile /\ RefusalHasAReason

\* A caller gets an answer or an error even without the timeout, as long as its
\* application runs (fail_pending_responses, dispatch_response_line).
EveryRequestIsAnswered ==
  \A r \in Requests, a \in Apps :
    req[r].at \in {"checked", "waiting"} /\ req[r].app = a ~> req[r].at \in Answered \/ ~bridge[a].up

\* The processes of an application that is gone end by themselves, without a
\* kill (reader close, beginShutdown).
QuitLeavesNoProcess ==
  \A a \in Apps : ~bridge[a].up ~> \A p \in Procs : proc[p].app = a => ~ProcAlive(p)

\* Neither a request nor a process is left behind.
NothingIsLeftBehind == EveryRequestIsAnswered /\ QuitLeavesNoProcess
=============================================================================
