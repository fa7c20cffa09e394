---------------------------- MODULE RuntimeProofs ----------------------------
(***************************************************************************)
(* Proofs about the Runtime's processes and the lock of their profile: a   *)
(* Runtime is refused only for a reason (RefusalHasAReason), and the lock  *)
(* keeps a profile to one Runtime (OneRuntimePerProfile) as long as no     *)
(* other start is about to move it away; and about the tasks a Runtime     *)
(* sends to an external Agent (SentToTheQualifiedAgent).                   *)
(***************************************************************************)
EXTENDS SidecarLifecycle, AgentAuthority, FiniteSetTheorems, TLAPS

-----------------------------------------------------------------------------
(* The lock                                                                *)

(* A process that has not created the lock file yet, and one that has.     *)
Judging == {"open", "read", "stat", "recover"}
Owning == {"write", "init", "serve", "stop", "release", "unlink"}

ProcRecords ==
  [at : {"unborn", "gone", "refused"} \cup Judging \cup Owning, app : Apps \cup {0},
   stdin : {"open", "closed"}, tries : 0 .. 3, holds : BOOLEAN, rival : BOOLEAN]

(* The lock names a process that has created it; it is old only when that  *)
(* process has died.                                                       *)
LockTypes ==
  /\ proc \in [Procs -> ProcRecords]
  /\ lock \in [owner : Procs \cup {0}, written : BOOLEAN, old : BOOLEAN]
  /\ lock.owner = 0 => lock = NoLock
  /\ lock.owner # 0 => proc[lock.owner].at \notin Judging \cup {"unborn"}
  /\ lock.old => ~ProcAlive(lock.owner)

(* A process that starts knows of the others: it has failed to create the  *)
(* lock twice, or once after a recovery, only because of one.              *)
RivalsAreNoted ==
  \A p \in Procs :
    /\ proc[p].at \in Starting => \A q \in Procs : q # p /\ ProcAlive(q) => proc[p].rival
    /\ proc[p].at = "refused" => proc[p].rival
    /\ proc[p].at \in Judging /\ proc[p].tries >= 2 => proc[p].rival
    /\ proc[p].at = "open" /\ proc[p].tries >= 1 /\ lock # NoLock => proc[p].rival

RefusalInv == LockTypes /\ RivalsAreNoted

(* No Runtime creates the lock while another one is about to move away the *)
(* lock it has found dead (quarantineStaleLock renames whatever is there), *)
(* and no logout removes the profile's files.                              *)
LockIsUndisturbed ==
  /\ \A p, q \in Procs : ~(proc[p].at = "recover" /\ proc[q].at = "write")
  /\ \A a \in Apps : ~bridge[a].disabled

(* Who has created the lock has it, and who is about to move a lock away   *)
(* has found one that nobody has.                                          *)
LockIsOwned ==
  \A p \in Procs :
    /\ proc[p].holds => proc[p].at \in Owning
    /\ proc[p].at \in Owning => lock.owner = p /\ (proc[p].at # "write" => lock.written)
    /\ proc[p].at = "recover" => \A q \in Procs : proc[q].at \notin Owning

OwnerInv == LockTypes /\ LockIsOwned

(* Alive are those that judge and those that own.                          *)
LEMMA AliveStagesAre == AliveStages = Judging \cup Owning
BY DEF AliveStages, Starting, Closing, Judging, Owning

(* No process and no lock.                                                 *)
LEMMA LockBegins == SidecarInit => RefusalInv /\ OwnerInv
<1> SUFFICES ASSUME SidecarInit PROVE RefusalInv /\ OwnerInv
  OBVIOUS
<1>1. proc = [p \in Procs |-> Unborn] /\ lock = NoLock
  BY DEF SidecarInit
<1>2. Unborn \in ProcRecords /\ Unborn.at = "unborn" /\ Unborn.holds = FALSE
  BY DEF Unborn, ProcRecords
<1>3. LockTypes
  BY <1>1, <1>2 DEF LockTypes, NoLock
<1>4. RivalsAreNoted
  BY <1>1, <1>2 DEF RivalsAreNoted, Judging, Starting
<1>5. LockIsOwned
  BY <1>1, <1>2 DEF LockIsOwned, Owning
<1> QED BY <1>3, <1>4, <1>5 DEF RefusalInv, OwnerInv

(* The bridge's side changes no stage: only stdin is closed.               *)
Quiet ==
  /\ UNCHANGED lock
  /\ proc' \in [Procs -> ProcRecords]
  /\ \A p \in Procs : /\ proc'[p].at = proc[p].at /\ proc'[p].tries = proc[p].tries
                      /\ proc'[p].holds = proc[p].holds /\ proc'[p].rival = proc[p].rival

(* What leaves the lock and the stages of its processes alone keeps the    *)
(* invariants.                                                             *)
LEMMA QuietKeeps ==
  ASSUME Quiet, LockTypes
  PROVE  /\ LockTypes'
         /\ RivalsAreNoted => RivalsAreNoted'
         /\ LockIsOwned => LockIsOwned'
<1>1. \A p \in Procs : ProcAlive(p)' <=> ProcAlive(p)
  BY DEF Quiet, ProcAlive
<1>2. LockTypes'
  <2>1. lock' = lock /\ proc' \in [Procs -> ProcRecords]
    BY DEF Quiet
  <2>2. lock.owner # 0 => proc'[lock.owner].at \notin Judging \cup {"unborn"}
    BY DEF Quiet, LockTypes
  <2>3. lock.old => ~ProcAlive(lock.owner)'
    <3>1. lock.old => lock.owner # 0
      BY DEF LockTypes, NoLock
    <3> QED BY <1>1, <2>1, <3>1 DEF LockTypes
  <2> QED BY <2>1, <2>2, <2>3 DEF LockTypes
<1>3. RivalsAreNoted => RivalsAreNoted'
  BY <1>1 DEF RivalsAreNoted, Quiet
<1>4. LockIsOwned => LockIsOwned'
  BY DEF LockIsOwned, Quiet
<1> QED BY <1>2, <1>3, <1>4

(* Closing the stdin of a process, or of none.                             *)
LEMMA ClosingIsQuiet ==
  ASSUME NEW c, proc' = [proc EXCEPT ![c].stdin = "closed"], UNCHANGED lock, LockTypes
  PROVE  Quiet
<1>1. proc \in [Procs -> ProcRecords]
  BY DEF LockTypes
<1>2. ASSUME NEW p \in Procs
      PROVE  /\ proc'[p] \in ProcRecords
             /\ proc'[p].at = proc[p].at /\ proc'[p].tries = proc[p].tries
             /\ proc'[p].holds = proc[p].holds /\ proc'[p].rival = proc[p].rival
  BY <1>1 DEF ProcRecords
<1>3. proc' \in [Procs -> ProcRecords]
  BY <1>1, <1>2
<1> QED BY <1>2, <1>3 DEF Quiet

(* A spawned process takes a number that nobody has, and everyone who      *)
(* starts notes it.                                                        *)
LEMMA SpawnKeeps ==
  ASSUME NEW a \in Apps, Unused # {}, proc' = Spawned(a, NextProc), UNCHANGED lock, LockTypes
  PROVE  /\ LockTypes'
         /\ RivalsAreNoted => RivalsAreNoted'
         /\ LockIsOwned => LockIsOwned'
<1> DEFINE p == NextProc
<1>1. p \in Procs /\ proc[p].at = "unborn"
  <2>1. p \in Unused
    BY DEF NextProc
  <2> QED BY <2>1 DEF Unused
<1> DEFINE new == [at |-> "open", app |-> a, stdin |-> "open", tries |-> 0, holds |-> FALSE,
                   rival |-> \E o \in Procs : ProcAlive(o)]
<1>2. proc'[p] = new
  <2>1. proc'[p] = [Unborn EXCEPT !.at = "open", !.app = a, !.rival = \E o \in Procs : ProcAlive(o)]
    BY <1>1 DEF Spawned
  <2> QED BY <2>1 DEF Unborn
<1>3. ASSUME NEW q \in Procs, q # p
      PROVE  /\ proc'[q] \in ProcRecords
             /\ proc'[q].at = proc[q].at /\ proc'[q].tries = proc[q].tries /\ proc'[q].holds = proc[q].holds
             /\ proc'[q].rival <=> (proc[q].rival \/ proc[q].at \in Starting)
  <2>1. proc[q] \in ProcRecords
    BY DEF LockTypes
  <2>2. proc'[q] = [proc[q] EXCEPT !.rival = @ \/ proc[q].at \in Starting]
    BY <1>3 DEF Spawned
  <2> QED BY <2>1, <2>2 DEF ProcRecords
<1>4. proc' \in [Procs -> ProcRecords]
  <2>1. new \in ProcRecords
    BY DEF ProcRecords, Judging
  <2>2. \A q \in Procs : proc'[q] \in ProcRecords
    BY <1>2, <1>3, <2>1
  <2>3. proc' = [q \in Procs |-> proc'[q]]
    BY DEF Spawned
  <2> QED BY <2>2, <2>3
<1>5. LockTypes'
  <2>1. lock.owner # 0 => proc'[lock.owner].at \notin Judging \cup {"unborn"}
    BY <1>1, <1>3 DEF LockTypes
  <2>2. lock.old => ~ProcAlive(lock.owner)'
    <3>1. lock.old => lock.owner \in Procs /\ lock.owner # p
      BY <1>1 DEF LockTypes, NoLock
    <3> QED BY <3>1, <1>3 DEF LockTypes, ProcAlive
  <2> QED BY <1>4, <2>1, <2>2 DEF LockTypes
<1>6. RivalsAreNoted => RivalsAreNoted'
  <2> SUFFICES ASSUME RivalsAreNoted, NEW q \in Procs
               PROVE  /\ proc'[q].at \in Starting => \A o \in Procs : o # q /\ ProcAlive(o)' => proc'[q].rival
                      /\ proc'[q].at = "refused" => proc'[q].rival
                      /\ proc'[q].at \in Judging /\ proc'[q].tries >= 2 => proc'[q].rival
                      /\ proc'[q].at = "open" /\ proc'[q].tries >= 1 /\ lock' # NoLock => proc'[q].rival
    BY DEF RivalsAreNoted
  <2>1. CASE q = p
    <3>1. \A o \in Procs : o # p /\ ProcAlive(o)' => ProcAlive(o)
      BY <1>3 DEF ProcAlive
    <3> QED BY <2>1, <3>1, <1>2
  <2>2. CASE q # p
    BY <2>2, <1>3 DEF RivalsAreNoted
  <2> QED BY <2>1, <2>2
<1>7. LockIsOwned => LockIsOwned'
  <2>1. \A q \in Procs : /\ q # p => proc'[q].at = proc[q].at /\ proc'[q].holds = proc[q].holds
                         /\ proc'[p].at = "open" /\ proc'[p].holds = FALSE
    BY <1>2, <1>3
  <2>2. "open" \notin Owning
    BY DEF Owning
  <2> QED BY <2>1, <2>2 DEF LockIsOwned
<1> QED BY <1>5, <1>6, <1>7

-----------------------------------------------------------------------------
(* A step of one process                                                   *)

(* It touches no other process.                                            *)
LEMMA OneProcessSteps ==
  ASSUME NEW p \in Procs, NEW q \in ProcRecords, proc' = [proc EXCEPT ![p] = q], LockTypes
  PROVE  /\ proc' \in [Procs -> ProcRecords]
         /\ proc'[p] = q
         /\ \A o \in Procs : o # p => proc'[o] = proc[o]
BY DEF LockTypes

(* A step that makes nobody alive and creates a lock only if its process   *)
(* lives, has to account for its own process only.                         *)
LEMMA StepNotesRivals ==
  ASSUME NEW p \in Procs, NEW q \in ProcRecords, proc' = [proc EXCEPT ![p] = q],
         LockTypes, RivalsAreNoted,
         q.at \in AliveStages => ProcAlive(p),
         q.at \in Starting => proc[p].at \in Starting /\ (proc[p].rival => q.rival),
         q.at = "refused" => q.rival,
         q.at \in Judging /\ q.tries >= 2 => q.rival,
         q.at = "open" /\ q.tries >= 1 /\ lock' # NoLock => q.rival,
         lock' # NoLock /\ lock = NoLock => ProcAlive(p)
  PROVE  RivalsAreNoted'
<1>1. /\ proc'[p] = q
      /\ \A o \in Procs : o # p => proc'[o] = proc[o]
  BY OneProcessSteps
<1>2. \A o \in Procs : ProcAlive(o)' => ProcAlive(o)
  BY <1>1 DEF ProcAlive
<1> SUFFICES ASSUME NEW o \in Procs
             PROVE  /\ proc'[o].at \in Starting => \A r \in Procs : r # o /\ ProcAlive(r)' => proc'[o].rival
                    /\ proc'[o].at = "refused" => proc'[o].rival
                    /\ proc'[o].at \in Judging /\ proc'[o].tries >= 2 => proc'[o].rival
                    /\ proc'[o].at = "open" /\ proc'[o].tries >= 1 /\ lock' # NoLock => proc'[o].rival
  BY DEF RivalsAreNoted
<1>3. CASE o = p
  <2>1. q.at \in Starting => \A r \in Procs : r # p /\ ProcAlive(r)' => q.rival
    BY <1>2 DEF RivalsAreNoted
  <2> QED BY <1>1, <1>3, <2>1
<1>4. CASE o # p
  <2>1. proc'[o] = proc[o]
    BY <1>1, <1>4
  <2>2. proc[o].at \in Starting => \A r \in Procs : r # o /\ ProcAlive(r)' => proc[o].rival
    BY <1>2 DEF RivalsAreNoted
  <2>3. proc[o].at = "open" /\ proc[o].tries >= 1 /\ lock' # NoLock => proc[o].rival
    <3>1. CASE lock # NoLock
      BY <3>1 DEF RivalsAreNoted
    <3>2. CASE lock = NoLock /\ lock' # NoLock /\ proc[o].at = "open"
      <4>1. ProcAlive(p) /\ p # o /\ proc[o].at \in Starting
        BY <1>4, <3>2 DEF Starting
      <4> QED BY <4>1 DEF RivalsAreNoted
    <3> QED BY <3>1, <3>2
  <2> QED BY <2>1, <2>2, <2>3 DEF RivalsAreNoted
<1> QED BY <1>3, <1>4

(* A process that ends leaves its lock, if it has one, to the dead.        *)
LEMMA EndKeeps ==
  ASSUME NEW p \in Procs, NEW q \in ProcRecords, proc' = [proc EXCEPT ![p] = q], UNCHANGED lock,
         ProcAlive(p), q.at = "gone", ~q.holds, LockTypes
  PROVE  /\ LockTypes'
         /\ RivalsAreNoted => RivalsAreNoted'
         /\ LockIsOwned => LockIsOwned'
<1>1. /\ proc' \in [Procs -> ProcRecords]
      /\ proc'[p] = q
      /\ \A o \in Procs : o # p => proc'[o] = proc[o]
  BY OneProcessSteps
<1>2. /\ "gone" \notin AliveStages /\ "gone" \notin Judging /\ "gone" \notin Owning
      /\ "gone" \notin Starting
  BY DEF AliveStages, Starting, Closing, Judging, Owning
<1>3. LockTypes'
  <2>1. lock.owner # 0 => proc'[lock.owner].at \notin Judging \cup {"unborn"}
    BY <1>1, <1>2 DEF LockTypes
  <2>2. lock.old => ~ProcAlive(lock.owner)'
    <3>1. lock.old => lock.owner \in Procs
      BY DEF LockTypes, NoLock
    <3> QED BY <3>1, <1>1, <1>2 DEF LockTypes, ProcAlive
  <2> QED BY <1>1, <2>1, <2>2 DEF LockTypes
<1>4. RivalsAreNoted => RivalsAreNoted'
  BY <1>2, StepNotesRivals
<1>5. LockIsOwned => LockIsOwned'
  BY <1>1, <1>2 DEF LockIsOwned
<1> QED BY <1>3, <1>4, <1>5

(* What every step of a process keeps.                                     *)
Kept ==
  /\ LockTypes'
  /\ RivalsAreNoted => RivalsAreNoted'
  /\ LockIsOwned /\ LockIsUndisturbed /\ LockIsUndisturbed' => LockIsOwned'

(* A Runtime that has created its lock goes on to another stage.           *)
LEMMA OwnerMoves ==
  ASSUME NEW p \in Procs, NEW x \in {"serve", "stop", "release", "unlink"},
         proc[p].at \in Owning \ {"write"},
         proc' = [proc EXCEPT ![p] = [proc[p] EXCEPT !.at = x]], UNCHANGED lock, LockTypes
  PROVE  Kept
<1> DEFINE q == [proc[p] EXCEPT !.at = x]
<1>1. /\ q \in ProcRecords /\ q.at = x /\ q.holds = proc[p].holds
      /\ x \in Owning \ {"write"} /\ x \notin Judging \cup Starting
  BY DEF LockTypes, ProcRecords, Owning, Judging, Starting
<1>a. proc' = [proc EXCEPT ![p] = q]
  OBVIOUS
<1> HIDE DEF q
<1>2. /\ proc' \in [Procs -> ProcRecords]
      /\ proc'[p] = q
      /\ \A o \in Procs : o # p => proc'[o] = proc[o]
  BY <1>1, <1>a, OneProcessSteps
<1>3. ProcAlive(p)
  BY AliveStagesAre DEF ProcAlive
<1>4. LockTypes'
  <2>1. lock.owner # 0 => proc'[lock.owner].at \notin Judging \cup {"unborn"}
    BY <1>1, <1>2 DEF LockTypes, Owning
  <2>2. lock.old => ~ProcAlive(lock.owner)'
    <3>1. lock.old => lock.owner \in Procs /\ lock.owner # p
      BY <1>3 DEF LockTypes, NoLock
    <3> QED BY <3>1, <1>2 DEF LockTypes, ProcAlive
  <2> QED BY <1>2, <2>1, <2>2 DEF LockTypes
<1>5. RivalsAreNoted => RivalsAreNoted'
  <2>1. q.at # "refused" /\ q.at # "open" /\ q.at \notin Judging /\ q.at \notin Starting
    BY <1>1 DEF Judging
  <2> QED BY <1>1, <1>a, <1>3, <2>1, StepNotesRivals
<1>6. LockIsOwned => LockIsOwned'
  <2>1. x # "recover"
    BY <1>1 DEF Judging
  <2> QED BY <1>1, <1>2, <2>1 DEF LockIsOwned
<1> QED BY <1>4, <1>5, <1>6 DEF Kept

(* No process has the number that stands for none.                         *)
LEMMA ProcsArePositive == \A p \in Procs : p # 0
BY SidecarAssumption DEF Procs

(* open(path, "wx"): who creates the lock file has it.                     *)
LEMMA CreateKeeps ==
  ASSUME NEW p \in Procs, proc[p].at = "open", lock = NoLock, LockTypes,
         lock' = [owner |-> p, written |-> FALSE, old |-> FALSE],
         proc' = [proc EXCEPT ![p] = [proc[p] EXCEPT !.at = "write"]]
  PROVE  Kept
<1> DEFINE q == [proc[p] EXCEPT !.at = "write"]
<1>1. /\ q \in ProcRecords /\ q.at = "write" /\ q.holds = proc[p].holds /\ q.rival = proc[p].rival
      /\ "write" \in Owning /\ "write" \notin Judging /\ "write" \in Starting /\ "open" \in Starting
      /\ "open" \notin Owning
  BY DEF LockTypes, ProcRecords, Owning, Judging, Starting
<1>a. proc' = [proc EXCEPT ![p] = q]
  OBVIOUS
<1> HIDE DEF q
<1>2. /\ proc' \in [Procs -> ProcRecords]
      /\ proc'[p] = q
      /\ \A o \in Procs : o # p => proc'[o] = proc[o]
  BY <1>1, <1>a, OneProcessSteps
<1>3. ProcAlive(p)
  BY AliveStagesAre DEF ProcAlive, Judging
<1>4. LockTypes'
  <2>1. lock'.owner = p /\ lock'.written = FALSE /\ lock'.old = FALSE /\ p # 0
    BY ProcsArePositive
  <2>2. lock' \in [owner : Procs \cup {0}, written : BOOLEAN, old : BOOLEAN]
    OBVIOUS
  <2> QED BY <1>1, <1>2, <2>1, <2>2 DEF LockTypes
<1>5. RivalsAreNoted => RivalsAreNoted'
  <2>1. q.at # "refused" /\ q.at # "open" /\ q.at \notin Judging /\ proc[p].at \in Starting
    BY <1>1
  <2> QED BY <1>1, <1>a, <1>3, <2>1, StepNotesRivals
<1>6. LockIsOwned /\ LockIsUndisturbed' => LockIsOwned'
  <2> SUFFICES ASSUME LockIsOwned, LockIsUndisturbed', NEW o \in Procs
               PROVE  /\ proc'[o].holds => proc'[o].at \in Owning
                      /\ proc'[o].at \in Owning => lock'.owner = o /\ (proc'[o].at # "write" => lock'.written)
                      /\ proc'[o].at = "recover" => \A r \in Procs : proc'[r].at \notin Owning
    BY DEF LockIsOwned
  <2>1. \A r \in Procs : proc[r].at \notin Owning
    <3>1. lock.owner = 0
      BY DEF NoLock
    <3> QED BY <3>1, ProcsArePositive DEF LockIsOwned
  <2>2. proc'[o].at # "recover"
    BY <1>1, <1>2 DEF LockIsUndisturbed
  <2>3. proc'[o].at \in Owning => o = p
    BY <1>2, <2>1
  <2> QED BY <1>1, <1>2, <2>2, <2>3 DEF LockIsOwned
<1> QED BY <1>4, <1>5, <1>6 DEF Kept

(* A process that judges the lock goes on judging it, or is refused; it    *)
(* goes to recover only when nobody has the lock.                          *)
LEMMA JudgeKeeps ==
  ASSUME NEW p \in Procs, proc[p].at \in Judging, UNCHANGED lock, LockTypes,
         NEW q \in ProcRecords, q.at \in Judging \cup {"refused"}, q.holds = proc[p].holds,
         proc' = [proc EXCEPT ![p] = q],
         q.at = "recover" /\ LockIsOwned => \A r \in Procs : proc[r].at \notin Owning,
         RivalsAreNoted => /\ proc[p].rival => q.rival
                           /\ q.at = "refused" => q.rival
                           /\ q.tries >= 2 => q.rival
                           /\ q.at # "open"
  PROVE  Kept
<1>1. /\ proc' \in [Procs -> ProcRecords]
      /\ proc'[p] = q
      /\ \A o \in Procs : o # p => proc'[o] = proc[o]
  BY OneProcessSteps
<1>2. /\ ProcAlive(p) /\ q.at \notin Owning /\ proc[p].at \in Starting
      /\ q.at \in Starting => q.at \in Judging
      /\ "refused" \notin AliveStages
  BY AliveStagesAre DEF ProcAlive, Judging, Owning, Starting, AliveStages, Closing
<1>3. LockTypes'
  <2>1. lock.owner # 0 => lock.owner # p
    BY DEF LockTypes
  <2>2. lock.owner # 0 => proc'[lock.owner].at \notin Judging \cup {"unborn"}
    BY <1>1, <2>1 DEF LockTypes
  <2>3. lock.old => ~ProcAlive(lock.owner)'
    <3>1. lock.old => lock.owner \in Procs /\ lock.owner # p
      BY <2>1 DEF LockTypes, NoLock
    <3> QED BY <3>1, <1>1 DEF LockTypes, ProcAlive
  <2> QED BY <1>1, <2>2, <2>3 DEF LockTypes
<1>4. RivalsAreNoted => RivalsAreNoted'
  BY <1>2, StepNotesRivals
<1>5. LockIsOwned => LockIsOwned'
  <2>1. proc[p].at \notin Owning
    BY DEF Judging, Owning
  <2> QED BY <1>1, <1>2, <2>1 DEF LockIsOwned
<1> QED BY <1>3, <1>4, <1>5 DEF Kept

(* open(path, "wx") fails when there is a lock: once because of a dead     *)
(* Runtime's, and again only because of a rival's.                         *)
LEMMA OpenKeeps ==
  ASSUME NEW p \in Procs, LockOpen(p), LockTypes
  PROVE  Kept
<1>1. proc[p].at = "open" /\ proc[p].at \in Judging /\ proc[p] \in ProcRecords
  BY DEF LockOpen, LockTypes, Judging
<1>2. CASE proc[p].tries = 3 /\ ProcStep(p, Refuse(p)) /\ UNCHANGED lock
  <2> DEFINE q == [proc[p] EXCEPT !.at = "refused"]
  <2>1. /\ q \in ProcRecords /\ q.at = "refused" /\ q.holds = proc[p].holds /\ q.rival = proc[p].rival
        /\ q.tries = proc[p].tries /\ "refused" # "open" /\ "refused" # "recover"
    BY <1>1 DEF ProcRecords
  <2>2. proc' = [proc EXCEPT ![p] = q]
    BY <1>2 DEF ProcStep, Refuse
  <2>3. RivalsAreNoted => proc[p].rival
    BY <1>1, <1>2 DEF RivalsAreNoted
  <2> HIDE DEF q
  <2> QED BY <1>1, <1>2, <2>1, <2>2, <2>3, JudgeKeeps
<1>3. CASE /\ proc[p].tries < 3 /\ lock = NoLock
           /\ lock' = [owner |-> p, written |-> FALSE, old |-> FALSE]
           /\ ProcStep(p, [proc[p] EXCEPT !.at = "write"])
  <2>1. proc' = [proc EXCEPT ![p] = [proc[p] EXCEPT !.at = "write"]]
    BY <1>3 DEF ProcStep
  <2>2. lock = NoLock /\ lock' = [owner |-> p, written |-> FALSE, old |-> FALSE]
    BY <1>3
  <2>3. proc[p].at = "open"
    BY <1>1
  <2> QED BY <2>1, <2>2, <2>3, CreateKeeps
<1>4. CASE /\ proc[p].tries < 3 /\ lock # NoLock /\ UNCHANGED lock
           /\ ProcStep(p, [proc[p] EXCEPT !.at = "read", !.tries = @ + 1])
  <2> DEFINE q == [proc[p] EXCEPT !.at = "read", !.tries = @ + 1]
  <2>1. /\ q \in ProcRecords /\ q.at = "read" /\ q.holds = proc[p].holds /\ q.rival = proc[p].rival
        /\ q.tries = proc[p].tries + 1 /\ proc[p].tries \in 0 .. 3 /\ "read" \in Judging
    <3>1. proc[p].tries \in 0 .. 3 /\ proc[p].tries + 1 \in 0 .. 3 /\ "read" \in Judging
      BY <1>1, <1>4 DEF ProcRecords, Judging
    <3>2. PICK k \in 0 .. 3 : k = proc[p].tries + 1
      BY <3>1
    <3>3. q = [proc[p] EXCEPT !.at = "read", !.tries = k]
      BY <3>2
    <3> HIDE DEF q
    <3>4. /\ q \in ProcRecords /\ q.at = "read" /\ q.holds = proc[p].holds /\ q.rival = proc[p].rival
          /\ q.tries = k
      BY <1>1, <3>1, <3>3 DEF ProcRecords
    <3> QED BY <3>1, <3>2, <3>4
  <2>2. proc' = [proc EXCEPT ![p] = q]
    BY <1>4 DEF ProcStep
  <2>3. RivalsAreNoted => (q.tries >= 2 => proc[p].rival)
    BY <1>1, <1>4, <2>1 DEF RivalsAreNoted
  <2> HIDE DEF q
  <2> QED BY <1>1, <1>4, <2>1, <2>2, <2>3, JudgeKeeps
<1> QED BY <1>2, <1>3, <1>4 DEF LockOpen

(* Where the lock's owner is dead, or there is no lock, nobody owns it.    *)
LEMMA DeadLockIsNobodys ==
  ASSUME LockTypes, LockIsOwned, lock = NoLock \/ ~ProcAlive(lock.owner)
  PROVE  \A r \in Procs : proc[r].at \notin Owning
<1>1. \A r \in Procs : proc[r].at \in Owning => lock.owner = r /\ ProcAlive(r)
  BY AliveStagesAre DEF LockIsOwned, ProcAlive
<1>2. lock = NoLock => lock.owner = 0
  BY DEF NoLock
<1> QED BY <1>1, <1>2, ProcsArePositive

(* readLockMetadata: the owner that is alive is a rival; a dead one's lock *)
(* is nobody's.                                                            *)
LEMMA LockReadKeeps ==
  ASSUME NEW p \in Procs, LockRead(p), LockTypes
  PROVE  Kept
<1>1. proc[p].at = "read" /\ proc[p].at \in Judging /\ proc[p] \in ProcRecords /\ UNCHANGED lock
  BY DEF LockRead, LockTypes, Judging
<1> DEFINE q(x) == [proc[p] EXCEPT !.at = x]
<1>2. ASSUME NEW x \in {"refused", "recover", "stat"}
      PROVE  /\ q(x) \in ProcRecords /\ q(x).at = x /\ q(x).holds = proc[p].holds
             /\ q(x).rival = proc[p].rival /\ q(x).tries = proc[p].tries
             /\ x \in Judging \cup {"refused"} /\ x # "open"
  BY <1>1 DEF ProcRecords, Judging
<1>3. RivalsAreNoted => (proc[p].tries >= 2 => proc[p].rival)
  BY <1>1 DEF RivalsAreNoted
<1>4. CASE lock.written /\ ProcAlive(lock.owner) /\ ProcStep(p, Refuse(p))
  <2>1. proc' = [proc EXCEPT ![p] = q("refused")]
    BY <1>4 DEF ProcStep, Refuse
  <2>2. lock.owner \in Procs /\ lock.owner # p
    <3>1. lock.owner # 0
      BY <1>4 DEF LockTypes, NoLock
    <3> QED BY <1>1, <3>1 DEF LockTypes
  <2>3. RivalsAreNoted => proc[p].rival
    <3>1. proc[p].at \in Starting
      BY <1>1 DEF Starting
    <3> QED BY <1>4, <2>2, <3>1 DEF RivalsAreNoted
  <2> HIDE DEF q
  <2>4. "refused" # "recover"
    OBVIOUS
  <2> QED BY <1>1, <1>2, <1>3, <2>1, <2>3, <2>4, JudgeKeeps
<1>5. CASE lock.written /\ ~ProcAlive(lock.owner) /\ ProcStep(p, [proc[p] EXCEPT !.at = "recover"])
  <2>1. proc' = [proc EXCEPT ![p] = q("recover")]
    BY <1>5 DEF ProcStep
  <2>2. LockIsOwned => \A r \in Procs : proc[r].at \notin Owning
    BY <1>5, DeadLockIsNobodys
  <2> HIDE DEF q
  <2> QED BY <1>1, <1>2, <1>3, <2>1, <2>2, JudgeKeeps
<1>6. CASE ~lock.written /\ ProcStep(p, [proc[p] EXCEPT !.at = "stat"])
  <2>1. proc' = [proc EXCEPT ![p] = q("stat")]
    BY <1>6 DEF ProcStep
  <2> HIDE DEF q
  <2> QED BY <1>1, <1>2, <1>3, <2>1, JudgeKeeps
<1> QED BY <1>4, <1>5, <1>6 DEF LockRead

(* isFreshUnknownLock: a lock that is too young to judge may be a rival's. *)
LEMMA LockStatKeeps ==
  ASSUME NEW p \in Procs, LockStat(p), LockTypes
  PROVE  Kept
<1>1. proc[p].at = "stat" /\ proc[p].at \in Judging /\ proc[p] \in ProcRecords /\ UNCHANGED lock
  BY DEF LockStat, LockTypes, Judging
<1>2. RivalsAreNoted => (proc[p].tries >= 2 => proc[p].rival)
  BY <1>1 DEF RivalsAreNoted
<1>3. CASE lock # NoLock /\ ~lock.old /\ ProcStep(p, [Refuse(p) EXCEPT !.rival = TRUE])
  <2> DEFINE q == [proc[p] EXCEPT !.at = "refused", !.rival = TRUE]
  <2>1. /\ q \in ProcRecords /\ q.at = "refused" /\ q.holds = proc[p].holds /\ q.rival = TRUE
        /\ "refused" # "open" /\ "refused" # "recover"
    BY <1>1 DEF ProcRecords
  <2>2. proc' = [proc EXCEPT ![p] = q]
    BY <1>3 DEF ProcStep, Refuse
  <2> HIDE DEF q
  <2> QED BY <1>1, <2>1, <2>2, JudgeKeeps
<1>4. CASE (lock = NoLock \/ lock.old) /\ ProcStep(p, [proc[p] EXCEPT !.at = "recover"])
  <2> DEFINE q == [proc[p] EXCEPT !.at = "recover"]
  <2>1. /\ q \in ProcRecords /\ q.at = "recover" /\ q.holds = proc[p].holds
        /\ q.rival = proc[p].rival /\ q.tries = proc[p].tries /\ "recover" \in Judging
    BY <1>1 DEF ProcRecords, Judging
  <2>2. proc' = [proc EXCEPT ![p] = q]
    BY <1>4 DEF ProcStep
  <2>3. LockIsOwned => \A r \in Procs : proc[r].at \notin Owning
    BY <1>4, DeadLockIsNobodys DEF LockTypes
  <2> HIDE DEF q
  <2> QED BY <1>1, <1>2, <2>1, <2>2, <2>3, JudgeKeeps
<1> QED BY <1>3, <1>4 DEF LockStat

(* quarantineStaleLock: what is at the path is moved away; undisturbed,    *)
(* nobody has it.                                                          *)
LEMMA RecoverKeeps ==
  ASSUME NEW p \in Procs, LockRecover(p), LockTypes
  PROVE  Kept
<1> DEFINE q == [proc[p] EXCEPT !.at = "open"]
<1>1. /\ proc[p].at = "recover" /\ lock' = NoLock
      /\ proc' = [proc EXCEPT ![p] = q]
  BY DEF LockRecover, ProcStep
<1>2. /\ q \in ProcRecords /\ q.at = "open" /\ q.holds = proc[p].holds /\ q.rival = proc[p].rival
      /\ q.tries = proc[p].tries
      /\ "open" \in Judging /\ "open" \notin Owning /\ "open" # "recover" /\ "open" # "refused"
      /\ "recover" \in Starting /\ "recover" \in Judging /\ "recover" \notin Owning
  BY <1>1 DEF LockTypes, ProcRecords, Judging, Owning, Starting
<1> HIDE DEF q
<1>3. /\ proc' \in [Procs -> ProcRecords]
      /\ proc'[p] = q
      /\ \A o \in Procs : o # p => proc'[o] = proc[o]
  BY <1>1, <1>2, OneProcessSteps
<1>4. ProcAlive(p)
  BY <1>1, <1>2, AliveStagesAre DEF ProcAlive
<1>5. LockTypes'
  <2>1. lock' = [owner |-> 0, written |-> FALSE, old |-> FALSE]
    BY <1>1 DEF NoLock
  <2> QED BY <1>1, <1>3, <2>1 DEF LockTypes
<1>6. RivalsAreNoted => RivalsAreNoted'
  <2>1. RivalsAreNoted => (q.tries >= 2 => q.rival)
    BY <1>1, <1>2 DEF RivalsAreNoted
  <2> QED BY <1>1, <1>2, <1>4, <2>1, StepNotesRivals
<1>7. LockIsOwned => LockIsOwned'
  <2> SUFFICES ASSUME LockIsOwned PROVE LockIsOwned'
    OBVIOUS
  <2>1. \A r \in Procs : proc[r].at \notin Owning
    BY <1>1 DEF LockIsOwned
  <2>2. \A r \in Procs : proc'[r].at \notin Owning
    BY <1>2, <1>3, <2>1
  <2>3. \A r \in Procs : ~proc'[r].holds
    BY <1>2, <1>3, <2>1 DEF LockIsOwned, ProcRecords
  <2> QED BY <2>2, <2>3 DEF LockIsOwned
<1> QED BY <1>5, <1>6, <1>7 DEF Kept

(* writeFile: the lock names its owner.                                    *)
LEMMA WriteKeeps ==
  ASSUME NEW p \in Procs, LockWrite(p), LockTypes
  PROVE  Kept
<1> DEFINE q == [proc[p] EXCEPT !.at = "init", !.holds = TRUE]
<1>1. /\ proc[p].at = "write"
      /\ lock' = IF lock.owner = p THEN [lock EXCEPT !.written = TRUE] ELSE lock
      /\ proc' = [proc EXCEPT ![p] = q]
  BY DEF LockWrite, ProcStep
<1>2. /\ q \in ProcRecords /\ q.at = "init" /\ q.holds = TRUE /\ q.rival = proc[p].rival
      /\ "init" \in Owning \ {"write"} /\ "init" \notin Judging /\ "init" # "refused" /\ "init" # "open"
      /\ "write" \in Owning /\ "write" \in Starting /\ "init" # "recover"
  BY <1>1 DEF LockTypes, ProcRecords, Judging, Owning, Starting
<1> HIDE DEF q
<1>3. /\ proc' \in [Procs -> ProcRecords]
      /\ proc'[p] = q
      /\ \A o \in Procs : o # p => proc'[o] = proc[o]
  BY <1>1, <1>2, OneProcessSteps
<1>4. ProcAlive(p)
  BY <1>1, <1>2, AliveStagesAre DEF ProcAlive
<1>5. /\ lock' \in [owner : Procs \cup {0}, written : BOOLEAN, old : BOOLEAN]
      /\ lock'.owner = lock.owner /\ lock'.old = lock.old
      /\ lock'.owner # p => lock' = lock
      /\ lock'.owner = p => lock'.written
      /\ lock'.written \/ lock' = lock
  BY <1>1 DEF LockTypes
<1>6. LockTypes'
  <2>1. lock'.owner = 0 => lock' = NoLock
    BY <1>5, ProcsArePositive DEF LockTypes
  <2>2. lock'.owner # 0 => proc'[lock'.owner].at \notin Judging \cup {"unborn"}
    BY <1>2, <1>3, <1>5 DEF LockTypes, Owning
  <2>3. lock'.old => ~ProcAlive(lock.owner)'
    <3>1. lock.old => lock.owner \in Procs /\ lock.owner # p
      BY <1>4 DEF LockTypes, NoLock
    <3>2. lock.old => proc'[lock.owner] = proc[lock.owner]
      BY <3>1, <1>3
    <3> QED BY <3>2, <1>5 DEF LockTypes, ProcAlive
  <2> QED BY <1>3, <1>5, <2>1, <2>2, <2>3 DEF LockTypes
<1>7. RivalsAreNoted => RivalsAreNoted'
  BY <1>1, <1>2, <1>4, StepNotesRivals
<1>8. LockIsOwned => LockIsOwned'
  BY <1>1, <1>2, <1>3, <1>5 DEF LockIsOwned
<1> QED BY <1>6, <1>7, <1>8 DEF Kept

(* release's unlink: the lock was its own.                                 *)
LEMMA UnlinkKeeps ==
  ASSUME NEW p \in Procs, LockUnlink(p), LockTypes
  PROVE  Kept
<1> DEFINE q == [proc[p] EXCEPT !.at = "gone", !.holds = FALSE]
<1>1. proc[p].at = "unlink" /\ lock' = NoLock /\ proc' = [proc EXCEPT ![p] = q]
  BY DEF LockUnlink, ProcStep
<1>2. /\ q \in ProcRecords /\ q.at = "gone" /\ q.holds = FALSE
      /\ "gone" \notin Owning \cup Judging \cup Starting \cup AliveStages
      /\ "gone" # "refused" /\ "gone" # "recover" /\ "gone" # "open" /\ "unlink" \in Owning
  BY <1>1 DEF LockTypes, ProcRecords, Judging, Owning, Starting, AliveStages, Closing
<1> HIDE DEF q
<1>3. /\ proc' \in [Procs -> ProcRecords]
      /\ proc'[p] = q
      /\ \A o \in Procs : o # p => proc'[o] = proc[o]
  BY <1>1, <1>2, OneProcessSteps
<1>4. LockTypes'
  <2>1. lock' = [owner |-> 0, written |-> FALSE, old |-> FALSE]
    BY <1>1 DEF NoLock
  <2> QED BY <1>1, <1>3, <2>1 DEF LockTypes
<1>5. RivalsAreNoted => RivalsAreNoted'
  BY <1>1, <1>2, StepNotesRivals
<1>6. LockIsOwned => LockIsOwned'
  <2> SUFFICES ASSUME LockIsOwned PROVE LockIsOwned'
    OBVIOUS
  <2>1. \A r \in Procs : r # p => proc[r].at \notin Owning
    BY <1>1, <1>2 DEF LockIsOwned
  <2>2. \A r \in Procs : proc'[r].at \notin Owning /\ ~proc'[r].holds
    BY <1>2, <1>3, <2>1 DEF LockIsOwned
  <2> QED BY <2>2 DEF LockIsOwned
<1> QED BY <1>4, <1>5, <1>6 DEF Kept

(* A dead writer's lock ages; a logout removes the lock.                   *)
LEMMA AgeKeeps ==
  ASSUME LockAges, LockTypes
  PROVE  Kept
<1>1. /\ proc' = proc /\ lock # NoLock /\ ~ProcAlive(lock.owner)
      /\ lock' = [lock EXCEPT !.old = TRUE]
  BY DEF LockAges
<1>2. /\ lock' \in [owner : Procs \cup {0}, written : BOOLEAN, old : BOOLEAN]
      /\ lock'.owner = lock.owner /\ lock'.written = lock.written /\ lock.owner # 0
  BY <1>1 DEF LockTypes
<1>3. LockTypes'
  BY <1>1, <1>2 DEF LockTypes, ProcAlive
<1>4. RivalsAreNoted => RivalsAreNoted'
  BY <1>1 DEF RivalsAreNoted, ProcAlive
<1>5. LockIsOwned => LockIsOwned'
  BY <1>1, <1>2 DEF LockIsOwned
<1> QED BY <1>3, <1>4, <1>5 DEF Kept

(* A logout that clears the profile takes the lock with it.                *)
LEMMA ClearKeeps ==
  ASSUME NEW a \in Apps, ProfileIsCleared(a), LockTypes
  PROVE  Kept
<1>1. proc' = proc /\ bridge[a].disabled
      /\ lock' = [owner |-> 0, written |-> FALSE, old |-> FALSE]
  BY DEF ProfileIsCleared, NoLock
<1>2. LockTypes'
  BY <1>1 DEF LockTypes, NoLock
<1>3. RivalsAreNoted => RivalsAreNoted'
  BY <1>1 DEF RivalsAreNoted, ProcAlive, NoLock
<1>4. ~LockIsUndisturbed
  BY <1>1 DEF LockIsUndisturbed
<1> QED BY <1>2, <1>3, <1>4 DEF Kept

-----------------------------------------------------------------------------
(* The steps                                                               *)

(* The threads of the bridge and the answers do not touch the lock.        *)
LEMMA BridgeIsQuiet ==
  ASSUME LockTypes,
         \/ \E a \in Apps, r \in Requests : RequestArrives(a, r) \/ SpawnFails(a, r) \/ WriteFails(a, r)
         \/ \E a \in Apps : Dropped(a) \/ Quit(a) \/ Logout(a)
         \/ \E p \in Procs : ReaderEnds(p)
         \/ \E p \in Procs, r \in Requests : HandleLine(p, r) \/ WriteResponse(p, r) \/ Dispatch(p, r)
         \/ \E r \in Requests : RequestTimesOut(r)
         \/ UNCHANGED sidecarVars
  PROVE  Kept
<1>1. UNCHANGED lock
  BY DEF RequestArrives, SpawnFails, WriteFails, Dropped, Quit, Logout, TakeProcess, ReaderEnds,
         HandleLine, WriteResponse, Dispatch, RequestTimesOut, sidecarVars
<1>2. UNCHANGED proc \/ \E c : proc' = [proc EXCEPT ![c].stdin = "closed"]
  <2>1. CASE \E a \in Apps, r \in Requests : RequestArrives(a, r) \/ SpawnFails(a, r) \/ WriteFails(a, r)
    BY <2>1 DEF RequestArrives, SpawnFails, WriteFails
  <2>2. CASE \E a \in Apps : Dropped(a) \/ Quit(a) \/ Logout(a)
    BY <2>2 DEF Dropped, Quit, Logout, TakeProcess
  <2>3. CASE \E p \in Procs : ReaderEnds(p)
    BY <2>3 DEF ReaderEnds
  <2>4. CASE \E p \in Procs, r \in Requests : HandleLine(p, r) \/ WriteResponse(p, r) \/ Dispatch(p, r)
    BY <2>4 DEF HandleLine, WriteResponse, Dispatch
  <2>5. CASE (\E r \in Requests : RequestTimesOut(r)) \/ UNCHANGED sidecarVars
    BY <2>5 DEF RequestTimesOut, sidecarVars
  <2> QED BY <2>1, <2>2, <2>3, <2>4, <2>5
<1>3. Quiet
  <2>1. UNCHANGED proc => Quiet
    BY <1>1 DEF Quiet, LockTypes
  <2> QED BY <1>1, <1>2, <2>1, ClosingIsQuiet
<1> QED BY <1>3, QuietKeeps DEF Kept

(* A request is written to the process at hand or to a new one.            *)
LEMMA RequestIsWrittenKeeps ==
  ASSUME NEW a \in Apps, NEW r \in Requests, RequestIsWritten(a, r), LockTypes
  PROVE  Kept
<1>1. UNCHANGED lock
  BY DEF RequestIsWritten
<1>2. UNCHANGED proc \/ (Unused # {} /\ proc' = Spawned(a, NextProc))
  BY DEF RequestIsWritten, MaySpawn
<1>3. CASE UNCHANGED proc
  <2>1. Quiet
    BY <1>1, <1>3 DEF Quiet, LockTypes
  <2> QED BY <2>1, QuietKeeps DEF Kept
<1>4. CASE Unused # {} /\ proc' = Spawned(a, NextProc)
  BY <1>1, <1>4, SpawnKeeps DEF Kept
<1> QED BY <1>2, <1>3, <1>4

(* A kill or a crash.                                                      *)
LEMMA DeathKeeps ==
  ASSUME NEW p \in Procs, ForceKill(p) \/ ProcessDies(p), LockTypes
  PROVE  Kept
<1> DEFINE q == [proc[p] EXCEPT !.at = "gone", !.holds = FALSE]
<1>1. ProcAlive(p) /\ UNCHANGED lock /\ proc' = [proc EXCEPT ![p] = q]
  BY DEF ForceKill, ProcessDies, ProcAlive, AliveStages, LockTypes
<1>2. q \in ProcRecords /\ q.at = "gone" /\ ~q.holds
  BY DEF LockTypes, ProcRecords
<1> HIDE DEF q
<1> QED BY <1>1, <1>2, EndKeeps DEF Kept

(* Starting, serving and stopping.                                         *)
LEMMA StagesKeep ==
  ASSUME NEW p \in Procs, LockTypes,
         Initialize(p) \/ BeginShutdown(p) \/ RuntimeStopped(p) \/ LockRelease(p)
  PROVE  Kept
<1>1. CASE \E x \in {"serve", "stop", "release", "unlink"} :
             /\ proc[p].at \in Owning \ {"write"} /\ UNCHANGED lock
             /\ proc' = [proc EXCEPT ![p] = [proc[p] EXCEPT !.at = x]]
  BY <1>1, OwnerMoves
<1>2. CASE /\ proc[p].at = "release" /\ UNCHANGED lock
           /\ proc' = [proc EXCEPT ![p] = [proc[p] EXCEPT !.at = "gone", !.holds = FALSE]]
  <2> DEFINE q == [proc[p] EXCEPT !.at = "gone", !.holds = FALSE]
  <2>1. q \in ProcRecords /\ q.at = "gone" /\ ~q.holds
    BY DEF LockTypes, ProcRecords
  <2>2. ProcAlive(p)
    BY <1>2, AliveStagesAre DEF ProcAlive, Owning
  <2>3. proc' = [proc EXCEPT ![p] = q] /\ UNCHANGED lock
    BY <1>2
  <2> HIDE DEF q
  <2> QED BY <2>1, <2>2, <2>3, EndKeeps DEF Kept
<1>3. CASE Initialize(p)
  BY <1>1, <1>3 DEF Initialize, ProcStep, Owning
<1>4. CASE BeginShutdown(p)
  BY <1>1, <1>4 DEF BeginShutdown, ProcStep, Owning
<1>5. CASE RuntimeStopped(p)
  BY <1>1, <1>5 DEF RuntimeStopped, ProcStep, Owning
<1>6. CASE LockRelease(p)
  <2>1. CASE lock.owner = p /\ lock.written
    BY <1>1, <1>6, <2>1 DEF LockRelease, ProcStep, Owning
  <2>2. CASE ~(lock.owner = p /\ lock.written)
    BY <1>2, <1>6, <2>2 DEF LockRelease, ProcStep
  <2> QED BY <2>1, <2>2
<1> QED BY <1>3, <1>4, <1>5, <1>6

(* Every step keeps the kinds and the notes, and an undisturbed one keeps  *)
(* the lock with its owner.                                                *)
LEMMA SidecarStepKeeps ==
  ASSUME [SidecarNext]_sidecarVars, LockTypes
  PROVE  Kept
<1>1. ASSUME NEW p \in Procs, StartStep(p) PROVE Kept
  BY <1>1, OpenKeeps, WriteKeeps, LockReadKeeps, LockStatKeeps, RecoverKeeps, StagesKeep DEF StartStep
<1>2. ASSUME NEW p \in Procs, EndStep(p) PROVE Kept
  BY <1>2, UnlinkKeeps, StagesKeep DEF EndStep
<1>3. ASSUME NEW p \in Procs, BeginShutdown(p) PROVE Kept
  BY <1>3, StagesKeep
<1> QED BY <1>1, <1>2, <1>3, BridgeIsQuiet, RequestIsWrittenKeeps, DeathKeeps, AgeKeeps, ClearKeeps
        DEF SidecarNext

-----------------------------------------------------------------------------
(* Whatever the applications, their requests and the faults do, a Runtime  *)
(* that gives up has met another one, or a lock too young to be judged:    *)
(* the lock of a dead Runtime keeps nobody out                             *)
(* (acquireTetiRuntimeProfileLock).                                        *)
THEOREM RefusalsHaveReasons == SidecarSpec => []RefusalHasAReason
<1>1. SidecarInit => RefusalInv
  BY LockBegins
<1>2. RefusalInv /\ [SidecarNext]_sidecarVars => RefusalInv'
  BY SidecarStepKeeps DEF RefusalInv, Kept
<1>3. RefusalInv => RefusalHasAReason
  BY DEF RefusalInv, RivalsAreNoted, RefusalHasAReason
<1> QED BY <1>1, <1>2, <1>3, PTL DEF SidecarSpec

(* At most one Runtime holds the profile where the lock is undisturbed.    *)
LEMMA OwnersAreOne ==
  ASSUME OwnerInv
  PROVE  OneRuntimePerProfile
<1> DEFINE H == {p \in Procs : proc[p].holds}
<1>1. \A p, q \in H : p = q
  BY DEF OwnerInv, LockIsOwned
<1>2. CASE H = {}
  <2>1. Cardinality(H) = 0
    BY <1>2, FS_EmptySet
  <2> QED BY <2>1 DEF OneRuntimePerProfile
<1>3. CASE H # {}
  <2>1. PICK p : H = {p}
    BY <1>1, <1>3
  <2>2. Cardinality(H) = 1
    BY <2>1, FS_Singleton
  <2> QED BY <2>2 DEF OneRuntimePerProfile
<1> QED BY <1>2, <1>3

(* For any applications, spawns and faults: as long as no Runtime creates  *)
(* the lock while another one is about to move a dead one's away, and no   *)
(* logout clears the profile, the lock admits one Runtime at a time, and   *)
(* keeps one out only for a cause.  What it takes is that an owner's lock  *)
(* stays at its path from the write to the release; that two starts which  *)
(* do cross break it is what the run lock_race shows.                      *)
THEOREM LockIsSoundUndisturbed == SidecarSpec /\ []LockIsUndisturbed => []LockIsSound
<1>1. SidecarInit => OwnerInv
  BY LockBegins
<1>2. OwnerInv /\ LockIsUndisturbed /\ LockIsUndisturbed' /\ [SidecarNext]_sidecarVars => OwnerInv'
  BY SidecarStepKeeps DEF OwnerInv, Kept
<1>3. OwnerInv => OneRuntimePerProfile
  BY OwnersAreOne
<1>4. SidecarSpec /\ []LockIsUndisturbed => []OneRuntimePerProfile
  BY <1>1, <1>2, <1>3, PTL DEF SidecarSpec
<1>5. OneRuntimePerProfile /\ RefusalHasAReason => LockIsSound
  BY DEF LockIsSound
<1> QED BY <1>4, <1>5, RefusalsHaveReasons, PTL

-----------------------------------------------------------------------------
(* The external Agent                                                      *)

(* An execution whose specification was created is for the record that was *)
(* qualified, and one that has sent the task sent it to the process that   *)
(* was qualified with it.                                                  *)
CallInv ==
  /\ call = [at |-> call.at, base |-> call.base, digest |-> call.digest, pid |-> call.pid, peer |-> call.peer]
  /\ call.at \in {"authority", "listener", "connect", "socket", "sent"} => call.digest = call.base.digest
  /\ call.at = "sent" => call.peer = call.pid

(* No step of the other application, of the qualification loop or of the   *)
(* execution breaks it.                                                    *)
LEMMA AuthorityStep == CallInv /\ [AuthorityNext]_authorityVars => CallInv'
<1> SUFFICES ASSUME CallInv, [AuthorityNext]_authorityVars PROVE CallInv'
  OBVIOUS
<1>1. \/ call' = call
      \/ call' = [call EXCEPT !.at = "over"]
      \/ \E c : call' = [Idle EXCEPT !.at = "refresh", !.base = c]
      \/ CreateExecutionSpec \/ VerifyAgentAuthority \/ VerifyListener \/ Connect \/ VerifyConnectedSocket
  BY DEF AuthorityNext, authorityVars, RuntimeRestarts, RecordChanges, SetAgent, LoopStep, ReadConfiguration,
         DiscoverRuntime, Audit, Probe, ApplyQualification, RetryTimer, StartCall, EndCall, CallFails, CallStep
<1>2. CASE call' = call
  BY <1>2 DEF CallInv
<1>3. CASE call' = [call EXCEPT !.at = "over"]
  BY <1>3 DEF CallInv
<1>4. CASE \E c : call' = [Idle EXCEPT !.at = "refresh", !.base = c]
  BY <1>4 DEF CallInv, Idle
<1>5. CASE CreateExecutionSpec
  <2>1. call' = [call EXCEPT !.at = "authority", !.digest = call.base.digest, !.pid = listener]
        \/ call' = [call EXCEPT !.at = "over"]
    BY <1>5 DEF CreateExecutionSpec, CallFails, CallStep
  <2> QED BY <1>3, <2>1 DEF CallInv
<1>6. CASE VerifyAgentAuthority
  <2>1. call.at = "authority"
        /\ (call' = [call EXCEPT !.at = "listener"] \/ call' = [call EXCEPT !.at = "over"])
    BY <1>6 DEF VerifyAgentAuthority, CallFails, CallStep
  <2> QED BY <1>3, <2>1 DEF CallInv
<1>7. CASE VerifyListener
  <2>1. call.at = "listener"
        /\ (call' = [call EXCEPT !.at = "connect"] \/ call' = [call EXCEPT !.at = "over"])
    BY <1>7 DEF VerifyListener, CallFails, CallStep
  <2> QED BY <1>3, <2>1 DEF CallInv
<1>8. CASE Connect
  <2>1. call.at = "connect"
        /\ (call' = [call EXCEPT !.at = "socket", !.peer = listener] \/ call' = [call EXCEPT !.at = "over"])
    BY <1>8 DEF Connect, CallFails, CallStep
  <2> QED BY <1>3, <2>1 DEF CallInv
<1>9. CASE VerifyConnectedSocket
  <2>1. call.at = "socket"
        /\ ((call.peer = call.pid /\ call' = [call EXCEPT !.at = "sent"]) \/ call' = [call EXCEPT !.at = "over"])
    BY <1>9 DEF VerifyConnectedSocket, CallFails, CallStep
  <2> QED BY <1>3, <2>1 DEF CallInv
<1> QED BY <1>1, <1>2, <1>3, <1>4, <1>5, <1>6, <1>7, <1>8, <1>9

(* For any agents, records and process ids, whatever changes between two   *)
(* checks: the body of a task goes to the process that was qualified for   *)
(* it, under the record that was qualified (verifyConnectedSocket,         *)
(* createExecutionSpec).  It is the safety half of OnlyFitAgentsServe.     *)
THEOREM TasksGoToTheQualifiedAgent == AuthoritySpec => []SentToTheQualifiedAgent
<1>1. AuthorityInit => CallInv
  BY DEF AuthorityInit, CallInv, Idle
<1>2. CallInv => SentToTheQualifiedAgent
  BY DEF CallInv, SentToTheQualifiedAgent
<1> QED BY <1>1, <1>2, AuthorityStep, PTL DEF AuthoritySpec
=============================================================================
