----------------------------- MODULE RuntimeJobs -----------------------------
(***************************************************************************)
(* The background work of the Runtime: the job scheduler (host.ts), the    *)
(* jobs that TetiRuntime gives it (runtime/service.ts), the release policy *)
(* that stops them, and the peer snapshot and peer presence they maintain  *)
(* for the Passport.                                                       *)
(*                                                                         *)
(* A job that shouldRun is waiting for is at "check", one whose run is     *)
(* waiting is at "run"; both are in flight.                                *)
(***************************************************************************)
EXTENDS Naturals, FiniteSets

CONSTANTS
  OptionalJobs,    \* the jobs whose dependency is present
  JobPeers,        \* Teti ids of possible peers
  MaxPolicy,       \* bound: versions of the release policy
  JobEvents        \* bound: notifications from outside the scheduler

ASSUME JobsAssumption ==
  /\ OptionalJobs \subseteq {"contract", "release", "discovery", "profile", "presence"}
  /\ IsFiniteSet(JobPeers) /\ MaxPolicy \in Nat /\ JobEvents \in Nat

Jobs == {"identity", "peers", "poll", "codex"} \cup OptionalJobs
Ungated == {"contract", "release"}       \* no shouldRun
NeedAccount == Jobs \ {"contract", "release", "discovery"}

VARIABLES
  hostState,    \* TetiRuntimeHost.stateValue
  job,          \* each job: idle, scheduled, check or run
  account,      \* whether the account file exists
  peerService,  \* peerServicePromise: none, ready, or rejected and kept
  policy,       \* the release service: cached policy and status
  working,      \* what update_required stops: the host agent and the presence controller
  identity,     \* networkIdentityStatus and the synchronization in flight
  relation,     \* external: what the peer service would answer
  connections,  \* peerConnections, or not read yet
  presence,     \* peerPresence
  reading,      \* the ids that refreshPeerPresence is reading
  events        \* notifications so far

jobVars == <<hostState, job, account, peerService, policy, working, identity, relation,
             connections, presence, reading, events>>

InFlight == {"check", "run"}
RelationStates == {"absent", "Pending", "Confirmed"}
NotRead == [known |-> FALSE, of |-> [p \in JobPeers |-> "absent"]]

-----------------------------------------------------------------------------
(* The scheduler                                                           *)

\* localReleaseAllowsWork
localReleaseAllowsWork == policy.status # "update_required"

\* execute and the synchronous part of runJob: a job that may not run at all is
\* skipped and scheduled again.
Begin(j) ==
  IF j \in Ungated THEN "run"
  ELSE IF ~localReleaseAllowsWork THEN "scheduled"
  ELSE IF j \in NeedAccount THEN "check" ELSE "run"

\* A variant of runNow that cancels the timer of a job, and the turn of one in
\* flight, without starting it.
RunNowForgets(S, now) ==
  [j \in Jobs |-> IF j \in S /\ hostState = "running" THEN "idle" ELSE now[j]]

\* runNow, for a set of jobs: refused while a run is in flight; its timer is cancelled.
RunNow(S, now) ==
  [j \in Jobs |-> IF j \in S /\ hostState = "running" /\ now[j] \notin InFlight THEN Begin(j) ELSE now[j]]

\* The finally of runJob: scheduleNext, or idle when the host is stopping.
Settled(j, now) ==
  [now EXCEPT ![j] = IF hostState = "running" THEN "scheduled" ELSE "idle"]

\* start: every job has runOnStart. Presence starts unless an update is required.
Start ==
  /\ hostState = "new"
  /\ hostState' = "running"
  /\ job' = [j \in Jobs |-> Begin(j)]
  /\ working' = [working EXCEPT !.presence = "presence" \in Jobs /\ localReleaseAllowsWork]
  /\ UNCHANGED <<account, peerService, policy, identity, relation, connections, presence, reading, events>>

TimerFires(j) ==
  /\ hostState = "running" /\ job[j] = "scheduled"
  /\ job' = [job EXCEPT ![j] = Begin(j)]
  /\ UNCHANGED <<hostState, account, peerService, policy, working, identity, relation, connections,
                 presence, reading, events>>

\* hasLocalAccount, awaited by shouldRun: the account is read, then the job runs
\* or is skipped; refreshPeerPresence picks its peers when it starts.
CheckAccount(j) ==
  /\ job[j] = "check"
  /\ job' = IF account THEN [job EXCEPT ![j] = "run"] ELSE Settled(j, job)
  /\ identity' = IF j = "identity" /\ account THEN [identity EXCEPT !.syncing = TRUE] ELSE identity
  /\ reading' = IF j = "presence" /\ account /\ connections.known
                THEN {p \in JobPeers : connections.of[p] = "Confirmed"} ELSE reading
  /\ UNCHANGED <<hostState, account, peerService, policy, working, relation, connections, presence, events>>

\* stop: timers are cancelled, runs in flight are waited for; the host agent and
\* the presence controller are stopped besides.
Stop ==
  /\ hostState = "running"
  /\ hostState' = "stopping"
  /\ job' = [j \in Jobs |-> IF job[j] = "scheduled" THEN "idle" ELSE job[j]]
  /\ working' = [agent |-> FALSE, presence |-> FALSE]
  /\ UNCHANGED <<account, peerService, policy, identity, relation, connections, presence, reading, events>>

Stopped ==
  /\ hostState = "stopping" /\ \A j \in Jobs : job[j] \notin InFlight
  /\ hostState' = "stopped"
  /\ UNCHANGED <<job, account, peerService, policy, working, identity, relation, connections,
                 presence, reading, events>>

-----------------------------------------------------------------------------
(* Peers: rawPeerService, capturePeerResult, refreshPeerPresence           *)

\* rawPeerService: the promise is kept, a rejected one too.
rawPeerService(s) == IF peerService = "none" THEN s ELSE peerService

\* capturePeerResult: presence of peers that are gone is forgotten, new ones are
\* being checked.
Captured(now) ==
  /\ connections' = [known |-> TRUE, of |-> relation]
  /\ presence' = [p \in JobPeers |->
       IF relation[p] = "absent" THEN "none"
       ELSE IF relation[p] = "Confirmed" /\ now[p] = "none" THEN "checking" ELSE now[p]]

\* The jobs poll and peers, and an operation of the user through the facade
\* (captureUserPeerOperation): the peer service answers with all connections.
\* A partial refresh is captured before it is reported as failed.
PeerJobEnds(j) ==
  /\ j \in {"poll", "peers"} /\ job[j] = "run"
  /\ \E s \in {"ready", "rejected"} :
       /\ peerService' = rawPeerService(s)
       /\ \/ peerService' = "ready" /\ Captured(presence)
          \/ UNCHANGED <<connections, presence>>
  /\ job' = Settled(j, job)
  /\ UNCHANGED <<hostState, account, policy, working, identity, relation, reading, events>>

\* dispatchLifecycleRequest: while an update is required, every method but those
\* that only report is refused.
dispatchLifecycleRequest == policy.status # "update_required"

UserPeerOperation ==
  /\ dispatchLifecycleRequest /\ account /\ events < JobEvents
  /\ peerService' = rawPeerService("ready") /\ peerService' = "ready"
  /\ Captured(presence)
  /\ events' = events + 1
  /\ UNCHANGED <<hostState, job, account, policy, working, identity, relation, reading>>

\* An operation on Tasks goes through to the peer service, which it may be the
\* first to need.
TaskOperation ==
  /\ dispatchLifecycleRequest /\ account /\ events < JobEvents
  /\ \E s \in {"ready", "rejected"} : peerService' = rawPeerService(s)
  /\ events' = events + 1
  /\ UNCHANGED <<hostState, job, account, policy, working, identity, relation, connections, presence, reading>>

\* presenceAfterReadFailure: no answer keeps an offline peer offline, and an online
\* one online until what the server said has expired.
AfterFailure(was) == {IF was = "offline" THEN "offline" ELSE "unavailable"}
                     \cup (IF was = "online" THEN {"online"} ELSE {})

\* refreshPeerPresence, published as one generation; peers that came online are
\* asked for their Passport and the mailbox is polled at once.
PresenceJobEnds ==
  /\ "presence" \in Jobs /\ job["presence"] = "run"
  /\ IF connections.known
     THEN \E seen \in [reading -> {"online", "offline", "failed"}] :
            LET now == [p \in JobPeers |-> IF p \notin reading THEN {presence[p]}
                                           ELSE IF seen[p] = "failed" THEN AfterFailure(presence[p])
                                           ELSE {seen[p]}] IN
            /\ presence' \in [JobPeers -> UNION {now[p] : p \in JobPeers}]
            /\ \A p \in JobPeers : presence'[p] \in now[p]
            /\ job' = LET came == \E p \in reading : presence'[p] = "online" /\ presence[p] # "online"
                      IN RunNow(IF came THEN {"poll"} ELSE {}, Settled("presence", job))
            /\ UNCHANGED <<connections, peerService>>
     ELSE \* the connections are listed first; this run ends with what it got
          /\ \E s \in {"ready", "rejected"} :
               /\ peerService' = rawPeerService(s)
               /\ IF peerService' = "ready" THEN Captured(presence) ELSE UNCHANGED <<connections, presence>>
          /\ job' = Settled("presence", job)
  /\ reading' = {}
  /\ UNCHANGED <<hostState, account, policy, working, identity, relation, events>>

\* The peer service's own state moves on.
PeerChanges(p) ==
  /\ \E s \in RelationStates \ {relation[p]} : relation' = [relation EXCEPT ![p] = s]
  /\ events < JobEvents /\ events' = events + 1
  /\ UNCHANGED <<hostState, job, account, peerService, policy, working, identity, connections,
                 presence, reading>>

-----------------------------------------------------------------------------
(* The other jobs                                                          *)

\* contract, discovery, profile and codex: their answers are kept elsewhere; a Codex
\* refresh asks for a poll.
OtherJobEnds(j) ==
  /\ j \in {"contract", "discovery", "profile", "codex"} /\ job[j] = "run"
  /\ \E ok \in BOOLEAN :
       job' = RunNow(IF ok /\ j = "codex" THEN {"poll"} ELSE {}, Settled(j, job))
  /\ UNCHANGED <<hostState, account, peerService, policy, working, identity, relation, connections,
                 presence, reading, events>>

\* synchronizeNetworkIdentity: one synchronization at a time, joined by every caller.
IdentityJobEnds ==
  /\ job["identity"] = "run" /\ identity.syncing
  /\ \E s \in {"active", "failed"} : identity' = [status |-> s, syncing |-> FALSE]
  /\ job' = Settled("identity", job)
  /\ UNCHANGED <<hostState, account, peerService, policy, working, relation, connections, presence,
                 reading, events>>

\* acceptPolicy, releaseStateForPolicy and handleRefreshFailure: a policy with a lower
\* version is refused; without an answer the cached one still counts.
Refreshed(v, requires) ==
  IF v >= policy.version
  THEN [version |-> v, requires |-> IF v = policy.version THEN policy.requires ELSE requires,
        status |-> IF (IF v = policy.version THEN policy.requires ELSE requires)
                   THEN "update_required" ELSE "supported"]
  ELSE [policy EXCEPT !.status = IF policy.requires THEN "update_required" ELSE "temporarily_unavailable"]

\* A variant that stops the work for a new policy only.
ReleaseJobEndsOnNews ==
  /\ "release" \in Jobs /\ job["release"] = "run"
  /\ \E v \in 0 .. MaxPolicy, requires \in BOOLEAN :
       policy' = Refreshed(v, requires)
  /\ working' = IF policy'.version > policy.version /\ policy'.requires
                THEN [agent |-> FALSE, presence |-> FALSE] ELSE working
  /\ job' = Settled("release", job)
  /\ UNCHANGED <<hostState, account, peerService, identity, relation, connections, presence, reading, events>>

\* refresh: update_required shuts the host agent down and stops presence.
ReleaseJobEnds ==
  /\ "release" \in Jobs /\ job["release"] = "run"
  /\ \E v \in 0 .. MaxPolicy, requires \in BOOLEAN :
       policy' = Refreshed(v, requires)
  /\ working' = IF policy'.status = "update_required" THEN [agent |-> FALSE, presence |-> FALSE] ELSE working
  /\ job' = Settled("release", job)
  /\ UNCHANGED <<hostState, account, peerService, identity, relation, connections, presence, reading, events>>

-----------------------------------------------------------------------------
(* What comes from the interface                                           *)

\* notifyAccountAvailable, after an account was created or its profile changed
NotifyAccountAvailable ==
  /\ events < JobEvents /\ events' = events + 1
  /\ account' = TRUE
  /\ identity' = [identity EXCEPT !.status = "unknown"]
  /\ job' = RunNow(Jobs \cap {"identity", "peers", "poll", "codex", "profile"}, job)
  /\ UNCHANGED <<hostState, peerService, policy, working, relation, connections, presence, reading>>

\* setPresencePanelVisible and requestPeerPassportRefresh
AskForRun(j) ==
  /\ dispatchLifecycleRequest /\ j \in Jobs \cap {"presence", "poll"}
  /\ events < JobEvents /\ events' = events + 1
  /\ job' = RunNow({j}, job)
  /\ UNCHANGED <<hostState, account, peerService, policy, working, identity, relation, connections,
                 presence, reading>>

-----------------------------------------------------------------------------
JobsInit ==
  /\ hostState = "new" /\ job = [j \in Jobs |-> "idle"]
  /\ account \in BOOLEAN /\ peerService = "none"
  /\ policy \in {[version |-> 0, requires |-> r, status |-> IF r THEN "update_required" ELSE "checking"] :
                   r \in IF "release" \in Jobs THEN BOOLEAN ELSE {FALSE}}
  /\ working = [agent |-> TRUE, presence |-> FALSE]
  /\ identity = [status |-> "unknown", syncing |-> FALSE]
  /\ relation = [p \in JobPeers |-> "Confirmed"] /\ connections = NotRead
  /\ presence = [p \in JobPeers |-> "none"] /\ reading = {}
  /\ events = 0

JobEnds(j) ==
  \/ PeerJobEnds(j) \/ OtherJobEnds(j)
  \/ j = "identity" /\ IdentityJobEnds
  \/ j = "presence" /\ PresenceJobEnds
  \/ j = "release" /\ ReleaseJobEnds

JobsNext ==
  \/ Start \/ Stop \/ Stopped \/ NotifyAccountAvailable \/ UserPeerOperation \/ TaskOperation
  \/ \E j \in Jobs : TimerFires(j) \/ CheckAccount(j) \/ JobEnds(j) \/ AskForRun(j)
  \/ \E p \in JobPeers : PeerChanges(p)

-----------------------------------------------------------------------------
(* Properties                                                              *)

\* While the host runs, no job is lost: each has a timer or a run in flight,
\* whatever runNow, skips and failures did; once it has stopped, nothing runs
\* (runNow, scheduleNext, stop).
JobsFollowTheHost ==
  /\ hostState = "running" => \A j \in Jobs : job[j] # "idle"
  /\ hostState = "stopped" => \A j \in Jobs : job[j] = "idle"

\* When the last release check said that an update is required, neither the host
\* agent nor presence works on, and a policy that requires it is only lifted by a
\* newer one (refresh, acceptPolicy, start).
UpdateRequiredStopsWork ==
  /\ hostState = "running" /\ policy.requires /\ "release" \in Jobs /\ job["release"] = "scheduled"
       => ~working.agent /\ ~working.presence /\ policy.status = "update_required"

=============================================================================
