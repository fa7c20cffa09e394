---------------------------- MODULE AgentAuthority ----------------------------
(***************************************************************************)
(* The Osaurus native child: an agent of another application that the user *)
(* names, that is qualified again and again (main.ts,                      *)
(* qualifyOsaurusNativeConnector), registered as a connector of the host   *)
(* agent, and given a task over a loopback connection only while it is     *)
(* what was qualified (createExecutionSpec, ManagedLoopbackHttpExecution). *)
(*                                                                         *)
(* The other application is external: it starts, stops, restarts under     *)
(* another process id and changes the agent's record at any time.  The     *)
(* connector of its runtime facade is qualified the same way, and never    *)
(* registered: inspectCurrentOsaurusInsightsRetention answers "retained".  *)
(***************************************************************************)
EXTENDS Naturals

CONSTANTS
  ChildAgents,    \* agent ids of the other application
  MaxRecord,      \* bound: versions of an agent's record
  MaxPid          \* bound: process ids of the other application

NoAgent == "none"

ASSUME AuthorityAssumption ==
  MaxRecord \in Nat \ {0} /\ MaxPid \in Nat \ {0} /\ NoAgent \notin ChildAgents

VARIABLES
  chosen,      \* osaurus-native-child.json: the configured agent
  record,      \* external: each agent's record, its version, 0 when it is unsafe or absent
  listener,    \* external: the process that listens, 0 for none
  loop,        \* the qualification loop
  registered,  \* registeredDigest, with the agent
  readiness,   \* osaurusNativeReadiness
  call         \* one execution of a task by this connector

authorityVars == <<chosen, record, listener, loop, registered, readiness, call>>

NoConnector == [agent |-> NoAgent, digest |-> 0]
Idle == [at |-> "idle", base |-> NoConnector, digest |-> 0, pid |-> 0, peer |-> 0]

-----------------------------------------------------------------------------
(* The other application                                                   *)

\* external: the listener ends or starts under a new process id.
RuntimeRestarts ==
  /\ \E pid \in {0} \cup {p \in 1 .. MaxPid : p > listener} : pid # listener /\ listener' = pid
  /\ call' = IF call.at = "sent" THEN [call EXCEPT !.at = "over"] ELSE call
  /\ UNCHANGED <<chosen, record, loop, registered, readiness>>

\* external: the record is edited, or no longer safe.  The directory is watched
\* while the loop waits.
RecordChanges(a) ==
  /\ \E v \in {0} \cup {w \in 1 .. MaxRecord : w > record[a]} : v # record[a] /\ record' = [record EXCEPT ![a] = v]
  /\ loop' = IF loop.at = "wait" THEN [loop EXCEPT !.at = "read"] ELSE loop
  /\ UNCHANGED <<chosen, listener, registered, readiness, call>>

-----------------------------------------------------------------------------
(* The qualification loop                                                  *)

\* setOsaurusNativeChildAgentId, writeOsaurusNativeChildConfiguration: a waiting loop
\* sees the file change, one that is qualifying does not.
SetAgent(a) ==
  /\ a # chosen
  /\ chosen' = a
  /\ readiness' = IF a = NoAgent THEN "unconfigured" ELSE "checking"
  /\ loop' = IF loop.at = "wait" THEN [loop EXCEPT !.at = "read"] ELSE loop
  /\ UNCHANGED <<record, listener, registered, call>>

\* readOsaurusNativeChildConfiguration
ReadConfiguration ==
  /\ loop.at = "read"
  /\ loop' = [at |-> IF chosen = NoAgent THEN "apply" ELSE "discover", agent |-> chosen,
              digest |-> 0, pid |-> 0]
  /\ UNCHANGED <<chosen, record, listener, registered, readiness, call>>

\* discoverRuntime: the listener must be one process of the signed application.
DiscoverRuntime ==
  /\ loop.at = "discover"
  /\ loop' = IF listener = 0 THEN [loop EXCEPT !.at = "apply"] ELSE [loop EXCEPT !.at = "audit", !.pid = listener]
  /\ UNCHANGED <<chosen, record, listener, registered, readiness, call>>

\* inspect: the record must exclude what a child may not do.
Audit ==
  /\ loop.at = "audit"
  /\ loop' = IF record[loop.agent] = 0 THEN [loop EXCEPT !.at = "apply"]
             ELSE [loop EXCEPT !.at = "probe", !.digest = record[loop.agent]]
  /\ UNCHANGED <<chosen, record, listener, registered, readiness, call>>

\* trustedLoopbackJson: an answer only from the listener, over a socket of its own.
Answers(pid) == listener = pid

\* The agent as the running application knows it must be the audited one.
Probe ==
  /\ loop.at = "probe"
  /\ loop' = [loop EXCEPT !.at = "apply",
                          !.digest = IF Answers(loop.pid) /\ record[loop.agent] = loop.digest
                                     THEN loop.digest ELSE 0]
  /\ UNCHANGED <<chosen, record, listener, registered, readiness, call>>

\* A variant that keeps the connector when qualification fails.
ApplyQualificationLoosely ==
  /\ loop.at = "apply"
  /\ registered' = IF loop.digest # 0 THEN [agent |-> loop.agent, digest |-> loop.digest] ELSE registered
  /\ readiness' = IF loop.digest # 0 THEN "ready" ELSE "checking"
  /\ loop' = [loop EXCEPT !.at = "wait"]
  /\ UNCHANGED <<chosen, record, listener, call>>

\* Readiness, then the connector: a changed or lost qualification takes the old one
\* away, which cancels its executions (unregisterConnector), before the new one is
\* registered.
ApplyQualification ==
  /\ loop.at = "apply"
  /\ readiness' = IF loop.agent = NoAgent THEN "unconfigured"
                  ELSE IF loop.digest # 0 THEN "ready"
                  ELSE IF loop.pid = 0 THEN "checking" ELSE "blocked"
  /\ registered' = IF loop.digest # 0 THEN [agent |-> loop.agent, digest |-> loop.digest] ELSE NoConnector
  /\ call' = IF registered.digest # loop.digest /\ call.at \notin {"idle", "sent"}
             THEN [call EXCEPT !.at = "over"] ELSE call
  /\ loop' = [loop EXCEPT !.at = "wait"]
  /\ UNCHANGED <<chosen, record, listener>>

\* waitForNativeAgentChange: the timer fires when nothing was seen to change.
RetryTimer ==
  /\ loop.at = "wait"
  /\ loop' = [loop EXCEPT !.at = "read"]
  /\ UNCHANGED <<chosen, record, listener, registered, readiness, call>>

-----------------------------------------------------------------------------
(* One execution                                                           *)

CallStep(c) == call' = c /\ UNCHANGED <<chosen, record, listener, loop, registered, readiness>>
CallFails == CallStep([call EXCEPT !.at = "over"])

\* The kernel has picked the connector; it is used even if it is replaced later.
StartCall ==
  /\ call.at \in {"idle", "sent", "over"} /\ registered # NoConnector
  /\ CallStep([Idle EXCEPT !.at = "refresh", !.base = registered])

\* createExecutionSpec: the agent that was qualified is qualified again, and must
\* not have changed.
CreateExecutionSpec ==
  /\ call.at = "refresh"
  /\ IF listener # 0 /\ record[call.base.agent] = call.base.digest
     THEN CallStep([call EXCEPT !.at = "authority", !.digest = call.base.digest, !.pid = listener])
     ELSE CallFails

\* verifyAgentAuthority: the record once more, when the transport starts.
VerifyAgentAuthority ==
  /\ call.at = "authority"
  /\ IF record[call.base.agent] = call.digest
     THEN CallStep([call EXCEPT !.at = "listener"]) ELSE CallFails

\* verifyListener: same process, same code identity
VerifyListener ==
  /\ call.at = "listener"
  /\ IF listener = call.pid THEN CallStep([call EXCEPT !.at = "connect"]) ELSE CallFails

\* The socket is connected to whatever listens now.
Connect ==
  /\ call.at = "connect"
  /\ IF listener # 0 THEN CallStep([call EXCEPT !.at = "socket", !.peer = listener]) ELSE CallFails

\* A variant that sends over the connection it got.
SendUnverified ==
  /\ call.at = "socket"
  /\ CallStep([call EXCEPT !.at = "sent"])

\* verifyConnectedSocket: the peer of this connection, then the body is sent.
VerifyConnectedSocket ==
  /\ call.at = "socket"
  /\ IF call.peer = call.pid /\ listener = call.pid THEN CallStep([call EXCEPT !.at = "sent"]) ELSE CallFails

\* terminate, and the failures and the end of the response stream
EndCall ==
  /\ call.at \notin {"idle", "over"}
  /\ CallFails

-----------------------------------------------------------------------------
AuthorityInit ==
  /\ chosen = NoAgent /\ record = [a \in ChildAgents |-> 1] /\ listener = 1
  /\ loop = [at |-> "read", agent |-> NoAgent, digest |-> 0, pid |-> 0]
  /\ registered = NoConnector /\ readiness = "unconfigured" /\ call = Idle

LoopStep == ReadConfiguration \/ DiscoverRuntime \/ Audit \/ Probe \/ ApplyQualification \/ RetryTimer

AuthorityNext ==
  \/ RuntimeRestarts \/ \E a \in ChildAgents : RecordChanges(a)
  \/ \E a \in ChildAgents \cup {NoAgent} : SetAgent(a)
  \/ LoopStep
  \/ StartCall \/ CreateExecutionSpec \/ VerifyAgentAuthority \/ VerifyListener \/ Connect
  \/ VerifyConnectedSocket \/ EndCall

\* The loop goes on: its probes have timeouts and its wait has a timer.
AuthorityFairness == WF_authorityVars(LoopStep)

AuthoritySpec == AuthorityInit /\ [][AuthorityNext]_authorityVars /\ AuthorityFairness

-----------------------------------------------------------------------------
(* Properties                                                              *)

\* The body of a task goes to the process that was qualified for it, over its own
\* connection, and under the record that was qualified, though either may change
\* between any two checks (verifyConnectedSocket, createExecutionSpec).
SentToTheQualifiedAgent ==
  call.at = "sent" => call.peer = call.pid /\ call.digest = call.base.digest

\* An agent that the user takes away, or whose record stays unsafe, does not stay
\* callable, even when the loop was not waiting and missed the change
\* (waitForNativeAgentChange, unregisterConnector).
UnfitAgentIsWithdrawn ==
  \A a \in ChildAgents :
    (<>[](chosen # a) \/ <>[](record[a] = 0)) => <>[](registered.agent # a)

\* Only an agent that is chosen and fit is given work.
OnlyFitAgentsServe == []SentToTheQualifiedAgent /\ UnfitAgentIsWithdrawn
=============================================================================
