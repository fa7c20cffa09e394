--------------------------- MODULE ConnectorRegistry ---------------------------
(***************************************************************************)
(* The connectors of the host agent and the authority to use one.  A child *)
(* agent that is found ready is registered under a contract (agent-core.ts,*)
(* adapter.ts); an approved Task resolves a connector, is granted a single-*)
(* use, expiring authority for it, and presents that to the kernel later:  *)
(* the grant is issued, then the Task is saved and its status is sent, then*)
(* execute is called.  Connectors come and go and time passes in between.  *)
(*                                                                         *)
(* HostKernel has what a run does once it has started, and AgentAuthority  *)
(* how the Osaurus agent is qualified.                                     *)
(***************************************************************************)
EXTENDS Naturals, Sequences, FiniteSets

CONSTANTS
  Work,          \* approved Tasks
  WantedBy,      \* the requests to consider: what each Task asks for
  HostLimit,     \* maxConcurrentTasks
  GrantLife,     \* expiresAt of a grant, after its issue (two minutes)
  DeadlineLife,  \* executionDeadlineAt, after the issue (fifteen minutes)
  Digests,       \* configurations of the Osaurus agent
  MaxClock       \* bound: time

ASSUME RegistryAssumption ==
  /\ HostLimit \in Nat \ {0} /\ MaxClock \in Nat
  /\ GrantLife \in Nat \ {0} /\ DeadlineLife \in Nat /\ GrantLife < DeadlineLife
  /\ IsFiniteSet(Work)

VARIABLES
  wanted,      \* the requests of this behaviour, one of WantedBy
  clock,
  connectors,  \* the registered connectors
  work,        \* each Task: its stage, its target, its grant, what runs it
  waiting,     \* childQueues: the Tasks that wait, oldest first
  consumed     \* consumedAuthorities: the Task of each used grant, and its expiry

registryVars == <<wanted, clock, connectors, work, waiting, consumed>>

-----------------------------------------------------------------------------
(* The connectors of the product                                           *)

\* What is left to defaults in a descriptor: "default" and 0.
CodexConnector ==
  [id |-> "openai.codex.exec", rank |-> 1, child |-> "codex", capability |-> "code-analysis",
   inputs |-> {"text", "image"}, outputs |-> {"text"}, transport |-> "process",
   origin |-> "default", policy |-> "default", limit |-> 0, queue |-> 0, checkpoint |-> FALSE,
   pure |-> FALSE, entrypoint |-> "codex", offer |-> "none", class |-> "none", digest |-> 0]

CodexImageConnector ==
  [CodexConnector EXCEPT !.id = "openai.codex.imagegen", !.rank = 2, !.capability = "image-editing",
                         !.outputs = {"text", "image"}, !.entrypoint = "node"]

CodeBuddyConnector ==
  [CodexConnector EXCEPT !.id = "tencent.codebuddy.code", !.rank = 5, !.child = "codebuddy",
                         !.inputs = {"text"}, !.entrypoint = "codebuddy"]

\* Never registered: what its runtime retains is never found to be disabled.
FacadeConnector ==
  [id |-> "osaurus.runtime.bonsai-chat", rank |-> 4, child |-> "osaurus-runtime",
   capability |-> "general-text-assistance", inputs |-> {"text"}, outputs |-> {"text"},
   transport |-> "loopback_http", origin |-> "runtime_facade", policy |-> "none", limit |-> 1,
   queue |-> 8, checkpoint |-> FALSE, pure |-> FALSE, entrypoint |-> "none",
   offer |-> "local.compute", class |-> "local_model", digest |-> 0]

\* Registered anew for each configuration that is qualified.
NativeConnector(d) ==
  [FacadeConnector EXCEPT !.id = "osaurus.native.teti-agent", !.rank = 3, !.child = "osaurus-native-teti",
                          !.transport = "osaurus_agent", !.origin = "native_agent",
                          !.policy = "bounded_context", !.offer = "local.agent",
                          !.class = "native_agent", !.digest = d]

-----------------------------------------------------------------------------
(* The contract of a connector                                             *)

originOf(c) == IF c.origin = "default" THEN "native_agent" ELSE c.origin
workspacePolicyOf(c) == IF c.policy = "default" THEN "snapshot" ELSE c.policy
BoundedOrDefault(n) == n \in 0 .. 32

validateConnectorExecutionCapabilities(c) == c.checkpoint \in BOOLEAN

\* Bounded text both ways; images besides, in some.
validateCallableAdapterDescriptor(c) ==
  "text" \in c.inputs \cap c.outputs /\ c.inputs \cup c.outputs \subseteq {"text", "image"}

\* Checkpoints need a workspace that is stated, not left to its default.
validateAgentConnectorDescriptor(c) ==
  /\ validateConnectorExecutionCapabilities(c) /\ validateCallableAdapterDescriptor(c)
  /\ c.checkpoint => c.pure /\ c.policy = "snapshot"
  /\ c.transport \in {"process", "fake", "loopback_http", "osaurus_agent"}
  /\ originOf(c) \in {"native_agent", "runtime_facade"}
  /\ workspacePolicyOf(c) \in {"snapshot", "bounded_context", "none"}
  /\ c.transport = "process" => workspacePolicyOf(c) = "snapshot"
  /\ c.transport = "loopback_http" => originOf(c) = "runtime_facade" /\ workspacePolicyOf(c) = "none"
  /\ c.transport = "osaurus_agent" => originOf(c) = "native_agent" /\ workspacePolicyOf(c) = "bounded_context"
  /\ BoundedOrDefault(c.limit) /\ BoundedOrDefault(c.queue)

\* What is offered is one text request at a time, under the authority of its class.
validateAgentComputeOffer(c) ==
  /\ c.capability = "general-text-assistance" /\ c.limit = 1
  /\ \/ c.class = "local_model" /\ c.origin = "runtime_facade" /\ c.policy = "none"
     \/ c.class = "native_agent" /\ c.origin = "native_agent" /\ c.policy = "bounded_context"

\* The resource binding of a connector is made of the same constants as its descriptor.
resourceBinding(c) ==
  [child |-> c.child, id |-> c.id, transport |-> c.transport, capability |-> c.capability]
validateAgentResourceBinding(b, c) == b = resourceBinding(c)

validateAgentConnector(c) ==
  /\ validateAgentConnectorDescriptor(c) /\ validateAgentResourceBinding(resourceBinding(c), c)
  /\ c.offer # "none" => validateAgentComputeOffer(c)
  /\ (c.transport = "process") = (c.entrypoint # "none")

\* A connector becomes a callable agent of the Passport only when it is ready, can do
\* something, and takes and gives text.
projectCallableAgent(c, state) ==
  state = "ready" /\ c.capability # "none" /\ "text" \in c.inputs \cap c.outputs

\* localChildAgentFromConnectors: the connectors of one child must agree.
ChildAgrees(cs) ==
  \A c, d \in cs : c.child = d.child =>
    /\ originOf(c) = originOf(d) /\ workspacePolicyOf(c) = workspacePolicyOf(d)
    /\ c.limit = 0 \/ d.limit = 0 \/ c.limit = d.limit

\* registerConnector
Registrable(c) ==
  /\ validateAgentConnector(c) /\ projectCallableAgent(c, "ready")
  /\ \A d \in connectors : d.id # c.id

-----------------------------------------------------------------------------
(* Admission                                                               *)

Running == {"preparing", "running", "stopping"}
Active == {t \in Work : work[t].at \in Running \cup {"closing"}}
ActiveFor(child) == {t \in Active : work[t].by.child = child}
LimitOf(c) == IF c.limit = 0 THEN HostLimit ELSE c.limit
MayStart(c, active) ==
  /\ Cardinality(active) < HostLimit
  /\ Cardinality({t \in active : work[t].by.child = c.child}) < LimitOf(c)

\* removeQueued: a queue without some of its Tasks; the j-th is the one that has j
\* of the others up to it.
Kept(queue, gone) == {i \in DOMAIN queue : queue[i] \notin gone}
Without(queue, gone) ==
  [j \in 1 .. Cardinality(Kept(queue, gone)) |->
     queue[CHOOSE i \in Kept(queue, gone) : Cardinality({h \in Kept(queue, gone) : h <= i}) = j]]

WaitsFor(child) == {i \in DOMAIN waiting : work[waiting[i]].by.child = child}

\* listTargets: an offer names its connectors, a bare capability those without one.
listTargets(w) ==
  {c \in connectors : /\ c.offer = w.offer /\ c.capability = w.capability
                      /\ w.modes \subseteq c.inputs}

resolveTarget(w) == CHOOSE c \in listTargets(w) : \A d \in listTargets(w) : c.rank <= d.rank

\* validateCallableAdapterTaskRequest
RequestFits(t, c) ==
  c.child = work[t].target.child /\ c.capability = wanted[t].capability /\ wanted[t].modes \subseteq c.inputs

\* issueExecutionAuthority, createExecutionGrant
Grant(deadline) ==
  [issued |-> clock, expires |-> clock + GrantLife, deadline |-> deadline]

\* validateExecutionAuthority
validateExecutionAuthority(t, c) ==
  /\ c.id = work[t].target.id /\ c.child = work[t].target.child
  /\ clock <= work[t].grant.expires /\ clock < work[t].grant.deadline
  /\ work[t].grant.issued < work[t].grant.deadline

\* A variant that forgets a used grant at the instant it expires.
RememberedUntilExpiry == {g \in consumed : g.expires > clock}

\* The kernel forgets a used grant once it has expired.
Remembered == {g \in consumed : g.expires >= clock}

NoWork == [at |-> "requested", target |-> [id |-> "none", child |-> "none"],
           grant |-> [issued |-> 0, expires |-> 0, deadline |-> 0], by |-> CodexConnector]

-----------------------------------------------------------------------------
(* Actions                                                                 *)

Tick == clock < MaxClock /\ clock' = clock + 1 /\ UNCHANGED <<wanted, connectors, work, waiting, consumed>>

registerAll(cs) ==
  /\ \A c \in cs : Registrable(c)
  /\ connectors' = connectors \cup cs
  /\ UNCHANGED <<wanted, clock, work, waiting, consumed>>

\* The qualification jobs: Codex and its image runner, CodeBuddy.  A job runs once.
QualifyCodex == registerAll({CodexConnector, CodexImageConnector})
QualifyCodeBuddy == registerAll({CodeBuddyConnector})

\* unregisterConnector cancels what waits for the connector and what it runs.
unregistered(id) ==
  [t \in Work |->
     IF work[t].by.id # id THEN work[t]
     ELSE IF work[t].at = "waiting" THEN [work[t] EXCEPT !.at = "over"]
     ELSE IF work[t].at \in Running THEN [work[t] EXCEPT !.at = "stopping"]
     ELSE work[t]]

Natives == {c \in connectors : c.id = NativeConnector(0).id}

\* The Osaurus loop: the connector of another configuration goes, the new one comes.
QualifyNative(d) ==
  /\ {c.digest : c \in Natives} # {d} \ {0}
  /\ connectors' = (connectors \ Natives) \cup {NativeConnector(v) : v \in {d} \ {0}}
  /\ IF Natives = {} THEN UNCHANGED <<work, waiting>>
     ELSE /\ work' = unregistered(NativeConnector(0).id)
          /\ waiting' = Without(waiting, {t \in Work : work[t].by.id = NativeConnector(0).id})
  /\ UNCHANGED <<wanted, clock, consumed>>

WorkBecomes(t, w) == work' = [work EXCEPT ![t] = w]

\* approve: the target is resolved, then images, account and Workspace are awaited.
Resolve(t) ==
  /\ work[t].at = "requested" /\ listTargets(wanted[t]) # {}
  /\ LET c == resolveTarget(wanted[t]) IN
     WorkBecomes(t, [work[t] EXCEPT !.at = "resolved", !.target = [id |-> c.id, child |-> c.child]])
  /\ UNCHANGED <<wanted, clock, connectors, waiting, consumed>>

\* prepareExecution, then the grant; approve fails when the connector has gone.
prepareExecution(t, deadline) ==
  /\ work[t].at = "resolved"
  /\ WorkBecomes(t, IF \E c \in connectors : c.id = work[t].target.id /\ c.child = work[t].target.child
                    THEN [work[t] EXCEPT !.at = "granted", !.grant = Grant(deadline)] ELSE NoWork)
  /\ UNCHANGED <<wanted, clock, connectors, waiting, consumed>>

\* execute: the connector is looked up again, under the id that was granted.
execute(t) ==
  /\ work[t].at = "granted"
  /\ LET found == {c \in connectors : c.id = work[t].target.id}
         c == CHOOSE d \in found : TRUE
         accepted == /\ found # {} /\ RequestFits(t, c)
                     /\ MayStart(c, Active) \/ Cardinality(WaitsFor(c.child)) < c.queue
                     /\ validateExecutionAuthority(t, c)
                     /\ \A g \in Remembered : g.task # t
     IN IF ~accepted
        THEN WorkBecomes(t, [work[t] EXCEPT !.at = "refused"]) /\ UNCHANGED <<waiting, consumed>>
        ELSE /\ consumed' = Remembered \cup {[task |-> t, expires |-> work[t].grant.expires]}
             /\ IF MayStart(c, Active)
                THEN WorkBecomes(t, [work[t] EXCEPT !.at = "preparing", !.by = c]) /\ UNCHANGED waiting
                ELSE WorkBecomes(t, [work[t] EXCEPT !.at = "waiting", !.by = c]) /\ waiting' = Append(waiting, t)
  /\ UNCHANGED <<wanted, clock, connectors>>

\* validateExecutionSpec: the transport of the descriptor and its fixed entrypoint.
validateExecutionSpec(spec, c) ==
  spec.kind = c.transport /\ (c.transport = "process" => spec.executable = c.entrypoint)

\* createExecutionSpec: a run fails before anything is started when its Workspace,
\* its memory or its agent is not what it must be.
createExecutionSpec(t) ==
  /\ work[t].at = "preparing"
  /\ LET spec == [kind |-> work[t].by.transport, executable |-> work[t].by.entrypoint] IN
     \E ready \in BOOLEAN :
       WorkBecomes(t, [work[t] EXCEPT !.at = IF ready /\ validateExecutionSpec(spec, work[t].by)
                                             THEN "running" ELSE "closing"])
  /\ UNCHANGED <<wanted, clock, connectors, waiting, consumed>>

\* cancel, of what waits or runs
Cancel(t) ==
  /\ work[t].at \in {"waiting", "preparing", "running"}
  /\ WorkBecomes(t, [work[t] EXCEPT !.at = IF @ = "waiting" THEN "over" ELSE "stopping"])
  /\ waiting' = Without(waiting, {t})
  /\ UNCHANGED <<wanted, clock, connectors, consumed>>

\* The machine of a run ends: its result, its exit, a timeout.
RunEnds(t) ==
  /\ work[t].at \in {"running", "stopping"}
  /\ WorkBecomes(t, [work[t] EXCEPT !.at = "closing"])
  /\ UNCHANGED <<wanted, clock, connectors, waiting, consumed>>

\* The finally block of run: no longer active, and the next one of a child starts.
\* Only one of the product's connectors has a queue.
drainQueues(t) ==
  /\ work[t].at = "closing"
  /\ LET rest == Active \ {t}
         next == IF waiting # <<>> /\ MayStart(work[Head(waiting)].by, rest) THEN {Head(waiting)} ELSE {}
     IN /\ work' = [u \in Work |-> IF u = t THEN [work[u] EXCEPT !.at = "over"]
                                   ELSE IF u \in next THEN [work[u] EXCEPT !.at = "preparing"] ELSE work[u]]
        /\ waiting' = IF next = {} THEN waiting ELSE Tail(waiting)
  /\ UNCHANGED <<wanted, clock, connectors, consumed>>

-----------------------------------------------------------------------------
RegistryInit ==
  /\ wanted \in WantedBy /\ clock = 0 /\ connectors = {}
  /\ work = [t \in Work |-> NoWork] /\ waiting = <<>> /\ consumed = {}

RegistryNext ==
  \/ Tick \/ QualifyCodex \/ QualifyCodeBuddy \/ \E d \in Digests \cup {0} : QualifyNative(d)
  \/ \E t \in Work : \/ Resolve(t) \/ execute(t) \/ createExecutionSpec(t) \/ Cancel(t)
                     \/ RunEnds(t) \/ drainQueues(t)
                     \/ \E d \in 1 .. DeadlineLife : prepareExecution(t, clock + d)

RegistrySpec == RegistryInit /\ [][RegistryNext]_registryVars

-----------------------------------------------------------------------------
(* Properties                                                              *)

\* A grant is good for one execution: while it would still be accepted, the kernel
\* knows that it was used, whatever it has forgotten since (validateExecutionAuthority
\* and the sweep of consumedAuthorities must agree on the instant it expires).
GrantsAreSingleUse ==
  \A t \in Work : /\ work[t].at \in Running \cup {"waiting", "closing", "over"}
                  /\ clock <= work[t].grant.expires
                  => \E g \in consumed : g.task = t

\* What waits or runs does so on a connector that is still registered, the very one;
\* anything else is being stopped (unregisterConnector), and the queue holds exactly
\* the Tasks that wait.
WorkIsOnACurrentConnector ==
  /\ \A t \in Work : work[t].at \in {"waiting", "preparing", "running"} => work[t].by \in connectors
  /\ \A t \in Work : work[t].at = "waiting" <=> \E i \in DOMAIN waiting : waiting[i] = t

\* The connectors together make one agent each, within its own limit and the host's.
ChildrenAreConsistent ==
  /\ ChildAgrees(connectors)
  /\ Cardinality(Active) <= HostLimit
  /\ \A t \in Active : Cardinality(ActiveFor(work[t].by.child)) <= LimitOf(work[t].by)

WorkIsAuthorized == GrantsAreSingleUse /\ WorkIsOnACurrentConnector /\ ChildrenAreConsistent
=============================================================================
