------------------------------ MODULE MCNetwork ------------------------------
(***************************************************************************)
(* The services that talk to the Teti Network, checked in one run.  They   *)
(* share no state, so a behaviour exercises one of them, the focus, and    *)
(* the others rest in their initial states.                                *)
(***************************************************************************)
EXTENDS RuntimeJobs, NetworkIdentity, NetworkClient,
        ProfilePublication, PresenceReports, AccountCreation, AgentDiscovery,
        ProfileMigration, CodexUsage, ConnectorRegistry

VARIABLE focus  \* the service this behaviour exercises

\* Two Tasks for the queue of the Osaurus agent; and two for Codex or CodeBuddy, one
\* of them with an image.
MCWantedBy ==
  LET Text(offer, capability) == [offer |-> offer, capability |-> capability, modes |-> {"text"}]
      native == Text("local.agent", "general-text-assistance")
      code   == Text("none", "code-analysis")
      image  == [offer |-> "none", capability |-> "image-editing", modes |-> {"text", "image"}]
  IN  {[t \in Work |-> native], [t \in Work |-> IF t = "t" THEN code ELSE image]}

MCUsagePayloads == {{5, 168}, {5, 30}, {5}}

Services == {"jobs", "identity", "client", "publication", "presence",
             "account", "discovery", "connectors", "profile", "usage"}

\* A service that is not exercised has one initial state.
OthersRest ==
  /\ focus # "jobs"     => /\ account = TRUE
                           /\ policy = [version |-> 0, requires |-> FALSE, status |-> "checking"]
  /\ focus # "identity" => /\ netEnv = "production"
                           /\ netAccount = [id |-> 0, mode |-> "register", state |-> "pending",
                                            env |-> "none", key |-> 0]
  /\ focus # "client"   => httpClock = [drift |-> 0, offset |-> 0]
  /\ focus # "connectors" => wanted = CHOOSE w \in WantedBy : TRUE
  /\ focus # "profile"  => rootKind = "production" /\ legacy = {} /\ unscoped = FALSE
  /\ focus # "usage"    => authFile = [kind |-> "AUTH_FILE_NOT_FOUND"] /\ usageWindows = TRUE

NetworkInit ==
  /\ focus \in Services
  /\ OthersRest
  /\ JobsInit /\ NetInit /\ HttpInit /\ PubInit
  /\ PresenceInit /\ AccountInit /\ DiscoveryInit /\ RegistryInit /\ ProfileInit /\ UsageInit

OnlyStep(service) ==
  /\ focus = service
  /\ UNCHANGED focus
  /\ service # "jobs"          => UNCHANGED jobVars
  /\ service # "identity"      => UNCHANGED netVars
  /\ service # "client"        => UNCHANGED httpVars
  /\ service # "publication"   => UNCHANGED pubVars
  /\ service # "presence"      => UNCHANGED presVars
  /\ service # "account"       => UNCHANGED accountVars
  /\ service # "discovery"     => UNCHANGED discoveryVars
  /\ service # "connectors"    => UNCHANGED registryVars
  /\ service # "profile"       => UNCHANGED profileVars
  /\ service # "usage"         => UNCHANGED usageVars

NetworkNext ==
  \/ OnlyStep("jobs")          /\ JobsNext
  \/ OnlyStep("identity")      /\ NetNext
  \/ OnlyStep("client")        /\ HttpNext
  \/ OnlyStep("publication")   /\ PubNext
  \/ OnlyStep("presence")      /\ PresenceNext
  \/ OnlyStep("account")       /\ AccountNext
  \/ OnlyStep("discovery")     /\ DiscoveryNext
  \/ OnlyStep("connectors")    /\ RegistryNext
  \/ OnlyStep("profile")       /\ ProfileNext
  \/ OnlyStep("usage")         /\ UsageNext

NetworkSpec ==
  NetworkInit /\ [][NetworkNext]_<<focus, jobVars, netVars, httpVars, pubVars, presVars,
                                   accountVars, discoveryVars, registryVars, profileVars, usageVars>>

-----------------------------------------------------------------------------
\* What the Network holds of this runtime is what the runtime says of it: a write
\* reported done was done and one reported refused was not, the published profile is
\* the local one, "online" carries the present mode, and there is one account: an
\* interrupted creation is not repeated, the account that is shown as ready is the
\* stored one, and the Network registers one identity for it.
NetworkAgrees ==
  /\ WriteIsReportedTruly /\ PublishedProfileIsCurrent /\ PresenceIsCurrent
  /\ InterruptedCreationIsNotRepeated /\ ReadyAccountIsStored /\ RegistersOnePerStay

\* The Runtime's background work goes on for as long as it may: no job and no
\* refresh is lost, a required update stops what it must, and a changed Agent
\* setting is seen by the scan that answers it.
WorkGoesOn ==
  JobsFollowTheHost /\ UpdateRequiredStopsWork /\ UsageKeepsRefreshing /\ OverrideIsSeen
=============================================================================
