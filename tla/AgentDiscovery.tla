---------------------------- MODULE AgentDiscovery ----------------------------
(***************************************************************************)
(* What the Runtime knows of the AI agents installed on this machine: the  *)
(* detector configuration file (agents/config.ts), the scan that observes  *)
(* every definition of the catalog (agents/supervisor.ts) and the path     *)
(* overrides that the user sets while scans go on (setAgentPathOverride).  *)
(*                                                                         *)
(* A caller sets the override of its own agent; the file is the set of     *)
(* agents with an override.                                                *)
(***************************************************************************)
EXTENDS Naturals, Sequences

CONSTANTS
  Overriders,    \* callers of setAgentPathOverride, one for each agent
  MaxScans       \* bound: scans

ASSUME DiscoveryAssumption == MaxScans \in Nat

VARIABLES
  overrides,   \* agent-detectors.override.json
  scan,        \* the scan in flight: its number, the catalog it read, its phase
  observed,    \* the snapshot: revision, state, the catalog and observations it was made from
  chain,       \* agentMutation: the callers in the order of their promises
  caller       \* each caller: phase, the scan it has joined, the file as it read it

discoveryVars == <<overrides, scan, observed, chain, caller>>

\* observeDefinition: one agent's installation and runtime state from what the
\* detectors and the process table said; a detector that is late or fails gives
\* unknown and leaves the others alone.
Observation(install, processes) ==
  [installation |-> IF "found" \in install \/ processes = "some" THEN "installed"
                    ELSE IF "missing" \in install THEN "not_installed" ELSE "unknown",
   runtime |-> IF processes = "none" THEN "not_running"
               ELSE IF processes = "some" THEN "running" ELSE "unknown"]

-----------------------------------------------------------------------------
\* discover: a scan in flight is joined, otherwise one starts; Joined is its number.
MayScan == scan.at # "none" \/ scan.n < MaxScans
Joined == IF scan.at = "none" THEN scan.n + 1 ELSE scan.n
Scanning == IF scan.at = "none" THEN [n |-> scan.n + 1, at |-> "load", catalog |-> {}, read |-> TRUE] ELSE scan
Discovering == IF scan.at = "none" THEN [observed EXCEPT !.state = "discovering"] ELSE observed

\* The agentDiscovery job, and rescanAgents
Discover ==
  /\ scan.at = "none" /\ MayScan
  /\ scan' = Scanning /\ observed' = Discovering
  /\ UNCHANGED <<overrides, chain, caller>>

\* runDiscovery, loadAgentDetectorCatalog: the file is read, or it cannot be read
\* and the built-in definitions are used.
LoadCatalog ==
  /\ scan.at = "load"
  /\ \E ok \in BOOLEAN :
       scan' = [scan EXCEPT !.at = "observe", !.read = ok, !.catalog = IF ok THEN overrides ELSE {}]
  /\ UNCHANGED <<overrides, observed, chain, caller>>

\* complete: the snapshot is replaced as a whole.
Complete ==
  /\ scan.at = "observe"
  /\ \E install \in SUBSET {"found", "missing"}, processes \in {"some", "none", "failed"} :
       observed' = [revision |-> observed.revision + 1, catalog |-> scan.catalog, read |-> scan.read,
                    state |-> IF ~scan.read \/ processes = "failed" \/ install = {} THEN "degraded" ELSE "ready",
                    agent |-> Observation(install, processes)]
  /\ scan' = [scan EXCEPT !.at = "none"]
  /\ UNCHANGED <<overrides, chain, caller>>

-----------------------------------------------------------------------------
\* setAgentPathOverride: the operation waits for the one before it.
SetAgentPathOverride(c) ==
  /\ caller[c].at = "idle"
  /\ chain' = Append(chain, c)
  /\ caller' = [caller EXCEPT ![c].at = "queued"]
  /\ UNCHANGED <<overrides, scan, observed>>

First(c) == chain # <<>> /\ Head(chain) = c

\* A variant that does not wait for the operation before it.
ReadConfigNow(c) ==
  /\ caller[c].at = "queued"
  /\ caller' = [caller EXCEPT ![c].at = "read", ![c].file = overrides]
  /\ UNCHANGED <<overrides, scan, observed, chain>>

\* setPathOverride: readConfigRootForMutation, or the write is blocked by a file
\* that is not understood.
ReadConfig(c) ==
  /\ caller[c].at = "queued" /\ First(c)
  /\ \/ caller' = [caller EXCEPT ![c].at = "read", ![c].file = overrides] /\ UNCHANGED chain
     \/ caller' = [caller EXCEPT ![c].at = "failed"] /\ chain' = Tail(chain)
  /\ UNCHANGED <<overrides, scan, observed>>

\* writeConfigAtomically, then the first discover
WriteConfig(c) ==
  /\ caller[c].at = "read" /\ MayScan
  /\ overrides' = caller[c].file \cup {c}
  /\ caller' = [caller EXCEPT ![c].at = IF observed.state = "discovering" THEN "joined" ELSE "scanning",
                              ![c].scan = Joined]
  /\ scan' = Scanning /\ observed' = Discovering
  /\ UNCHANGED chain

\* A variant that is content with the scan it found.
SecondScanSkipped(c) ==
  /\ caller[c].at = "joined" /\ (scan.at = "none" \/ scan.n > caller[c].scan)
  /\ caller' = [caller EXCEPT ![c].at = "done"]
  /\ chain' = Tail(chain)
  /\ UNCHANGED <<overrides, scan, observed>>

\* scanWasAlreadyRunning: the scan may have read the file before the write, so a
\* second one follows.
SecondScan(c) ==
  /\ caller[c].at = "joined" /\ (scan.at = "none" \/ scan.n > caller[c].scan) /\ MayScan
  /\ caller' = [caller EXCEPT ![c].at = "scanning", ![c].scan = Joined]
  /\ scan' = Scanning /\ observed' = Discovering
  /\ UNCHANGED <<overrides, chain>>

\* The answer is the management snapshot at this point.
Finish(c) ==
  /\ caller[c].at = "scanning" /\ (scan.at = "none" \/ scan.n > caller[c].scan)
  /\ caller' = [caller EXCEPT ![c].at = "done"]
  /\ chain' = Tail(chain)
  /\ UNCHANGED <<overrides, scan, observed>>

-----------------------------------------------------------------------------
DiscoveryInit ==
  /\ overrides = {} /\ scan = [n |-> 0, at |-> "none", catalog |-> {}, read |-> TRUE]
  /\ observed = [revision |-> 0, state |-> "idle", catalog |-> {}, read |-> TRUE, agent |-> Observation({}, "failed")]
  /\ chain = <<>> /\ caller = [c \in Overriders |-> [at |-> "idle", scan |-> 0, file |-> {}]]

DiscoveryNext ==
  \/ Discover \/ LoadCatalog \/ Complete
  \/ \E c \in Overriders :
       SetAgentPathOverride(c) \/ ReadConfig(c) \/ WriteConfig(c) \/ SecondScan(c) \/ Finish(c)

-----------------------------------------------------------------------------
(* Properties                                                              *)

\* When setAgentPathOverride has answered, its override is in the file and in the
\* catalog that the snapshot was made from, whatever scans and other overrides
\* ran meanwhile, unless that file could not be read (agentMutation,
\* scanWasAlreadyRunning).
OverrideIsSeen ==
  \A c \in Overriders : caller[c].at = "done" =>
    c \in overrides /\ (c \in observed.catalog \/ ~observed.read)
=============================================================================
