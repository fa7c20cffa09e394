--------------------------- MODULE AccountCreation ---------------------------
(* The first launch: the coordinator of the desktop window, the guarded         *)
(* creation in the sidecar (relay choice, creation marker, Chatmail             *)
(* provisioning, the account file) and the network job that gives the stored    *)
(* account its authoritative id.  A request may time out in the bridge while    *)
(* the creation goes on, any step of it may fail, and the process may end       *)
(* between two steps, or in the middle of a marker write.                       *)
EXTENDS Naturals, FiniteSets

CONSTANTS MaxChatmail,  \* bound on Chatmail accounts added
          MaxAccountStarts  \* bound on restarts of the application

ASSUME AccountAssumption == MaxChatmail \in Nat /\ MaxAccountStarts \in Nat

VARIABLES launch,       \* the first-launch snapshot and the call it awaits
          accountFile,  \* the stored account: its Chatmail account, its id final?
          marker,       \* the creation marker
          chatmail,     \* the accounts of the Chatmail store
          creation,     \* accountCreationInFlight
          launchCount   \* accounts added, restarts, creations that died

accountVars == <<launch, accountFile, marker, chatmail, creation, launchCount>>

NoAccount == [cm |-> 0, final |-> FALSE]
NoCreation == [at |-> "off", cm |-> 0]

AccountInit ==
  /\ launch = [state |-> "booting", account |-> NoAccount, call |-> "none"]
  /\ accountFile = NoAccount
  /\ marker = "none"
  /\ chatmail = {}
  /\ creation = NoCreation
  /\ launchCount = [added |-> 0, starts |-> 0, died |-> {}, torn |-> FALSE]

-----------------------------------------------------------------------------
\* The window.  assertState: the states in which an event is legal.
LegalIn(event) ==
  CASE event = "start_check" -> {"booting", "fatal_error"}
    [] event = "loaded" -> {"checking"}
    [] event = "show_naming" -> {"welcome", "recoverable_error"}
    [] event = "submit_name" -> {"welcome", "naming", "recoverable_error"}
    [] event = "creation" -> {"creating_identity"}
    [] event = "registration_retry" -> {"recoverable_error"}
    [] event = "registration" -> {"synchronizing_network_identity"}
    [] event = "collapse_to_idle" -> {"ready"}

LaunchMay(event) == launch.state \in LegalIn(event)
LaunchShows(state, account, call) == launch' = [state |-> state, account |-> account, call |-> call]
SidecarSame == UNCHANGED <<accountFile, marker, chatmail, creation, launchCount>>

LaunchInitialize ==
  /\ LaunchMay("start_check") /\ LaunchShows("checking", NoAccount, "load")
  /\ SidecarSame

InitialLoad ==
  /\ LaunchMay("loaded") /\ launch.call = "load"
  /\ \/ accountFile # NoAccount /\ LaunchShows("idle", accountFile, "none")
     \/ accountFile = NoAccount /\ LaunchShows("welcome", NoAccount, "none")
     \/ \E state \in {"recoverable_error", "fatal_error"} : LaunchShows(state, NoAccount, "none")
  /\ SidecarSame

ShowNaming ==
  /\ LaunchMay("show_naming") /\ LaunchShows("naming", NoAccount, "none")
  /\ SidecarSame

SubmitInvalidName ==
  /\ LaunchMay("submit_name") /\ LaunchShows("recoverable_error", NoAccount, "none")
  /\ SidecarSame

\* createGuardedRealTetiAccount: a creation in flight is joined.
SubmitName ==
  /\ LaunchMay("submit_name") /\ LaunchShows("creating_identity", NoAccount, "create")
  /\ creation' = IF creation.at = "off" THEN [NoCreation EXCEPT !.at = "check"] ELSE creation
  /\ UNCHANGED <<accountFile, marker, chatmail, launchCount>>

\* The bridge gives up on the request; the creation itself goes on.
CreateTimesOut ==
  /\ LaunchMay("creation") /\ launch.call = "create"
  /\ LaunchShows("creating_identity", NoAccount, "recover")
  /\ SidecarSame

\* verifyLoadedAccount compares the id and the Chatmail account; a load that
\* fails is an error like any other and is followed by the recovery load.
VerifyLoadedAccount ==
  /\ LaunchMay("creation") /\ launch.call = "verify"
  /\ \/ accountFile = launch.account /\ LaunchShows("ready", accountFile, "none")
     \/ accountFile # launch.account /\ LaunchShows("fatal_error", accountFile, "none")
     \/ LaunchShows("creating_identity", NoAccount, "recover")
  /\ SidecarSame

tryLoadPersistedAccountAfterFailure ==
  /\ LaunchMay("creation") /\ launch.call = "recover"
  /\ \/ accountFile # NoAccount /\ LaunchShows("ready", accountFile, "none")
     \/ \E state \in {"recoverable_error", "fatal_error"} : LaunchShows(state, NoAccount, "none")
  /\ SidecarSame

RetryNetworkIdentity ==
  /\ LaunchMay("registration_retry")
  /\ LaunchShows("synchronizing_network_identity", launch.account, "sync")
  /\ SidecarSame

RetryAnswered ==
  /\ LaunchMay("registration") /\ launch.call = "sync"
  /\ \/ /\ accountFile # NoAccount
        /\ accountFile' = [accountFile EXCEPT !.final = TRUE]
        /\ marker' = "complete"
        /\ LaunchShows("ready", accountFile', "none")
     \/ LaunchShows("recoverable_error", launch.account, "none") /\ UNCHANGED <<accountFile, marker>>
  /\ UNCHANGED <<chatmail, creation, launchCount>>

CollapseToIdle ==
  /\ LaunchMay("collapse_to_idle") /\ LaunchShows("idle", launch.account, "none")
  /\ SidecarSame

-----------------------------------------------------------------------------
\* The sidecar.  A step goes on or the creation fails; a failure reaches the
\* window if it still waits.
CreationAt(at) == creation.at = at
CreationGoes(at) == creation' = [creation EXCEPT !.at = at] /\ UNCHANGED launch
CreationAnswers(call, account) ==
  /\ creation' = NoCreation
  /\ launch' = IF launch.call = "create"
               THEN [launch EXCEPT !.call = call, !.account = account] ELSE launch
CreationRejects == CreationAnswers("recover", NoAccount)

\* Profile checks and the account file; then the relay the Network prefers.
CheckExisting ==
  /\ CreationAt("check")
  /\ \/ accountFile = NoAccount /\ CreationGoes("relay")
     \/ CreationRejects
  /\ UNCHANGED <<accountFile, marker, chatmail, launchCount>>

selectProvisioningRelay ==
  /\ CreationAt("relay")
  /\ CreationGoes("marker") \/ CreationRejects
  /\ UNCHANGED <<accountFile, marker, chatmail, launchCount>>

isUnsafeIncompleteMarker ==
  marker \in {"provisioning", "identity_created", "persisting", "persisted"}

\* The marker of a creation that did not end refuses another one.
StartProvisioningUnmarked ==
  /\ CreationAt("marker")
  /\ \/ ~isUnsafeIncompleteMarker /\ CreationGoes("add")
     \/ isUnsafeIncompleteMarker /\ CreationRejects
  /\ UNCHANGED <<marker, accountFile, chatmail, launchCount>>

StartProvisioning ==
  /\ CreationAt("marker")
  /\ \/ ~isUnsafeIncompleteMarker /\ marker' = "provisioning" /\ CreationGoes("add")
     \/ CreationRejects /\ UNCHANGED marker
  /\ UNCHANGED <<accountFile, chatmail, launchCount>>

\* A failure inside the creation is recorded in the marker, if that write works.
FailMarked ==
  /\ marker' \in {"failed", marker}
  /\ CreationRejects

\* addAccount may have happened although its answer is lost.
AddAccount ==
  /\ CreationAt("add")
  /\ launchCount.added < MaxChatmail
  /\ LET cm == launchCount.added + 1
     IN \/ /\ chatmail' = chatmail \cup {cm}
           /\ launchCount' = [launchCount EXCEPT !.added = cm]
           /\ \/ creation' = [at |-> "configure", cm |-> cm] /\ UNCHANGED <<launch, marker>>
              \/ FailMarked
        \/ FailMarked /\ UNCHANGED <<chatmail, launchCount>>
  /\ UNCHANGED accountFile

\* Relay configuration, start of I/O and the identity read.
ConfigureIdentity ==
  /\ CreationAt("configure")
  /\ CreationGoes("identity_created") \/ CreationGoes("cleanup")
  /\ UNCHANGED <<accountFile, marker, chatmail, launchCount>>

tryRemoveAccount ==
  /\ CreationAt("cleanup")
  /\ chatmail' \in {chatmail, chatmail \ {creation.cm}}
  /\ FailMarked
  /\ UNCHANGED <<accountFile, launchCount>>

\* Address check and environment scan come before the first of these reports.
ReportCreationStage ==
  \E step \in {<<"identity_created", "persisting">>, <<"persisting", "save">>} :
    /\ CreationAt(step[1])
    /\ \/ marker' = step[1] /\ CreationGoes(step[2])
       \/ FailMarked
    /\ UNCHANGED <<accountFile, chatmail, launchCount>>

SaveAccount ==
  /\ CreationAt("save")
  /\ \/ /\ accountFile' = [cm |-> creation.cm, final |-> FALSE]
        /\ CreationGoes("persisted") /\ UNCHANGED marker
     \/ FailMarked /\ UNCHANGED accountFile
  /\ UNCHANGED <<chatmail, launchCount>>

\* After the save a marker that cannot be written is only reported.
ReportSaved ==
  /\ \/ CreationAt("persisted") /\ marker' \in {marker, "persisted"} /\ CreationGoes("complete")
     \/ CreationAt("complete") /\ marker' \in {marker, "complete"} /\ CreationGoes("register")
  /\ UNCHANGED <<accountFile, chatmail, launchCount>>

\* The Runtime synchronizes the network identity before it answers; if that
\* fails the account is answered as it is stored.
RegisterAndAnswer ==
  /\ CreationAt("register")
  /\ \/ /\ accountFile' = [accountFile EXCEPT !.final = TRUE]
        /\ marker' \in {marker, "complete"}
        /\ CreationAnswers("verify", accountFile')
     \/ /\ CreationAnswers("verify", accountFile)
        /\ UNCHANGED <<accountFile, marker>>
  /\ UNCHANGED <<chatmail, launchCount>>

\* The network identity job of the Runtime, at any time after the save.
NetworkJobCommits ==
  /\ accountFile # NoAccount /\ ~accountFile.final
  /\ accountFile' = [accountFile EXCEPT !.final = TRUE]
  /\ UNCHANGED <<launch, marker, chatmail, creation, launchCount>>

\* backfillCreationMarkerIdentity and an application restart: the window starts
\* over; the creation dies with its process, perhaps inside a marker write, and
\* leaves the Chatmail account it had added.
WritesMarker == creation.at \in {"marker", "identity_created", "persisting", "persisted", "complete"}

AccountRestart ==
  /\ launchCount.starts < MaxAccountStarts
  /\ \E torn \in {FALSE} \cup {t \in {TRUE} : WritesMarker} :
       /\ marker' = IF torn THEN "none" ELSE marker
       /\ launchCount' = [launchCount EXCEPT
            !.starts = @ + 1, !.torn = @ \/ torn,
            !.died = @ \cup (chatmail \cap {creation.cm})]
  /\ launch' = [state |-> "booting", account |-> NoAccount, call |-> "none"]
  /\ creation' = NoCreation
  /\ UNCHANGED <<accountFile, chatmail>>

AccountNext ==
  \/ LaunchInitialize \/ InitialLoad \/ ShowNaming \/ SubmitInvalidName \/ SubmitName
  \/ CreateTimesOut \/ VerifyLoadedAccount \/ tryLoadPersistedAccountAfterFailure
  \/ RetryNetworkIdentity \/ RetryAnswered \/ CollapseToIdle
  \/ CheckExisting \/ selectProvisioningRelay \/ StartProvisioning \/ AddAccount
  \/ ConfigureIdentity \/ tryRemoveAccount \/ ReportCreationStage \/ SaveAccount
  \/ ReportSaved \/ RegisterAndAnswer \/ NetworkJobCommits \/ AccountRestart

AccountSpec == AccountInit /\ [][AccountNext]_accountVars

-----------------------------------------------------------------------------
\* A creation that died with its process and left a Chatmail account behind is
\* not repeated: the marker it left refuses the next one, so no later Chatmail
\* account exists.  The marker is written in place, and a process that ends
\* inside such a write leaves nothing to refuse with: that case is excluded.
InterruptedCreationIsNotRepeated ==
  launchCount.torn \/ \A cm \in launchCount.died : launchCount.added = cm

\* The window calls the account ready only when it is the one on disk, whether
\* the request was answered, timed out and was repeated, or failed after the
\* account had been saved; the network job may only have replaced its id.
ReadyAccountIsStored ==
  launch.state \in {"ready", "idle"} => accountFile.cm = launch.account.cm /\ accountFile.cm # 0
=============================================================================
