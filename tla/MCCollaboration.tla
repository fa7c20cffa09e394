--------------------------- MODULE MCCollaboration ---------------------------
(***************************************************************************)
(* What two connected peers do together, checked in one run: the Passports *)
(* they exchange, the session, attachments, workspace, memory, image run   *)
(* and read model behind a Task, and the window their user sees them in:   *)
(* the Task console, the panels around the island, the Passport switch,    *)
(* the memory tab and the native window.  Each model is closed by what the *)
(* others may do to it, so a behaviour exercises one of them, the focus,   *)
(* and the others rest in their initial states.                            *)
(***************************************************************************)
EXTENDS TaskSession, Memory, WorkspaceStore, TaskAttachments, ImageRunner,
        PassportExchange, TaskReadModel,
        TaskConsole, DesktopPanels, PassportConsole, ChildMemory, NativeWindow

VARIABLE focus  \* the activity this behaviour exercises

Activities == {"session", "memory", "workspace", "attachments", "image", "passport", "view",
               "console", "panels", "switch", "memorytab", "window"}

\* An activity that is not exercised has one initial state.
OthersRest ==
  /\ focus # "memory"      => memSchema = 0
  /\ focus # "attachments" => attRoom = 1
  /\ focus # "passport"    => passContent = 1
  /\ focus # "view"        => taskFile = [t \in ReadTasks |-> NoTask]
  /\ focus # "panels"      => launchGuard = FALSE
  /\ focus # "switch"      => policyFile = "missing"
  /\ focus # "window"      => platform = "macos" /\ screen = CHOOSE d \in Displays : d.notch

CollaborationInit ==
  /\ focus \in Activities
  /\ OthersRest
  /\ SessionInit /\ MemoryInit /\ WorkspaceInit /\ AttachmentInit /\ ImageRunnerInit
  /\ PassportInit /\ ReadModelInit
  /\ ConsoleInit /\ PanelsInit /\ PassportConsoleInit /\ ChildMemoryInit /\ NativeInit

OnlyStep(activity) ==
  /\ focus = activity
  /\ UNCHANGED focus
  /\ activity # "session"     => UNCHANGED sessionVars
  /\ activity # "memory"      => UNCHANGED memVars
  /\ activity # "workspace"   => UNCHANGED wsVars
  /\ activity # "attachments" => UNCHANGED attVars
  /\ activity # "image"       => UNCHANGED runnerVars
  /\ activity # "passport"    => UNCHANGED passVars
  /\ activity # "view"        => UNCHANGED readVars
  /\ activity # "console"     => UNCHANGED conVars
  /\ activity # "panels"      => UNCHANGED panelVars
  /\ activity # "switch"      => UNCHANGED consoleVars
  /\ activity # "memorytab"   => UNCHANGED childMemoryVars
  /\ activity # "window"      => UNCHANGED nativeVars

CollaborationNext ==
  \/ OnlyStep("session")     /\ SessionNext
  \/ OnlyStep("memory")      /\ MemoryNext
  \/ OnlyStep("workspace")   /\ WorkspaceNext
  \/ OnlyStep("attachments") /\ AttachmentNext
  \/ OnlyStep("image")       /\ ImageRunnerNext
  \/ OnlyStep("passport")    /\ PassportNext
  \/ OnlyStep("view")        /\ ReadModelNext
  \/ OnlyStep("console")     /\ ConsoleNext
  \/ OnlyStep("panels")      /\ PanelsNext
  \/ OnlyStep("switch")      /\ PassportConsoleNext
  \/ OnlyStep("memorytab")   /\ ChildMemoryNext
  \/ OnlyStep("window")      /\ NativeNext

collaborationVars ==
  <<focus, sessionVars, memVars, wsVars, attVars, runnerVars, passVars, readVars,
    conVars, panelVars, consoleVars, childMemoryVars, nativeVars>>

CollaborationSpec == CollaborationInit /\ [][CollaborationNext]_collaborationVars

-----------------------------------------------------------------------------
\* What a Task says of an image is so: the run that made it, and the files and
\* receipts it passes through afterwards.
ImagesAreTrue == ImageClaimsAreTrue /\ AnswerTellsTheImage

\* Memory follows the user: what was deleted stays gone, and nothing is put into
\* an Agent's context without a consent that is still in force.
MemoryObeysTheUser == []DeletedMemoryStaysGone /\ InjectedMemoryIsConsented
=============================================================================
