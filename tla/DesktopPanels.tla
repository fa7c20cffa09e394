--------------------------- MODULE DesktopPanels ---------------------------
(* The panels of the desktop window: the task workspace, the connections    *)
(* island with its connect panel, and the update blocker, as createDesktopApp *)
(* (apps/desktop/src/app.ts) and PeerConnectionController run them.  Every   *)
(* handler runs to its next await in one step.  A timer whose token has been *)
(* overtaken does nothing when it fires, so only the live timers are kept.   *)
(* mode is the window mode asked for last: the queue of                      *)
(* TauriNotchWindowController applies the latest request and no other.       *)
EXTENDS Naturals

VARIABLES
  winFocused,  \* lastWindowFocused
  blocked,     \* localAppUpdateRequired
  mode,        \* latestMode
  card,        \* the state of the one connection the Passport lists
  taskPanel,   \* TaskController: open, busy, and a dismissal put off
  peerPanel,   \* PeerConnectionController
  dock,        \* DockActivationGuard and the reassertion that follows it
  brandGuard,  \* preserveStateForBrandOpen
  launchGuard  \* windowsLaunchFocusGuardDeadline not reached

panelVars == <<winFocused, blocked, mode, card, taskPanel, peerPanel, dock, brandGuard, launchGuard>>

Cards == {"none", "Requested", "PendingApproval", "Confirmed"}
Closable == {"editing", "error", "success"}

ClosedPeers ==
  [open |-> FALSE, expanded |-> FALSE, state |-> "idle", timer |-> "none", call |-> "none",
   dismiss |-> FALSE, collapse |-> FALSE, detail |-> FALSE, inside |-> FALSE, busy |-> FALSE]

Touch(p) == [p EXCEPT !.collapse = TRUE]

ResetConnectPanel(p) == [p EXCEPT !.state = "idle", !.timer = "none"]

OpenedPeers(p) == Touch(IF p.open THEN p ELSE ResetConnectPanel([p EXCEPT !.open = TRUE]))

ClosesPeersAnyway(p) ==  \* a plausible bug: an open request does not hold the panel
  ResetConnectPanel([p EXCEPT !.open = FALSE, !.expanded = FALSE, !.dismiss = FALSE,
                              !.collapse = FALSE, !.detail = FALSE])

ClosesPeers(p) ==
  IF p.state = "connecting" THEN p
  ELSE ResetConnectPanel([p EXCEPT !.open = FALSE, !.expanded = FALSE, !.dismiss = FALSE,
                                   !.collapse = FALSE, !.detail = FALSE])

ClosesDetails(p) ==
  IF p.expanded THEN Touch([p EXCEPT !.expanded = FALSE, !.detail = TRUE]) ELSE p

BeginsPanelClose(p) == [p EXCEPT !.state = "closing", !.timer = "closed"]

ClosedTask == [open |-> FALSE, busy |-> FALSE, dismiss |-> FALSE]
ClosesTask(t) == [t EXCEPT !.open = FALSE, !.dismiss = FALSE]

PeerMode(p) == IF p.expanded THEN "connection_detail" ELSE "onboarding"

SurfaceMode(t, p) == IF t.open THEN "task" ELSE IF p.open THEN PeerMode(p) ELSE "idle"

\* render() asks for the error mode before anything else while an update is required.
Rendered(m) == IF blocked THEN "error" ELSE m

OnIsland == ~blocked /\ ~taskPanel.open /\ peerPanel.open
OnFace == ~blocked /\ ~taskPanel.open /\ ~peerPanel.open
OnTask == ~blocked /\ taskPanel.open

PanelsInit ==
  /\ winFocused = TRUE /\ blocked = FALSE /\ card = "none" /\ brandGuard = "off"
  /\ taskPanel = ClosedTask
  /\ launchGuard \in BOOLEAN
  /\ peerPanel = IF launchGuard THEN OpenedPeers(ClosedPeers) ELSE ClosedPeers
  /\ mode = SurfaceMode(taskPanel, peerPanel)
  /\ dock = [guard |-> FALSE, recent |-> FALSE, loss |-> FALSE, reassert |-> "no"]

Peers(p, m) ==
  /\ peerPanel' = p /\ mode' = m
  /\ UNCHANGED <<winFocused, blocked, card, taskPanel, dock, brandGuard, launchGuard>>

Tasks(t, m) ==
  /\ taskPanel' = t /\ mode' = m
  /\ UNCHANGED <<winFocused, blocked, card, peerPanel, dock, brandGuard, launchGuard>>

-----------------------------------------------------------------------------
(* The connections island.                                                   *)

FaceOpensPeers == OnFace /\ Peers(OpenedPeers(peerPanel), "onboarding")

PanelActivity == OnIsland /\ ~peerPanel.collapse /\ Peers(Touch(peerPanel), mode)

PointerEnters ==
  /\ OnIsland /\ ~peerPanel.inside
  /\ Peers([peerPanel EXCEPT !.inside = TRUE, !.collapse = FALSE], mode)

PointerLeaves ==
  /\ OnIsland /\ peerPanel.inside
  /\ Peers(Touch([peerPanel EXCEPT !.inside = FALSE]), mode)

ActivateEyes ==
  /\ OnIsland
  /\ \/ /\ peerPanel.state = "idle"
        /\ Peers([peerPanel EXCEPT !.state = "opening", !.timer = "opened"], mode)
     \/ /\ peerPanel.state \in Closable
        /\ Peers(BeginsPanelClose(peerPanel), mode)

\* keydown notes the activity; Escape closes the details, then the connect panel, then the island.
HandleEscape ==
  /\ OnIsland
  /\ LET p == Touch(peerPanel) IN
     \/ p.expanded /\ Peers(ClosesDetails(p), mode)
     \/ ~p.expanded /\ p.state = "idle" /\ Peers(ClosesPeers(p), "idle")
     \/ ~p.expanded /\ p.state \in Closable /\ Peers(BeginsPanelClose(p), mode)

OpenDetails ==
  /\ OnIsland /\ card = "Confirmed"
  /\ Peers(Touch([peerPanel EXCEPT !.expanded = TRUE, !.detail = FALSE]), "connection_detail")

CloseDetails == OnIsland /\ peerPanel.expanded /\ Peers(ClosesDetails(peerPanel), mode)

UpdateInput ==
  /\ OnIsland /\ peerPanel.state \in {"editing", "error"}
  /\ \E s \in {"editing", "error"} : Peers(Touch([peerPanel EXCEPT !.state = s]), mode)

Connect ==
  /\ OnIsland /\ peerPanel.state \in {"editing", "error"}
  /\ \/ Peers([peerPanel EXCEPT !.state = "error"], mode)
     \/ Peers(Touch([peerPanel EXCEPT !.state = "connecting", !.call = "request"]), mode)

\* A dismissal that waited for the answer is carried out once it is there.
ConnectEnds(p) ==
  LET q == [p EXCEPT !.call = "none", !.dismiss = FALSE] IN
  IF p.dismiss /\ p.open THEN Peers(ClosesPeers(q), "idle") ELSE Peers(q, Rendered(mode))

ConnectAnswered ==
  \/ /\ peerPanel.call = "request"
     /\ \/ Peers([peerPanel EXCEPT !.call = "refresh"], mode)
        \/ ConnectEnds([peerPanel EXCEPT !.state = "error"])
  \/ /\ peerPanel.call = "refresh"
     /\ \/ ConnectEnds([peerPanel EXCEPT !.state = "success", !.timer = "success"])
        \/ ConnectEnds([peerPanel EXCEPT !.state = "error"])

PanelTimerFires ==
  \/ /\ peerPanel.timer = "opened"
     /\ Peers([peerPanel EXCEPT !.state = "editing", !.timer = "none"], Rendered(mode))
  \/ /\ peerPanel.timer = "success"
     /\ Peers(BeginsPanelClose(peerPanel), Rendered(mode))
  \/ /\ peerPanel.timer = "closed"
     /\ Peers(Touch(ResetConnectPanel(peerPanel)), Rendered(mode))

DetailTimerFires ==
  /\ peerPanel.detail
  /\ Peers([peerPanel EXCEPT !.detail = FALSE],
           IF peerPanel.open /\ ~peerPanel.expanded THEN "onboarding" ELSE mode)

CollapseTimerFires ==
  /\ peerPanel.collapse
  /\ IF peerPanel.open /\ ~peerPanel.busy /\ peerPanel.state = "idle" /\ ~peerPanel.inside
     THEN Peers(ClosesPeers(peerPanel), "idle")
     ELSE Peers([peerPanel EXCEPT !.collapse = FALSE], mode)

MutationBegins ==
  /\ OnIsland /\ card = "PendingApproval"
  /\ ~peerPanel.busy /\ peerPanel.state # "connecting"
  /\ Peers(Touch([peerPanel EXCEPT !.busy = TRUE]), mode)

MutationEnds ==
  /\ peerPanel.busy
  /\ Peers(Touch([peerPanel EXCEPT !.busy = FALSE]), Rendered(mode))

\* A Passport read shows the connection in any state: an approval that is new opens the island.
SyncPassportConnections ==
  \E c \in Cards :
    LET p == IF c = "Confirmed" THEN peerPanel ELSE ClosesDetails(peerPanel)
        incoming == card # "PendingApproval" /\ c = "PendingApproval" /\ ~peerPanel.open
    IN /\ c # card
       /\ card' = c
       /\ peerPanel' = IF incoming THEN OpenedPeers(p) ELSE p
       /\ mode' = Rendered(IF incoming THEN "onboarding" ELSE mode)
       /\ UNCHANGED <<winFocused, blocked, taskPanel, dock, brandGuard, launchGuard>>

-----------------------------------------------------------------------------
(* The task workspace.                                                       *)

FaceOpensTask == OnFace /\ Tasks([taskPanel EXCEPT !.open = TRUE], "task")

IslandOpensTask ==
  /\ OnIsland
  /\ peerPanel' = ClosesPeers(peerPanel)
  /\ taskPanel' = [taskPanel EXCEPT !.open = TRUE] /\ mode' = "task"
  /\ UNCHANGED <<winFocused, blocked, card, dock, brandGuard, launchGuard>>

TaskNavigates == OnTask /\ mode # "task" /\ Tasks(taskPanel, "task")

TaskBackToIsland ==
  /\ OnTask
  /\ taskPanel' = ClosesTask(taskPanel)
  /\ peerPanel' = OpenedPeers(peerPanel)
  /\ mode' = PeerMode(peerPanel')
  /\ UNCHANGED <<winFocused, blocked, card, dock, brandGuard, launchGuard>>

TaskRunBegins == OnTask /\ ~taskPanel.busy /\ Tasks([taskPanel EXCEPT !.busy = TRUE], mode)

TaskRunEnds ==
  LET t == [taskPanel EXCEPT !.busy = FALSE] IN
  /\ taskPanel.busy
  /\ IF t.dismiss /\ t.open THEN Tasks(ClosesTask(t), "idle")
     ELSE Tasks([t EXCEPT !.dismiss = FALSE], Rendered(mode))

-----------------------------------------------------------------------------
(* Focus, the dock and the release policy.                                   *)

\* dismissPanelsFromOutside: a busy surface keeps the dismissal for later.
Dismisses ==
  LET t == IF taskPanel.busy THEN [taskPanel EXCEPT !.dismiss = TRUE] ELSE ClosesTask(taskPanel)
      p == IF peerPanel.state = "connecting" THEN [peerPanel EXCEPT !.dismiss = TRUE]
           ELSE ClosesPeers(peerPanel)
  IN /\ taskPanel' = IF taskPanel.open THEN t ELSE taskPanel
     /\ peerPanel' = IF peerPanel.open THEN p ELSE peerPanel
     /\ mode' = IF taskPanel'.open # taskPanel.open \/ peerPanel'.open # peerPanel.open
                THEN "idle" ELSE mode

FocusGained ==
  /\ ~winFocused /\ winFocused' = TRUE
  /\ dock' = [dock EXCEPT !.loss = FALSE, !.reassert = "no"]
  /\ taskPanel' = [taskPanel EXCEPT !.dismiss = FALSE]
  /\ peerPanel' = [peerPanel EXCEPT !.dismiss = FALSE]
  /\ mode' = Rendered(mode)
  /\ UNCHANGED <<blocked, card, brandGuard, launchGuard>>

FocusLost ==
  /\ winFocused /\ winFocused' = FALSE
  /\ UNCHANGED <<blocked, card, launchGuard>>
  /\ \/ /\ blocked
        /\ mode' = "error" /\ UNCHANGED <<taskPanel, peerPanel, dock, brandGuard>>
     \/ /\ ~blocked /\ launchGuard
        /\ UNCHANGED <<mode, taskPanel, peerPanel, dock, brandGuard>>
     \/ /\ ~blocked /\ ~launchGuard /\ brandGuard # "off"
        /\ brandGuard' = "off" /\ UNCHANGED <<mode, taskPanel, peerPanel, dock>>
     \/ /\ ~blocked /\ ~launchGuard /\ brandGuard = "off" /\ dock.guard
        /\ dock' = [dock EXCEPT !.loss = TRUE]
        /\ UNCHANGED <<mode, taskPanel, peerPanel, brandGuard>>
     \/ /\ ~blocked /\ ~launchGuard /\ brandGuard = "off" /\ ~dock.guard
        /\ Dismisses
        /\ dock' = [dock EXCEPT !.reassert = "no"] /\ UNCHANGED brandGuard

DockActivates ==
  /\ UNCHANGED <<winFocused, blocked, card, brandGuard, launchGuard>>
  /\ \/ /\ blocked
        /\ mode' = "error" /\ dock' = [dock EXCEPT !.reassert = "no"]
        /\ UNCHANGED <<taskPanel, peerPanel>>
     \/ /\ ~blocked
        /\ dock' = [dock EXCEPT !.reassert = "no", !.guard = TRUE, !.recent = TRUE]
        /\ IF dock.recent THEN UNCHANGED <<mode, taskPanel, peerPanel>>
           ELSE /\ taskPanel' = ClosesTask(taskPanel)
                /\ peerPanel' = OpenedPeers(peerPanel)
                /\ mode' = PeerMode(peerPanel')

\* reconcileDockFocusLoss: the guard has run out and the window is still not focused.
DockSettles ==
  /\ dock.loss /\ ~dock.guard
  /\ LET open == taskPanel.open \/ peerPanel.open
         asks == ~winFocused /\ ~blocked /\ open
     IN /\ dock' = [dock EXCEPT !.loss = FALSE, !.reassert = IF asks THEN "asking" ELSE @]
        /\ mode' = IF asks THEN SurfaceMode(taskPanel, peerPanel) ELSE mode
  /\ UNCHANGED <<winFocused, blocked, card, taskPanel, peerPanel, brandGuard, launchGuard>>

DockReasserts ==
  \/ /\ dock.reassert = "asking"
     /\ \E r \in {"settling", "no"} : dock' = [dock EXCEPT !.reassert = r]
     /\ UNCHANGED <<winFocused, blocked, mode, card, taskPanel, peerPanel, brandGuard, launchGuard>>
  \/ /\ dock.reassert = "settling"
     /\ Dismisses /\ dock' = [dock EXCEPT !.reassert = "no"]
     /\ UNCHANGED <<winFocused, blocked, card, brandGuard, launchGuard>>

GuardsPass ==
  /\ UNCHANGED <<winFocused, blocked, mode, card, taskPanel, peerPanel>>
  /\ \/ dock.recent /\ dock' = [dock EXCEPT !.recent = FALSE] /\ UNCHANGED <<brandGuard, launchGuard>>
     \/ /\ dock.guard /\ ~dock.recent
        /\ dock' = [dock EXCEPT !.guard = FALSE] /\ UNCHANGED <<brandGuard, launchGuard>>
     \/ brandGuard = "opened" /\ brandGuard' = "off" /\ UNCHANGED <<dock, launchGuard>>
     \/ launchGuard /\ launchGuard' = FALSE /\ UNCHANGED <<dock, brandGuard>>

BrandOpens ==
  /\ UNCHANGED <<winFocused, blocked, mode, card, taskPanel, peerPanel, dock, launchGuard>>
  /\ \/ OnIsland /\ brandGuard # "opening" /\ brandGuard' = "opening"
     \/ brandGuard = "opening" /\ brandGuard' \in {"off", "opened"}

ReleaseChanges ==
  /\ blocked' = ~blocked
  /\ mode' = IF blocked' THEN "error" ELSE SurfaceMode(taskPanel, peerPanel)
  /\ UNCHANGED <<winFocused, card, taskPanel, peerPanel, dock, brandGuard, launchGuard>>

PanelsNext ==
  \/ FaceOpensPeers \/ PanelActivity \/ PointerEnters \/ PointerLeaves \/ ActivateEyes
  \/ HandleEscape \/ OpenDetails \/ CloseDetails \/ UpdateInput \/ Connect \/ ConnectAnswered
  \/ PanelTimerFires \/ DetailTimerFires \/ CollapseTimerFires \/ MutationBegins \/ MutationEnds
  \/ SyncPassportConnections \/ FaceOpensTask \/ IslandOpensTask \/ TaskNavigates
  \/ TaskBackToIsland \/ TaskRunBegins \/ TaskRunEnds \/ FocusGained \/ FocusLost
  \/ DockActivates \/ DockSettles \/ DockReasserts \/ GuardsPass \/ BrandOpens \/ ReleaseChanges

PanelsSpec == PanelsInit /\ [][PanelsNext]_panelVars

-----------------------------------------------------------------------------
(* No panel is left waiting for something that will not come: a moving       *)
(* connect panel has its timer, one that says "connecting" has its call and  *)
(* the call has its panel, a dismissal that was put off has what it waits    *)
(* for, and an open island nobody uses has a live collapse timer             *)
(* (connections/controller.ts 482, 505, 187, 200 and tasks/controller.ts 344). *)
PanelIsNeverStuck ==
  /\ peerPanel.state \in {"opening", "success", "closing"} => peerPanel.timer # "none"
  /\ peerPanel.state = "connecting" <=> peerPanel.call # "none"
  /\ peerPanel.dismiss => peerPanel.call # "none"
  /\ taskPanel.dismiss => taskPanel.busy
  /\ peerPanel.open /\ peerPanel.state = "idle" /\ ~peerPanel.busy /\ ~peerPanel.inside
       => peerPanel.collapse
=============================================================================
