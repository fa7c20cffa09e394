---------------------------- MODULE NativeWindow ----------------------------
(* The native island window: TauriNotchWindowController's queue of mode      *)
(* changes (apps/desktop/src/platform/tauri-notch-window.ts), the commands   *)
(* of src-tauri/src/window.rs and macos_panel.rs, which run on the main      *)
(* thread, and the delayed refresh that a screen change or a wake schedules  *)
(* on a thread of its own.  Sizes are the code's, in logical pixels; where   *)
(* the window stands is left out, it is always centred at the top.           *)
EXTENDS Integers, Sequences

CONSTANTS
  PanelModes,        \* the modes the interface asks for
  MaxModeCalls,      \* bounds the calls of setMode
  MaxHeightCalls,    \* bounds the calls of setConnectionDetailHeight
  MaxScreenChanges   \* bounds screen changes and wakes

ASSUME NativeBounds ==
  MaxModeCalls \in Nat /\ MaxHeightCalls \in Nat /\ MaxScreenChanges \in Nat

VARIABLES
  platform,    \* "macos" or "windows"
  screen,      \* the screen the window is on
  modeQueue,   \* calls of the controller not yet settled, oldest first
  modeCalls,   \* modeRevision: calls of setMode
  latestMode,  \* the mode of the last call
  heightCalls, \* calls of setConnectionDetailHeight
  askedHeight, \* history: the height asked for since the last mode was
  mainQueue,   \* closures posted to the main thread, oldest first
  currentMode, \* CURRENT_MODE
  detailHeight,\* CURRENT_DETAIL_HEIGHT_BITS (macOS only)
  panel,       \* the window: its size, its focus and what sized it last
  refreshes,   \* REFRESH_GENERATION / REPOSITION_GENERATION
  sleeping     \* generations of the refresh threads that have not woken

nativeVars == <<platform, screen, modeQueue, modeCalls, latestMode, heightCalls, askedHeight, mainQueue,
                currentMode, detailHeight, panel, refreshes, sleeping>>

BaseHeight == 352
MaxIslandHeight == 1200
BottomMargin == 24

\* A notched laptop screen and a small external one.
Displays == {[height |-> 900, notch |-> TRUE, top |-> 32], [height |-> 480, notch |-> FALSE, top |-> 0]}

Clamp(n, low, high) == IF n < low THEN low ELSE IF n > high THEN high ELSE n

SizeForMode(m) ==
  CASE m \in {"hidden", "idle"} -> [width |-> 64, height |-> 24]
    [] m \in {"onboarding", "error", "connection_detail"} -> [width |-> 500, height |-> BaseHeight]
    [] m = "processing" -> [width |-> 430, height |-> 300]
    [] m = "ready" -> [width |-> 360, height |-> 150]
    [] m = "task" -> [width |-> 600, height |-> 360]

SizeForModeOnMonitor(m, notch) ==
  IF notch /\ m \in {"hidden", "idle"} THEN [width |-> 52, height |-> 18] ELSE SizeForMode(m)

ConnectionDetailHeight(requested, monitor) ==
  Clamp(requested, BaseHeight, Clamp(monitor - BottomMargin, BaseHeight, MaxIslandHeight))

\* An expanded panel on a notched screen reclaims the camera row.
PanelHeight(m, base, display) ==
  IF display.notch /\ m \in {"onboarding", "connection_detail", "processing", "error", "task"}
  THEN base ELSE base + (IF display.notch THEN display.top ELSE 0)

\* The size resize_and_pin_on_main gives the panel (macOS), and the one set_size gets elsewhere.
TargetSize(m, requested, display) ==
  IF platform = "windows"
  THEN IF m = "connection_detail"
       THEN [width |-> 500, height |-> ConnectionDetailHeight(requested, display.height)]
       ELSE SizeForMode(m)
  ELSE LET base == SizeForModeOnMonitor(m, display.notch)
           height == IF m = "connection_detail" THEN ConnectionDetailHeight(requested, display.height)
                     ELSE base.height
       IN [width |-> base.width, height |-> PanelHeight(m, height, display)]

ModeAcceptsInput(m) == m \in {"onboarding", "connection_detail", "error", "task"}

InitialIslandMode(p) == IF p = "windows" THEN "onboarding" ELSE "idle"

Panel(size, m, requested, by) ==
  [size |-> size, mode |-> m, requested |-> requested, by |-> by,
   key |-> ModeAcceptsInput(m)]

\* create_island_window; the controller starts from "idle", and startup asks for the mode it needs.
NativeInit ==
  /\ platform \in {"macos", "windows"}
  /\ screen \in {d \in Displays : platform = "windows" => ~d.notch}
  /\ modeQueue = << >> /\ modeCalls = 0 /\ latestMode = "idle" /\ heightCalls = 0 /\ askedHeight = BaseHeight
  /\ mainQueue = << >>
  /\ currentMode = InitialIslandMode(platform) /\ detailHeight = BaseHeight
  /\ panel = Panel(TargetSize(InitialIslandMode(platform), BaseHeight, screen),
                   InitialIslandMode(platform), BaseHeight, "set")
  /\ refreshes = 0 /\ sleeping = {}

-----------------------------------------------------------------------------
\* setMode: a new revision, behind every call already queued.
SetMode ==
  /\ modeCalls < MaxModeCalls
  /\ \E m \in PanelModes :
       /\ modeQueue' = Append(modeQueue, [kind |-> "mode", mode |-> m, revision |-> modeCalls + 1, sent |-> FALSE])
       /\ latestMode' = m
  /\ modeCalls' = modeCalls + 1 /\ askedHeight' = BaseHeight
  /\ UNCHANGED <<platform, screen, heightCalls, mainQueue, currentMode, detailHeight, panel,
                 refreshes, sleeping>>

Height(requested) ==
  [kind |-> "height", mode |-> "connection_detail", revision |-> modeCalls, requested |-> requested, sent |-> FALSE]

\* A plausible bug: a height takes a revision of its own, like a mode.
HeightTakesRevision ==
  /\ heightCalls < MaxHeightCalls /\ heightCalls' = heightCalls + 1
  /\ \E requested \in {400, 2000} :
       /\ modeQueue' = Append(modeQueue, [Height(requested) EXCEPT !.revision = modeCalls + 1])
       /\ askedHeight' = requested
  /\ modeCalls' = modeCalls + 1
  /\ UNCHANGED <<platform, screen, latestMode, mainQueue, currentMode, detailHeight, panel,
                 refreshes, sleeping>>

\* setConnectionDetailHeight: belongs to the mode asked for last.
SetConnectionDetailHeight ==
  /\ heightCalls < MaxHeightCalls /\ heightCalls' = heightCalls + 1
  /\ \E requested \in {400, 2000} : modeQueue' = Append(modeQueue, Height(requested)) /\ askedHeight' = requested
  /\ UNCHANGED <<platform, screen, modeCalls, latestMode, mainQueue, currentMode, detailHeight,
                 panel, refreshes, sleeping>>

\* The call's turn: dropped when a later mode was asked for, else sent to the main thread.
TakeTurn ==
  /\ modeQueue # << >> /\ ~Head(modeQueue).sent
  /\ IF Head(modeQueue).revision # modeCalls
     THEN modeQueue' = Tail(modeQueue) /\ UNCHANGED mainQueue
     ELSE /\ modeQueue' = [modeQueue EXCEPT ![1].sent = TRUE]
          /\ mainQueue' = Append(mainQueue, Head(modeQueue))
  /\ UNCHANGED <<platform, screen, modeCalls, latestMode, heightCalls, askedHeight, currentMode,
                 detailHeight, panel, refreshes, sleeping>>

\* The command returned; the promise settles and the next call has its turn.
Settle ==
  /\ modeQueue # << >> /\ Head(modeQueue).sent
  /\ ~\E i \in DOMAIN mainQueue : mainQueue[i].kind # "refresh"
  /\ modeQueue' = Tail(modeQueue)
  /\ UNCHANGED <<platform, screen, modeCalls, latestMode, heightCalls, askedHeight, mainQueue,
                 currentMode, detailHeight, panel, refreshes, sleeping>>

-----------------------------------------------------------------------------
MainThreadRuns(kind) == mainQueue # << >> /\ Head(mainQueue).kind = kind /\ mainQueue' = Tail(mainQueue)

\* set_island_mode: the mode is stored before the window is touched, which may fail.
RunSetIslandMode ==
  /\ MainThreadRuns("mode")
  /\ LET m == Head(mainQueue).mode
         requested == IF m = "connection_detail" THEN BaseHeight ELSE detailHeight
     IN /\ currentMode' = m
        /\ detailHeight' = IF platform = "macos" THEN requested ELSE detailHeight
        /\ \/ panel' = Panel(TargetSize(m, BaseHeight, screen), m, BaseHeight, "set")
           \/ panel' = [panel EXCEPT !.by = "failed"]
  /\ UNCHANGED <<platform, screen, modeQueue, modeCalls, latestMode, heightCalls, askedHeight,
                 refreshes, sleeping>>

\* set_connection_detail_height: macOS refuses it in another mode and remembers the height.
RunSetDetailHeight ==
  /\ MainThreadRuns("height")
  /\ LET requested == Head(mainQueue).requested
     IN IF platform = "macos" /\ currentMode # "connection_detail"
        THEN UNCHANGED <<detailHeight, panel>>
        ELSE /\ detailHeight' = IF platform = "macos" THEN requested ELSE detailHeight
             /\ \/ panel' = Panel(TargetSize("connection_detail", requested, screen), "connection_detail", requested, "set")
                \/ panel' = [panel EXCEPT !.by = "failed"]
  /\ UNCHANGED <<platform, screen, modeQueue, modeCalls, latestMode, heightCalls, askedHeight,
                 currentMode, refreshes, sleeping>>

\* The refresh's closure: the mode its thread read, and on macOS the height of now.
RunRefresh ==
  /\ MainThreadRuns("refresh")
  /\ LET m == Head(mainQueue).mode
         requested == IF platform = "macos" THEN detailHeight ELSE BaseHeight
     IN \/ panel' = Panel(TargetSize(m, requested, screen), m, requested, "refresh")
        \/ panel' = [panel EXCEPT !.by = "failed"]
  /\ UNCHANGED <<platform, screen, modeQueue, modeCalls, latestMode, heightCalls, askedHeight,
                 currentMode, detailHeight, refreshes, sleeping>>

\* The window moves to another screen, or its screen changes; each notification schedules a refresh.
ScreenChanges ==
  /\ refreshes < MaxScreenChanges
  /\ screen' \in {d \in Displays : platform = "windows" => ~d.notch}
  /\ refreshes' = refreshes + 1 /\ sleeping' = sleeping \union {refreshes + 1}
  /\ UNCHANGED <<platform, modeQueue, modeCalls, latestMode, heightCalls, askedHeight, mainQueue,
                 currentMode, detailHeight, panel>>

\* After 120 or 150 ms: only the latest generation goes on, with the mode of this moment.
RefreshWakes ==
  /\ \E g \in sleeping :
       /\ sleeping' = sleeping \ {g}
       /\ mainQueue' = IF g = refreshes THEN Append(mainQueue, [kind |-> "refresh", mode |-> currentMode])
                       ELSE mainQueue
  /\ UNCHANGED <<platform, screen, modeQueue, modeCalls, latestMode, heightCalls, askedHeight,
                 currentMode, detailHeight, panel, refreshes>>

NativeNext ==
  \/ SetMode \/ SetConnectionDetailHeight \/ TakeTurn \/ Settle
  \/ RunSetIslandMode \/ RunSetDetailHeight \/ RunRefresh \/ ScreenChanges \/ RefreshWakes

NativeSpec == NativeInit /\ [][NativeNext]_nativeVars

-----------------------------------------------------------------------------
AtRest == modeQueue = << >> /\ mainQueue = << >> /\ sleeping = {}

(* What may have sized a window for another mode: a refresh whose thread read   *)
(* the mode before it changed, or on Windows a height, which is not refused in   *)
(* another mode (window.rs:474, macos_panel.rs:333).                              *)
SizedForAnotherMode ==
  /\ panel.mode # currentMode
  /\ panel.by = "refresh" \/ (platform = "windows" /\ panel.mode = "connection_detail")

(* On Windows a refresh knows no height: it takes an open detail window back to  *)
(* the height it began with (window.rs:480-481).                                  *)
ResetByRefresh ==
  platform = "windows" /\ panel.by = "refresh" /\ panel.size = TargetSize(currentMode, BaseHeight, screen)

(* When nothing is under way any more, whatever modes, heights and screen    *)
(* changes crossed and were coalesced: the native side is in the mode asked  *)
(* for last, and the window has the size that mode, the height last asked    *)
(* for in it and the present screen call for, unless the last sizing failed, *)
(* was a late one for another mode, or was a refresh on Windows.             *)
WindowFollowsLatestMode ==
  AtRest /\ modeCalls > 0 =>
    /\ currentMode = latestMode
    /\ \/ panel.size = TargetSize(currentMode, askedHeight, screen)
       \/ panel.by = "failed" \/ SizedForAnotherMode \/ ResetByRefresh
=============================================================================
