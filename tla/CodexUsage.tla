---------------------------- MODULE CodexUsage ----------------------------
(***************************************************************************)
(* The Codex plan and quota reading (lifecycle-sidecar/codex-usage and     *)
(* src/codex-usage): one refresh at a time reads the credentials, asks the *)
(* usage endpoint - on Windows through the local proxy first - and stores  *)
(* what the Passport and the peers are shown.                              *)
(*                                                                         *)
(* The credentials file belongs to Codex and may change at any time; its   *)
(* claims are reduced to the plan's time of issue and its expiry.  A quota *)
(* bucket is its window in hours.  Error codes are kept where the code     *)
(* tells them apart.                                                       *)
(***************************************************************************)
EXTENDS Naturals, FiniteSets, FiniteSetsExt

CONSTANTS
  UsagePayloads,   \* the bucket windows, in hours, of the endpoint's answers
  PlanLife,        \* how long a local plan claim is valid
  PlanGrace,       \* LOCAL_AUTH_PLAN_GRACE_MS
  MaxUsageTime,    \* bound on the clock
  MaxRefreshes,    \* bound on refreshes
  MaxUsageStops    \* bound on stops

ASSUME UsageBounds ==
  /\ {PlanLife, PlanGrace, MaxUsageTime, MaxRefreshes, MaxUsageStops} \subseteq Nat
  /\ \A p \in UsagePayloads : IsFiniteSet(p) /\ p \subseteq Nat

VARIABLES
  authFile,      \* the credentials of Codex: kind, and the plan's time of issue
  usageState,    \* CodexUsageService.state
  usageActive,   \* CodexUsageService.active
  usageTimer,    \* TRUE while the next refresh is scheduled
  usageCall,     \* the refresh under way: stage, credentials, result
  usageWindows,  \* TRUE on Windows
  usageTime,     \* the clock
  refreshCount,  \* refreshes so far
  usageStops     \* stops so far

usageVars == <<authFile, usageState, usageActive, usageTimer, usageCall, usageWindows,
               usageTime, refreshCount, usageStops>>

----------------------------------------------------------------------------
(* Readings.                                                               *)

WeekHours == 168

HoursApart(a, b) == IF a > b THEN a - b ELSE b - a

(* The bucket nearest to a week within an hour of it, or else the longest  *)
(* of at least a day.                                                      *)
selectWeekly(windows) ==
  LET near == {w \in windows : HoursApart(w, WeekHours) <= 1}
      long == {w \in windows : w >= 24}
  IN IF near # {}
     THEN [is |-> "exact",
           window |-> CHOOSE w \in near : \A v \in near : HoursApart(w, WeekHours) <= HoursApart(v, WeekHours)]
     ELSE IF long # {} THEN [is |-> "inferred", window |-> Max(long)]
     ELSE [is |-> "none"]

NoWeekly == [is |-> "none"]

LiveSnapshot(windows, now) ==
  [source |-> "live", weekly |-> selectWeekly(windows), observed |-> now,
   fetched |-> now, stale |-> FALSE]

(* A request the network lost is answered from the credentials' own claims *)
(* until their grace is over; an expired claim makes a stale snapshot.     *)
HasFallback(auth, code, now) ==
  /\ auth.plan /\ code \in {"REQUEST_TIMEOUT", "NETWORK_UNAVAILABLE"}
  /\ auth.issued <= now
  /\ now <= auth.issued + PlanLife + PlanGrace

localAuthFallback(auth, now) ==
  [source |-> "local_auth", weekly |-> NoWeekly, observed |-> auth.issued,
   fetched |-> now, stale |-> auth.issued + PlanLife <= now]

NoUsage == [status |-> "unavailable", code |-> "NOT_STARTED"]

HasSnapshot(s) == s.status \in {"ready", "stale"}

(* What runRefresh makes of a snapshot: stored as fresh.                   *)
UsageReady(snapshot) == [status |-> "ready", snapshot |-> [snapshot EXCEPT !.stale = FALSE]]

(* What runRefresh makes of a failure: the last snapshot, as stale.        *)
UsageFailed(state, code) ==
  IF HasSnapshot(state)
  THEN [status |-> "stale", snapshot |-> [state.snapshot EXCEPT !.stale = TRUE], code |-> code]
  ELSE [status |-> "unavailable", code |-> code]

----------------------------------------------------------------------------
(* The service.                                                            *)

NoUsageCall == [stage |-> "none"]

NewUsageCall == [stage |-> "auth", active |-> usageActive]

CanRefresh == usageCall = NoUsageCall /\ refreshCount < MaxRefreshes

(* refreshNow when no refresh is under way; otherwise it joins that one.   *)
BeginRefresh ==
  /\ usageTimer' = FALSE
  /\ usageCall' = NewUsageCall
  /\ refreshCount' = refreshCount + 1

(* A caller - the Host's job, the timer - asks for a refresh.              *)
RefreshUsage ==
  /\ CanRefresh
  /\ BeginRefresh
  /\ UNCHANGED <<authFile, usageState, usageActive, usageWindows, usageTime, usageStops>>

StartUsage ==
  /\ ~usageActive
  /\ usageActive' = TRUE
  /\ \/ CanRefresh /\ BeginRefresh
     \/ usageCall # NoUsageCall /\ UNCHANGED <<usageTimer, usageCall, refreshCount>>
  /\ UNCHANGED <<authFile, usageState, usageWindows, usageTime, usageStops>>

StopUsage ==
  /\ usageActive /\ usageStops < MaxUsageStops
  /\ usageActive' = FALSE
  /\ usageTimer' = FALSE
  /\ usageStops' = usageStops + 1
  /\ UNCHANGED <<authFile, usageState, usageCall, usageWindows, usageTime, refreshCount>>

(* The refresh is settled: runRefresh stores its result.                   *)
SettlesWith(state) ==
  /\ usageState' = state
  /\ usageCall' = [stage |-> "settled", active |-> usageCall.active]
  /\ UNCHANGED <<authFile, usageActive, usageTimer, usageWindows, usageTime, refreshCount, usageStops>>

(* fetchUsage's failure path.                                              *)
FailsWith(code) ==
  SettlesWith(IF HasFallback(usageCall.auth, code, usageTime)
              THEN UsageReady(localAuthFallback(usageCall.auth, usageTime))
              ELSE UsageFailed(usageState, code))

CallMovesTo(call) ==
  /\ usageCall' = call
  /\ UNCHANGED <<authFile, usageState, usageActive, usageTimer, usageWindows, usageTime,
                 refreshCount, usageStops>>

(* readCodexAuth: re-read for every refresh; without a token the refresh   *)
(* fails before any request.                                               *)
ReadAuth ==
  /\ usageCall.stage = "auth"
  /\ IF authFile.kind = "token"
     THEN CallMovesTo([stage |-> IF usageWindows THEN "resolve" ELSE "direct",
                   active |-> usageCall.active, auth |-> authFile])
     ELSE SettlesWith(UsageFailed(usageState, authFile.kind))

(* Windows: an enabled loopback proxy is used first, through a process of  *)
(* its own.                                                                *)
ResolveProxy ==
  /\ usageCall.stage = "resolve"
  /\ \E stage \in {"proxy", "direct"} : CallMovesTo([usageCall EXCEPT !.stage = stage])

(* The proxy process fails, or what it wrote is no response: the direct    *)
(* request is tried within the same time limit.                            *)
ProxyFails ==
  /\ usageCall.stage = "proxy"
  /\ CallMovesTo([usageCall EXCEPT !.stage = "direct"])

(* The endpoint answers with a body to read, or refuses.                   *)
EndpointAnswers ==
  /\ usageCall.stage \in {"proxy", "direct"}
  /\ \/ CallMovesTo([usageCall EXCEPT !.stage = "body"])
     \/ FailsWith("HTTP_ERROR")

(* The body: a payload with buckets, or one the parser refuses.            *)
BodyArrives ==
  /\ usageCall.stage = "body"
  /\ \/ \E p \in UsagePayloads : SettlesWith(UsageReady(LiveSnapshot(p, usageTime)))
     \/ FailsWith("PAYLOAD_SCHEMA_MISMATCH")

(* The 8 s limit passes anywhere between the request and the body.         *)
RequestTimesOut ==
  /\ usageCall.stage \in {"resolve", "proxy", "direct", "body"}
  /\ FailsWith("REQUEST_TIMEOUT")

NetworkFails ==
  /\ usageCall.stage = "direct"
  /\ FailsWith("NETWORK_UNAVAILABLE")

(* The end of a refresh as it would be with active read at its beginning.  *)
RefreshEndsAsBegun ==
  /\ usageCall.stage = "settled"
  /\ usageCall' = NoUsageCall
  /\ usageTimer' = (usageTimer \/ usageCall.active)
  /\ UNCHANGED <<authFile, usageState, usageActive, usageWindows, usageTime, refreshCount, usageStops>>

(* The finally of a refresh: the next one is scheduled while active.       *)
RefreshEnds ==
  /\ usageCall.stage = "settled"
  /\ usageCall' = NoUsageCall
  /\ usageTimer' = (usageTimer \/ usageActive)
  /\ UNCHANGED <<authFile, usageState, usageActive, usageWindows, usageTime, refreshCount, usageStops>>

----------------------------------------------------------------------------
(* External: Codex signs in, out, or renews its token; time passes.        *)

AuthFiles ==
  [kind : {"AUTH_FILE_NOT_FOUND"}]
    \cup [kind : {"token"}, plan : {FALSE}]
    \cup [kind : {"token"}, plan : {TRUE}, issued : {usageTime}]

AuthChanges ==
  /\ authFile' \in AuthFiles \ {authFile}
  /\ UNCHANGED <<usageState, usageActive, usageTimer, usageCall, usageWindows, usageTime,
                 refreshCount, usageStops>>

UsageClockTicks ==
  /\ usageTime < MaxUsageTime
  /\ usageTime' = usageTime + 1
  /\ UNCHANGED <<authFile, usageState, usageActive, usageTimer, usageCall, usageWindows,
                 refreshCount, usageStops>>

----------------------------------------------------------------------------
UsageInit ==
  /\ usageTime = 0
  /\ authFile \in AuthFiles
  /\ usageState = NoUsage
  /\ usageActive = FALSE
  /\ usageTimer = FALSE
  /\ usageCall = NoUsageCall
  /\ usageWindows \in BOOLEAN
  /\ refreshCount = 0
  /\ usageStops = 0

UsageNext ==
  \/ RefreshUsage
  \/ StartUsage
  \/ StopUsage
  \/ ReadAuth
  \/ ResolveProxy
  \/ ProxyFails
  \/ EndpointAnswers
  \/ BodyArrives
  \/ RequestTimesOut
  \/ NetworkFails
  \/ RefreshEnds
  \/ AuthChanges
  \/ UsageClockTicks

----------------------------------------------------------------------------
(* A service that was started and not stopped always has a refresh under   *)
(* way or scheduled, however starts, stops and refreshes asked for by      *)
(* others fall together (start joins a refresh begun while stopped, and    *)
(* its end must schedule the next).                                        *)
UsageKeepsRefreshing == usageActive => usageTimer \/ usageCall # NoUsageCall
=============================================================================
