--------------------------- MODULE PassportExchange ---------------------------
(***************************************************************************)
(* How one Teti keeps a peer's copy of its Passport up to date over        *)
(* Chatmail (connections.ts).  The owner sends the content when it has     *)
(* changed or was asked for, and renews a lease on it, named by its hash,  *)
(* with every heartbeat.  The peer keeps the newest content, and asks for  *)
(* it when a lease names something else.  Both sides act in their polls;   *)
(* what Chatmail says about a delivery arrives at any time.  A heartbeat   *)
(* is taken to be read when it is sent: a late one says what an earlier    *)
(* one said, and a lost one was not sent.                                  *)
(*                                                                         *)
(* Contents are numbered, 0 is none and 1 means that nothing is shared.    *)
(* passTime.clock orders what the owner generates; a tick is the self-check *)
(* interval.                                                               *)
(***************************************************************************)
EXTENDS Naturals

CONSTANTS
  MaxContent,    \* contents besides 0
  MaxChecks,     \* bound: checks of the owner
  MaxTicks,      \* bound: self-check intervals
  MaxAsks,       \* bound: refresh requests
  PassportFaults \* bound: losses, failures, restarts and changes

ASSUME PassportAssumption ==
  /\ MaxContent \in Nat /\ MaxChecks \in Nat /\ MaxTicks \in Nat
  /\ MaxAsks \in Nat /\ PassportFaults \in Nat

VARIABLES
  passContent,  \* what the owner shares now
  passOut,      \* the owner's memory about this connection
  passIn,       \* the peer's memory about it, and its remote Passport store
  passNet,      \* teti.ai.status.sync messages under way
  passObs,      \* deliveries that the owner observes
  passTime      \* clock, ticks, requests, faults, and rounds without one

passVars == <<passContent, passOut, passIn, passNet, passObs, passTime>>

\* What broadcastAiStatus can put together: one content for each content hash.
Contents == 1 .. MaxContent
NothingShared == 1
NoCopy == [content |-> 0, gen |-> 0, lease |-> 0]
NoAsk == [n |-> 0, reason |-> "none", fresh |-> FALSE]

\* The owner after a start: everything is to be said again (ensureReady).
\* checked: there was a check in this interval.
Started(linked, knows) ==
  [linked |-> linked, knows |-> knows, pending |-> FALSE, sent |-> 0, retry |-> 0, aged |-> FALSE,
   forced |-> linked, flight |-> 0, lease |-> 0, leaseAt |-> 0, checked |-> FALSE, seen |-> 0]

Note(t) == passTime' = t
Clocked(t) == [t EXCEPT !.clock = @ + 1]
Faulty(t) == [t EXCEPT !.faults = @ + 1, !.calm = 0]
MayFail == passTime.faults < PassportFaults

-----------------------------------------------------------------------------
(* The owner                                                               *)

recordAiStatusDeliveryFailure(out, sig) ==
  [out EXCEPT !.retry = sig, !.aged = FALSE, !.forced = FALSE]

\* scheduleAiStatusBroadcast takes the pending policy, and forgets what was sent
\* once nothing is shared.
Forgetting(out, forceAll) ==
  [out EXCEPT !.sent = IF forceAll /\ passContent = NothingShared THEN 0 ELSE @,
              !.pending = @ /\ ~forceAll]

\* The retry has waited long enough: for certain after a self-check interval.
RetryDue(due) == passOut.retry = passContent /\ (due \/ passOut.aged)

\* broadcastAiStatus, up to its decision: the lease is for the content of now.
Leased(forced) ==
  [passOut EXCEPT !.lease = passContent, !.leaseAt = passTime.clock + 1,
                  !.checked = TRUE, !.forced = forced]
ToBeSent(forced, due) ==
  forced \/ RetryDue(due) \/ (passOut.sent # passContent /\ passOut.retry # passContent)

\* Without the protocol versions of the peer nothing is said to it.
NotYet(forceAll) ==
  /\ ~passOut.knows
  /\ passOut' = Forgetting([passOut EXCEPT !.forced = FALSE, !.checked = TRUE], forceAll)
  /\ Note(Clocked(passTime))
  /\ UNCHANGED <<passContent, passIn, passNet, passObs>>

\* Unchanged, or waiting for a retry, or for the delivery under way.
LeaseOnly(forceAll, due) ==
  /\ passOut.knows
  /\ LET forced == forceAll \/ passOut.forced IN
     \/ /\ ~ToBeSent(forced, due)
        /\ passOut' = Forgetting(Leased(FALSE), forceAll)
     \/ /\ ToBeSent(forced, due) /\ passOut.flight # 0
        /\ passOut' = Forgetting(Leased(passOut.forced \/ passOut.flight # passContent), forceAll)
  /\ Note(Clocked(passTime))
  /\ UNCHANGED <<passContent, passIn, passNet, passObs>>

SendPassportStatus(forceAll, due) ==
  /\ passOut.knows /\ ToBeSent(forceAll \/ passOut.forced, due) /\ passOut.flight = 0
  /\ LET gen == passTime.clock + 1 IN
     \/ /\ passNet' = passNet \cup {[content |-> passContent, at |-> gen]}
        /\ passObs' = passObs \cup {[sig |-> passContent, gen |-> gen]}
        /\ passOut' = Forgetting([Leased(FALSE) EXCEPT !.flight = passContent], forceAll)
        /\ Note(Clocked(passTime))
     \/ /\ MayFail
        /\ passOut' = Forgetting(recordAiStatusDeliveryFailure(Leased(FALSE), passContent), forceAll)
        /\ Note(Faulty(Clocked(passTime)))
        /\ UNCHANGED <<passNet, passObs>>
  /\ UNCHANGED <<passContent, passIn>>

broadcastAiStatus(forceAll, due) == NotYet(forceAll) \/ LeaseOnly(forceAll, due) \/ SendPassportStatus(forceAll, due)

\* sendDueAiStatus at the end of a poll
Check(due) ==
  /\ passOut.linked /\ passTime.clock < MaxChecks
  /\ passOut.forced \/ (due /\ passOut.retry # 0) \/ ~passOut.checked
  /\ broadcastAiStatus(FALSE, due)

\* scheduleAiStatusBroadcast: the latest policy, to every peer.
Broadcast ==
  /\ passOut.pending /\ passTime.clock < MaxChecks
  /\ IF passOut.linked THEN broadcastAiStatus(TRUE, FALSE)
     ELSE passOut' = [passOut EXCEPT !.pending = FALSE] /\ UNCHANGED <<passContent, passIn, passNet, passObs, passTime>>

\* The Agents, tools or offers change, which the next check sees, or the policy
\* does (setPassportSharing), which asks for a broadcast.
ContentChanges(c, policy) ==
  /\ c # passContent /\ MayFail
  /\ passContent' = c
  /\ passOut' = [passOut EXCEPT !.pending = @ \/ policy]
  /\ Note(Faulty(passTime))
  /\ UNCHANGED <<passIn, passNet, passObs>>

\* observeAiStatusDelivery: an outcome counts for the content that is in flight.
recordAiStatusDeliverySuccess(out, sig) ==
  IF out.flight # sig THEN out
  ELSE [out EXCEPT !.sent = sig, !.retry = 0, !.forced = FALSE, !.flight = 0]

DeliveryObserved(o) ==
  /\ passObs' = passObs \ {o}
  /\ \/ /\ passOut' = recordAiStatusDeliverySuccess(passOut, o.sig)
        /\ UNCHANGED passTime
     \/ /\ MayFail /\ Note(Faulty(passTime))
        /\ passOut' = IF passOut.flight # o.sig THEN passOut
                      ELSE [recordAiStatusDeliveryFailure(passOut, o.sig) EXCEPT !.flight = 0]
  /\ UNCHANGED <<passContent, passIn, passNet>>

\* A heartbeat of the peer (sendDueHeartbeats) in the presence branch of
\* processApplicationMessage: the peer's versions and its refresh request.
AskHeartbeat ==
  /\ passIn.linked /\ passOut.linked
  /\ LET n == passIn.ask.n IN
     passOut' = [passOut EXCEPT !.knows = TRUE, !.seen = IF n # 0 THEN n ELSE @,
                                !.forced = @ \/ ~passOut.knows \/ n \notin {0, passOut.seen}]
  /\ passOut' # passOut
  /\ UNCHANGED <<passContent, passIn, passNet, passObs, passTime>>

-----------------------------------------------------------------------------
(* The peer                                                                *)

\* queuePassportRefreshRequest: a new request unless there is a fresh one for the
\* same reason.  asks is the last number used.
queuePassportRefreshRequest(in, reason, asks) ==
  IF in.ask.n = 0 \/ in.ask.reason # reason \/ ~in.ask.fresh
  THEN [in EXCEPT !.ask = [n |-> asks + 1, reason |-> reason, fresh |-> TRUE]]
  ELSE in
Asked(in, reason) ==
  /\ passTime.asks < MaxAsks
  /\ passIn' = queuePassportRefreshRequest(in, reason, passTime.asks)
  /\ passTime' = [passTime EXCEPT !.asks = IF passIn'.ask = in.ask THEN @ ELSE @ + 1]

shouldReplaceRemoteAiStatus(existing, gen) == gen >= existing.gen

\* The teti.ai.status.sync branch of processApplicationMessage.  The save may
\* fail; a request is answered by any content that is taken.
ReceiveStatus(msg, lost, again) ==
  /\ again => MayFail
  /\ lost => MayFail
  /\ passNet' = IF again THEN passNet ELSE passNet \ {msg}
  /\ LET copy == [content |-> msg.content, gen |-> msg.at, lease |-> msg.at] IN
     passIn' = IF passIn.linked /\ shouldReplaceRemoteAiStatus(passIn.copy, msg.at)
               THEN [passIn EXCEPT !.copy = copy, !.ask = NoAsk, !.store = IF lost THEN @ ELSE copy]
               ELSE passIn
  /\ Note(IF again \/ lost THEN Faulty(passTime) ELSE passTime)
  /\ UNCHANGED <<passContent, passOut, passObs>>

\* A variant that only asks when it has no copy.
LeaseHeartbeatOnce ==
  /\ passOut.linked /\ passIn.linked /\ passIn.heard < passOut.leaseAt
  /\ LET heard == [passIn EXCEPT !.heard = passOut.leaseAt] IN
     IF passIn.copy.content = 0 THEN Asked(heard, "snapshot_missing")
     ELSE passIn' = heard /\ UNCHANGED passTime
  /\ UNCHANGED <<passContent, passOut, passNet, passObs>>

\* A heartbeat of the owner, with the lease of its last check, in
\* observeRemotePassportLease.
LeaseHeartbeat ==
  /\ passOut.linked /\ passIn.linked /\ passIn.heard < passOut.leaseAt
  /\ LET heard == [passIn EXCEPT !.heard = passOut.leaseAt]
         renewed == [passIn.copy EXCEPT !.lease = passOut.leaseAt]
     IN
     IF passIn.copy.content = 0 THEN Asked(heard, "snapshot_missing")
     ELSE IF passIn.copy.content # passOut.lease THEN Asked(heard, "snapshot_mismatch")
     ELSE /\ passIn' = IF passOut.leaseAt <= passIn.copy.lease THEN heard
                       ELSE [heard EXCEPT !.copy = renewed, !.store = renewed]
          /\ UNCHANGED passTime
  /\ UNCHANGED <<passContent, passOut, passNet, passObs>>

\* requestPassportRefresh by the user
AskManually ==
  /\ passIn.linked /\ MayFail /\ passTime.asks < MaxAsks
  /\ passIn' = queuePassportRefreshRequest(passIn, "manual", passTime.asks)
  /\ Note([Faulty(passTime) EXCEPT !.asks = @ + 1])
  /\ UNCHANGED <<passContent, passOut, passNet, passObs>>

-----------------------------------------------------------------------------
(* Faults and time                                                         *)

\* A message fails, expires or is given up by its reader.
Lose(msg) ==
  /\ MayFail
  /\ passNet' = passNet \ {msg}
  /\ Note(Faulty(passTime))
  /\ UNCHANGED <<passContent, passOut, passIn, passObs>>

OwnerRestarts ==
  /\ MayFail
  /\ passOut' = Started(passOut.linked, passOut.knows)
  /\ passObs' = {}
  /\ Note(Faulty(passTime))
  /\ UNCHANGED <<passContent, passIn, passNet>>

\* ensureReady restores the stored copy of a linked peer.
PeerRestarts ==
  /\ MayFail /\ passTime.asks < MaxAsks
  /\ passIn' = IF passIn.linked
               THEN [passIn EXCEPT !.copy = passIn.store,
                                   !.ask = [n |-> passTime.asks + 1, reason |-> "startup", fresh |-> TRUE]]
               ELSE [passIn EXCEPT !.copy = NoCopy, !.store = NoCopy, !.ask = NoAsk]
  /\ Note([Faulty(passTime) EXCEPT !.asks = @ + 1])
  /\ UNCHANGED <<passContent, passOut, passNet, passObs>>

\* applyNetworkRelationship at the owner and at the peer: removeRemotePassport when
\* the relationship is no longer confirmed, a new start when it is again.  What is
\* observed goes on being observed.
OwnerRelinks ==
  /\ passOut.linked => MayFail
  /\ passOut' = [Started(~passOut.linked, passOut.knows) EXCEPT !.checked = passOut.checked, !.pending = passOut.pending]
  /\ Note(Faulty(passTime))
  /\ UNCHANGED <<passContent, passIn, passNet, passObs>>

PeerRelinks ==
  /\ passIn.linked => MayFail
  /\ passTime.asks < MaxAsks
  /\ passIn' = [linked |-> ~passIn.linked, copy |-> NoCopy, store |-> NoCopy, heard |-> passIn.heard,
                ask |-> IF passIn.linked THEN NoAsk
                        ELSE [n |-> passTime.asks + 1, reason |-> "connection_confirmed", fresh |-> TRUE]]
  /\ Note([Faulty(passTime) EXCEPT !.asks = @ + 1])
  /\ UNCHANGED <<passContent, passOut, passNet, passObs>>

\* Everything that was to be done in this interval has been done.
RoundIsOver ==
  /\ passNet = {} /\ passObs = {} /\ ~passOut.forced /\ ~passOut.pending /\ passOut.flight = 0
  /\ passOut.checked /\ passOut.lease # 0 /\ passIn.heard >= passOut.leaseAt
  /\ passIn.ask.n \in {0, passOut.seen}

Tick ==
  /\ passTime.tick < MaxTicks
  /\ passTime' = [passTime EXCEPT !.tick = @ + 1, !.calm = IF RoundIsOver THEN @ + 1 ELSE 0]
  /\ passOut' = [passOut EXCEPT !.checked = FALSE, !.aged = passOut.retry # 0]
  /\ passIn' = [passIn EXCEPT !.ask.fresh = FALSE]
  /\ UNCHANGED <<passContent, passNet, passObs>>

PassportInit ==
  /\ passContent \in Contents
  /\ passOut = Started(TRUE, FALSE)
  /\ passIn = [linked |-> TRUE, copy |-> NoCopy, store |-> NoCopy, heard |-> 0,
               ask |-> [n |-> 1, reason |-> "connection_confirmed", fresh |-> TRUE]]
  /\ passNet = {} /\ passObs = {}
  /\ passTime = [clock |-> 0, tick |-> 0, asks |-> 1, faults |-> 0, calm |-> 0]

PassportNext ==
  \/ \E due \in BOOLEAN : Check(due)
  \/ Broadcast \/ LeaseHeartbeat \/ AskHeartbeat \/ AskManually
  \/ \E c \in Contents, policy \in BOOLEAN : ContentChanges(c, policy)
  \/ \E o \in passObs : DeliveryObserved(o)
  \/ \E msg \in passNet :
       \/ Lose(msg)
       \/ \E lost, again \in BOOLEAN : ReceiveStatus(msg, lost, again)
  \/ OwnerRestarts \/ PeerRestarts \/ OwnerRelinks \/ PeerRelinks \/ Tick

PassportSpec == PassportInit /\ [][PassportNext]_passVars

-----------------------------------------------------------------------------
(* Properties                                                              *)

\* After two intervals in which everything was delivered and nothing failed, the
\* peer has the Passport of now, whatever was lost, repeated, misreported or
\* restarted before (broadcastAiStatus, observeRemotePassportLease).
PassportConverges ==
  passTime.calm >= 2 /\ passOut.linked /\ passIn.linked => passIn.copy.content = passContent
=============================================================================
