------------------------- MODULE ProfilePublication -------------------------
(* The profile service: publishes the local profile to the Network under a     *)
(* revision guard, with the write in flight kept on disk so that a restart     *)
(* repeats it under the same idempotency key.  Another client of the same      *)
(* identity may write the published profile at any time.                       *)
EXTENDS Naturals, FiniteSets

CONSTANTS MaxProfile,      \* bound on local changes, foreign writes and crashes
          MaxProfileWrites \* bound on idempotency keys

ASSUME ProfileAssumption == MaxProfile \in Nat /\ MaxProfileWrites \in Nat

VARIABLES pubDesired,  \* the local profile: a version number
          pubDue,      \* a change has been signalled and no call made for it yet
          pubServer,   \* the published profile, its revision, the keys applied
          pubStore,    \* the pending write on disk
          pubRun,      \* the synchronization in flight
          pubRerun,    \* rerunRequested
          pubCount     \* events so far and keys issued

pubVars == <<pubDesired, pubDue, pubServer, pubStore, pubRun, pubRerun, pubCount>>

NoProfileWrite == [key |-> 0, rev |-> 0, value |-> 0]
PubResting(last) == [at |-> last, desired |-> 0, seen |-> 0, write |-> NoProfileWrite, tries |-> 0]
PubInFlight == pubRun.at \notin {"ended", "failed"}
ForeignProfile == MaxProfile + 1  \* what the other client writes

PubInit ==
  /\ pubDesired = 1 /\ pubDue = TRUE
  /\ pubServer = [rev |-> 0, value |-> 0, applied |-> {}]
  /\ pubStore = NoProfileWrite
  /\ pubRun = PubResting("failed")
  /\ pubRerun = FALSE
  /\ pubCount = [events |-> 0, keys |-> 0]

PubEvent == /\ pubCount.events < MaxProfile
         /\ pubCount' = [pubCount EXCEPT !.events = @ + 1]

LocalProfileChange ==
  /\ PubEvent
  /\ pubDesired' = pubDesired + 1
  /\ pubDue' = TRUE
  /\ UNCHANGED <<pubServer, pubStore, pubRun, pubRerun>>

\* synchronize: a call that finds one in flight asks it to run again.
SynchronizeJoins ==
  /\ pubDue /\ pubDue' = FALSE
  /\ IF PubInFlight THEN UNCHANGED <<pubRun, pubRerun>>
     ELSE pubRun' = PubResting("begin") /\ pubRerun' = FALSE
  /\ UNCHANGED <<pubDesired, pubServer, pubStore, pubCount>>

ProfileSynchronize ==
  /\ pubDue /\ pubDue' = FALSE
  /\ IF PubInFlight THEN pubRerun' = TRUE /\ UNCHANGED pubRun
     ELSE pubRun' = PubResting("begin") /\ pubRerun' = FALSE
  /\ UNCHANGED <<pubDesired, pubServer, pubStore, pubCount>>

ProfileFails == pubRun' = PubResting("failed")

\* runUntilClean: the result stands unless a call came in meanwhile.
ProfileDone ==
  IF pubRerun THEN pubRun' = PubResting("begin") /\ pubRerun' = FALSE
  ELSE pubRun' = PubResting("ended") /\ UNCHANGED pubRerun

\* Compatibility, authentication and the desired profile; then the pending write.
ProfileBegins ==
  /\ pubRun.at = "begin"
  /\ \/ pubRun' = [pubRun EXCEPT !.desired = pubDesired, !.write = pubStore,
                                 !.at = IF pubStore = NoProfileWrite THEN "read" ELSE "resend"]
     \/ ProfileFails
  /\ UNCHANGED <<pubDesired, pubDue, pubServer, pubStore, pubRerun, pubCount>>

\* The Network applies a write at the revision it names, answers a key it has
\* applied with that result, and refuses any other.
ServerApplies(write) ==
  IF write.key \in pubServer.applied THEN UNCHANGED pubServer
  ELSE pubServer' = [rev |-> pubServer.rev + 1, value |-> write.value,
                     applied |-> pubServer.applied \cup {write.key}]

ServerAccepts(write) == write.key \in pubServer.applied \/ write.rev = pubServer.rev

PubSendFails ==
  /\ pubRun.at \in {"resend", "send"}
  /\ \/ UNCHANGED pubServer
     \/ ServerAccepts(pubRun.write) /\ ServerApplies(pubRun.write)
  /\ ProfileFails
  /\ UNCHANGED <<pubDesired, pubDue, pubStore, pubRerun, pubCount>>

ResendAnswered ==
  /\ pubRun.at = "resend" /\ ServerAccepts(pubRun.write)
  /\ ServerApplies(pubRun.write)
  /\ pubStore' = NoProfileWrite
  /\ IF pubRun.write.value = pubRun.desired THEN ProfileDone
     ELSE pubRun' = [pubRun EXCEPT !.at = "read"] /\ UNCHANGED pubRerun
  /\ UNCHANGED <<pubDesired, pubDue, pubCount>>

WriteAnswered ==
  /\ pubRun.at = "send" /\ ServerAccepts(pubRun.write)
  /\ ServerApplies(pubRun.write)
  /\ pubStore' = NoProfileWrite
  /\ ProfileDone
  /\ UNCHANGED <<pubDesired, pubDue, pubCount>>

\* A revision conflict drops the write; a fresh one is tried once more.
WriteConflicts ==
  /\ pubRun.at \in {"resend", "send"} /\ ~ServerAccepts(pubRun.write)
  /\ pubStore' = NoProfileWrite
  /\ IF pubRun.at = "send" /\ pubRun.tries = 1 THEN ProfileFails
     ELSE pubRun' = [pubRun EXCEPT !.tries = IF pubRun.at = "send" THEN 1 ELSE @, !.at = "read"]
  /\ UNCHANGED <<pubDesired, pubDue, pubServer, pubRerun, pubCount>>

ReadProfile ==
  /\ pubRun.at = "read"
  /\ \/ /\ pubServer.value = pubRun.desired
        /\ ProfileDone
     \/ /\ pubServer.value # pubRun.desired
        /\ pubRun' = [pubRun EXCEPT !.at = "save", !.seen = pubServer.rev]
        /\ UNCHANGED pubRerun
     \/ ProfileFails /\ UNCHANGED pubRerun
  /\ UNCHANGED <<pubDesired, pubDue, pubServer, pubStore, pubCount>>

SaveWrite ==
  /\ pubRun.at = "save"
  /\ pubCount.keys < MaxProfileWrites
  /\ pubCount' = [pubCount EXCEPT !.keys = @ + 1]
  /\ pubStore' = [key |-> pubCount.keys + 1, rev |-> pubRun.seen, value |-> pubRun.desired]
  /\ pubRun' = [pubRun EXCEPT !.at = "send", !.write = pubStore']
  /\ UNCHANGED <<pubDesired, pubDue, pubServer, pubRerun>>

ForeignWrite ==
  /\ PubEvent
  /\ pubServer' = [pubServer EXCEPT !.rev = @ + 1, !.value = ForeignProfile]
  /\ UNCHANGED <<pubDesired, pubDue, pubStore, pubRun, pubRerun>>

\* A failed run is tried again by its job, a new process runs it at its start.
ProfileRetry ==
  /\ pubRun.at = "failed" /\ ~pubDue
  /\ pubDue' = TRUE
  /\ UNCHANGED <<pubDesired, pubServer, pubStore, pubRun, pubRerun, pubCount>>

ProfileRestart ==
  /\ PubEvent
  /\ pubRun' = PubResting("failed") /\ pubRerun' = FALSE /\ pubDue' = TRUE
  /\ UNCHANGED <<pubDesired, pubServer, pubStore>>

PubNext ==
  \/ LocalProfileChange \/ ProfileSynchronize \/ ProfileBegins \/ PubSendFails
  \/ ResendAnswered \/ WriteAnswered \/ WriteConflicts \/ ReadProfile \/ SaveWrite
  \/ ForeignWrite \/ ProfileRetry \/ ProfileRestart

PubSpec == PubInit /\ [][PubNext]_pubVars

-----------------------------------------------------------------------------
\* When the service rests after a success and no change waits for a call, the
\* Network shows the present local profile: a change made while a run was in
\* flight is not lost, and a write repeated after a crash does not bring an
\* older profile back.  Only another client's write may stand there instead.
PublishedProfileIsCurrent ==
  (pubRun.at = "ended" /\ ~pubDue) => pubServer.value \in {pubDesired, ForeignProfile}
=============================================================================
