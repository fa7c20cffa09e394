-------------------------- MODULE PassportConsole --------------------------
(* The sharing switch of the Passport from the desktop to the disk:          *)
(* PassportController (apps/desktop/src/passport/controller.ts), which shows *)
(* a choice at once, writes it behind and reads the Passport on a timer, and *)
(* FilePassportSharingStore (runtime/passport/sharing.ts), which reads the   *)
(* file once, migrates the older layouts and keeps the policy in memory.     *)
(* A policy is one switch: validatePolicy refuses fields that differ.        *)
EXTENDS Naturals

CONSTANTS MaxChoices, MaxSharingStops  \* bound the clicks and the sidecar's restarts

ASSUME PassportConsoleBounds == MaxChoices \in Nat /\ MaxSharingStops \in Nat

VARIABLES
  policyFile,   \* missing, the current layout, or a layout of an earlier version
  cached,       \* FilePassportSharingStore.cached
  loading,      \* what the load in flight has read
  sharing,      \* the switch as shown, as last known to be saved, and sharingBusy
  sharingWrite, \* the setSharing call in flight: what it asks for and how far it is
  passportReads,\* the reads in flight: the timer's and the one after a mutation
  passportPoll, \* active and the timer
  logout,       \* the local logout: no, confirm or busy
  choice,       \* the user's last choice and what became of it
  freshCopies,  \* history: the copies of the store's policy taken since it last changed
  choices,
  sharingStops

consoleVars == <<policyFile, cached, loading, sharing, sharingWrite, passportReads,
                 passportPoll, logout, choice, freshCopies, choices, sharingStops>>

NoCall == [asks |-> "none", revision |-> 0, stored |-> FALSE]

Switch(file) == IF file \in {"on", "old_on"} THEN "on" ELSE "off"

PassportConsoleInit ==
  /\ policyFile \in {"missing", "on", "off", "old_on", "old_off"}
  /\ cached = "none" /\ loading = "none"
  /\ sharing = [shown |-> "off", persisted |-> "off", revision |-> 0, busy |-> FALSE]
  /\ sharingWrite = NoCall
  /\ passportReads = [poll |-> "asked", mutation |-> "none"]
  /\ passportPoll = [active |-> TRUE, timer |-> FALSE]
  /\ logout = "no"
  /\ choice = [wants |-> "none", failed |-> FALSE, raced |-> FALSE]
  /\ freshCopies = {}
  /\ choices = 0 /\ sharingStops = 0

\* What the store shares by: its memory, or what its next load will find.
Policy == IF cached = "none" THEN Switch(policyFile) ELSE cached

\* The copies that are still of the policy after a step of the store.
StillFresh == IF Policy' = Policy THEN freshCopies ELSE {}

\* A copy becomes what the controller takes for saved.
TakenForSaved(copy) ==
  (freshCopies \ {copy, "persisted"}) \cup (IF copy \in freshCopies THEN {"persisted"} ELSE {})

-----------------------------------------------------------------------------
(* The switch.                                                               *)

Call(s) == [asks |-> s.shown, revision |-> s.revision, stored |-> FALSE]

SetResourceSharing ==
  LET next == [sharing EXCEPT !.shown = IF @ = "on" THEN "off" ELSE "on",
                              !.revision = @ + 1, !.busy = TRUE]
  IN /\ choices < MaxChoices /\ choices' = choices + 1
     /\ sharing' = next
     /\ sharingWrite' = IF sharingWrite = NoCall THEN Call(next) ELSE sharingWrite
     /\ choice' = [wants |-> next.shown, failed |-> FALSE, raced |-> FALSE]
     /\ UNCHANGED <<policyFile, cached, loading, passportReads, passportPoll, logout, freshCopies,
                    sharingStops>>

\* The answer to the call in flight: a newer choice has it asked again.
WriteEndsAtOnce(next, failed) ==  \* a plausible bug: the newer choice is taken for written
  /\ sharing' = [next EXCEPT !.busy = FALSE]
  /\ sharingWrite' = NoCall
  /\ choice' = [choice EXCEPT !.failed = @ \/ failed]

WriteEnds(next, failed) ==
  IF sharingWrite.revision = sharing.revision
  THEN /\ sharing' = [next EXCEPT !.busy = FALSE]
       /\ sharingWrite' = NoCall
       /\ choice' = [choice EXCEPT !.failed = @ \/ failed]
  ELSE /\ sharing' = [sharing EXCEPT !.persisted = next.persisted]
       /\ sharingWrite' = Call(sharing)
       /\ UNCHANGED choice

WriteAnswered ==
  /\ sharingWrite.stored
  /\ WriteEnds([sharing EXCEPT !.shown = sharingWrite.asks, !.persisted = sharingWrite.asks], FALSE)
  /\ freshCopies' = TakenForSaved("write")
  /\ UNCHANGED <<policyFile, cached, loading, passportReads, passportPoll, logout, choices, sharingStops>>

\* A call that fails may have been stored: the bridge gives up on a late answer.  One
\* that has not been stored by then never is.
WriteFails ==
  /\ sharingWrite # NoCall
  /\ WriteEnds([sharing EXCEPT !.shown = sharing.persisted], TRUE)
  /\ freshCopies' = freshCopies \ {"write"}
  /\ UNCHANGED <<policyFile, cached, loading, passportReads, passportPoll, logout, choices, sharingStops>>

-----------------------------------------------------------------------------
(* The store.                                                                *)

StoreSaves ==
  /\ sharingWrite # NoCall /\ ~sharingWrite.stored
  /\ policyFile' = sharingWrite.asks /\ cached' = sharingWrite.asks
  /\ sharingWrite' = [sharingWrite EXCEPT !.stored = TRUE]
  /\ choice' = [choice EXCEPT !.raced = @ \/ loading # "none"]
  /\ freshCopies' = StillFresh \cup {"write"}
  /\ UNCHANGED <<loading, sharing, passportReads, passportPoll, logout, choices, sharingStops>>

StoreLoads ==
  /\ cached = "none" /\ loading = "none"
  /\ \E r \in DOMAIN passportReads : passportReads[r] = "asked"
  /\ loading' = policyFile
  /\ UNCHANGED <<policyFile, cached, sharing, sharingWrite, passportReads, passportPoll, logout,
                 choice, freshCopies, choices, sharingStops>>

StoreLoaded ==
  /\ loading # "none"
  /\ cached' = Switch(loading)
  /\ policyFile' = IF loading \in {"old_on", "old_off"} THEN Switch(loading) ELSE policyFile
  /\ loading' = "none"
  /\ freshCopies' = StillFresh
  /\ UNCHANGED <<sharing, sharingWrite, passportReads, passportPoll, logout, choice, choices,
                 sharingStops>>

SharingSidecarRestarts ==
  /\ sharingStops < MaxSharingStops /\ sharingStops' = sharingStops + 1
  /\ cached' = "none" /\ loading' = "none"
  /\ IF sharingWrite = NoCall THEN UNCHANGED <<sharing, sharingWrite, choice>>
     ELSE WriteEnds([sharing EXCEPT !.shown = sharing.persisted], TRUE)
  /\ passportReads' = [r \in DOMAIN passportReads |-> "none"]
  /\ passportPoll' = [passportPoll EXCEPT !.timer = @ \/ (passportReads.poll # "none" /\ passportPoll.active)]
  /\ UNCHANGED <<policyFile, logout, choices>>
  /\ freshCopies' = StillFresh \ {"write", "poll", "mutation"}

-----------------------------------------------------------------------------
(* Reading the Passport.                                                     *)

ReadCaptured(r) ==
  /\ passportReads[r] = "asked" /\ cached # "none"
  /\ passportReads' = [passportReads EXCEPT ![r] = cached]
  /\ freshCopies' = freshCopies \cup {r}
  /\ UNCHANGED <<policyFile, cached, loading, sharing, sharingWrite, passportPoll, logout,
                 choice, choices, sharingStops>>

\* readSnapshot: a switch being written stays as it is; a read of a stopped controller is dropped.
ReadAnswered(r) ==
  /\ passportReads[r] \in {"on", "off"}
  /\ IF ~passportPoll.active \/ sharing.busy
     THEN UNCHANGED sharing /\ freshCopies' = freshCopies \ {r}
     ELSE /\ sharing' = [sharing EXCEPT !.shown = passportReads[r], !.persisted = passportReads[r]]
          /\ freshCopies' = TakenForSaved(r)
  /\ passportReads' = [passportReads EXCEPT ![r] = "none"]
  /\ passportPoll' = IF r = "poll" /\ passportPoll.active
                     THEN [passportPoll EXCEPT !.timer = TRUE] ELSE passportPoll
  /\ UNCHANGED <<policyFile, cached, loading, sharingWrite, logout, choice, choices, sharingStops>>

PassportTimerFires ==
  /\ passportPoll.timer
  /\ passportPoll' = [passportPoll EXCEPT !.timer = FALSE]
  /\ passportReads' = [passportReads EXCEPT !.poll = IF @ = "none" THEN "asked" ELSE @]
  /\ UNCHANGED <<policyFile, cached, loading, sharing, sharingWrite, logout, choice, freshCopies,
                 choices, sharingStops>>

RefreshAfterMutation ==
  /\ passportReads.poll = "none" /\ passportReads.mutation = "none"
  /\ passportReads' = [passportReads EXCEPT !.mutation = "asked"]
  /\ UNCHANGED <<policyFile, cached, loading, sharing, sharingWrite, passportPoll, logout,
                 choice, freshCopies, choices, sharingStops>>

-----------------------------------------------------------------------------
(* The local logout stops the reads, and takes them up again if it fails.    *)

LocalLogout ==
  /\ \/ /\ logout = "no" /\ logout' = "confirm" /\ UNCHANGED <<passportPoll, passportReads>>
     \/ /\ logout = "confirm" /\ logout' = "no" /\ UNCHANGED <<passportPoll, passportReads>>
     \/ /\ logout = "confirm" /\ logout' = "busy"
        /\ passportPoll' = [active |-> FALSE, timer |-> FALSE] /\ UNCHANGED passportReads
     \/ /\ logout = "busy" /\ logout' = "no"
        /\ passportPoll' = [passportPoll EXCEPT !.active = TRUE]
        /\ passportReads' = [passportReads EXCEPT !.poll = IF @ = "none" THEN "asked" ELSE @]
  /\ UNCHANGED <<policyFile, cached, loading, sharing, sharingWrite, choice, freshCopies, choices, sharingStops>>

PassportConsoleNext ==
  \/ SetResourceSharing \/ WriteAnswered \/ WriteFails \/ StoreSaves \/ StoreLoads \/ StoreLoaded
  \/ SharingSidecarRestarts
  \/ \E r \in {"poll", "mutation"} : ReadCaptured(r) \/ ReadAnswered(r)
  \/ PassportTimerFires \/ RefreshAfterMutation \/ LocalLogout

PassportConsoleSpec == PassportConsoleInit /\ [][PassportConsoleNext]_consoleVars

-----------------------------------------------------------------------------
(* What the user chose last is what is saved and what the runtime shares by, *)
(* however fast the clicks and however late the reads: once no write is in   *)
(* flight, either the choice is in the file and in the store's memory, or    *)
(* its write failed, or it was saved while the store's first load was still  *)
(* in flight (flushSharingWrites 363 and readSnapshot 292 of                 *)
(* passport/controller.ts, FilePassportSharingStore.load and save).          *)
SharingChoiceIsSaved ==
  choice.wants # "none" /\ ~sharing.busy /\ ~choice.failed /\ ~choice.raced
    => policyFile = choice.wants /\ cached \in {"none", choice.wants}

(* An active controller always has its next read coming: one in flight or a  *)
(* timer, through stops, restarts and a logout that fails.                   *)
PassportKeepsReading == passportPoll.active => passportPoll.timer \/ passportReads.poll # "none"

(* With no write in flight the switch stands where the controller takes the  *)
(* policy to be saved, and that is the policy the runtime shares by if the   *)
(* read or the answer it comes from was taken since the policy last changed. *)
(* A read captured before a click and answered after its write ended is not: *)
(* it sets the switch back until the next read, which always comes           *)
(* (readSnapshot 297-305 of passport/controller.ts has no revision check).   *)
SwitchShowsThePolicy ==
  ~sharing.busy => /\ sharing.shown = sharing.persisted
                   /\ "persisted" \in freshCopies => sharing.shown = Policy

(* The last choice is saved, the switch shows the policy as last read, and   *)
(* the next read always comes.                                               *)
PassportViewIsTrue == SharingChoiceIsSaved /\ SwitchShowsThePolicy /\ PassportKeepsReading
=============================================================================
