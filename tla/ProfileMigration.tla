-------------------------- MODULE ProfileMigration --------------------------
(* The profile directory and its migration from 0.1                          *)
(* (apps/desktop/lifecycle-sidecar/profile.ts and profile-migration.ts):     *)
(* every start of the runtime prepares the directories, builds the active    *)
(* Store and the read-only archive in staging directories, renames each into *)
(* place and writes profile.json last.  The process may end between any two  *)
(* steps, and any file operation may fail.  A directory is the set of what   *)
(* is in it; "peers" stands for the connections file and "confirmed" for a   *)
(* file that holds the Confirmed ones only.                                  *)
EXTENDS Naturals, FiniteSets

CONSTANT MaxProfileStarts   \* bounds the starts of the runtime

ASSUME ProfileBounds == MaxProfileStarts \in Nat

LegacyFiles == {"account", "peers", "settings", "chatmail", "tasks", "messages"}

ControlFiles == {"messages_v2", "tasks_v2", "capabilities_v2"}

VARIABLES
  rootKind,     \* the profile root: production, an isolated validation profile, or another path
  legacy,       \* the 0.1 files in the root
  unscoped,     \* network state of 0.2 that is not scoped by environment
  store,        \* store-v2, {} when there is no directory
  storeStaging, \* .store-v2.migrating
  archive,      \* legacy-0.1
  archiveStaging,
  metadata,     \* profile.json is there
  step,         \* where ensureProfileDirectories is, "off" when no process runs
  profileStarts

profileVars ==
  <<rootKind, legacy, unscoped, store, storeStaging, archive, archiveStaging, metadata, step, profileStarts>>

ProfileInit ==
  /\ rootKind \in {"production", "validation", "other"}
  /\ legacy \in SUBSET LegacyFiles /\ unscoped \in BOOLEAN
  /\ store = {} /\ storeStaging = {} /\ archive = {} /\ archiveStaging = {}
  /\ metadata = FALSE /\ step = "off" /\ profileStarts = 0

HasLegacyProfileData == legacy \intersect {"account", "peers", "chatmail", "tasks"} # {}

\* What buildActiveStore copies of a legacy profile: the connections file is always written.
Migrated == (legacy \intersect {"account", "settings", "chatmail"}) \union {"confirmed"}

\* A fresh profile starts with an empty connections file.
ActiveStore == (IF HasLegacyProfileData THEN Migrated ELSE {"confirmed"}) \union ControlFiles

ArchivedFiles == (legacy \intersect {"tasks", "messages", "peers"}) \union {"manifest"}

-----------------------------------------------------------------------------
\* ensureProfileBootstrapDirectories, and the branches of migrateTetiProfileToV2.
ProfileStarts ==
  /\ step = "off" /\ profileStarts < MaxProfileStarts /\ profileStarts' = profileStarts + 1
  /\ step' = IF metadata THEN (IF store # {} THEN "scope" ELSE "off")
             ELSE IF store = {} THEN "clear_store"
             ELSE IF ControlFiles \subseteq store THEN "clear_archive" ELSE "off"
  /\ UNCHANGED <<rootKind, legacy, unscoped, store, storeStaging, archive, archiveStaging, metadata>>

ClearStoreStaging ==
  /\ step = "clear_store" /\ storeStaging' = {} /\ step' = "fill_store"
  /\ UNCHANGED <<rootKind, legacy, unscoped, store, archive, archiveStaging, metadata, profileStarts>>

\* migrateIdentity, migrateConfirmedConnections, the copies, then the control files.
FillStoreStaging ==
  /\ step = "fill_store"
  /\ \E f \in ActiveStore \ storeStaging :
       /\ f \in ControlFiles => ActiveStore \ ControlFiles \subseteq storeStaging
       /\ storeStaging' = storeStaging \union {f}
  /\ step' = IF ActiveStore \subseteq storeStaging' THEN "rename_store" ELSE "fill_store"
  /\ UNCHANGED <<rootKind, legacy, unscoped, store, archive, archiveStaging, metadata, profileStarts>>

RenameStore ==
  /\ step = "rename_store" /\ store' = storeStaging /\ storeStaging' = {} /\ step' = "clear_archive"
  /\ UNCHANGED <<rootKind, legacy, unscoped, archive, archiveStaging, metadata, profileStarts>>

\* buildLegacyArchive: nothing to do when an earlier start has renamed it.
ClearArchiveStaging ==
  /\ step = "clear_archive" /\ archiveStaging' = {}
  /\ step' = IF archive # {} THEN "metadata" ELSE "fill_archive"
  /\ UNCHANGED <<rootKind, legacy, unscoped, store, storeStaging, archive, metadata, profileStarts>>

\* A plausible bug: the archive is filled in place.
FillArchiveInPlace ==
  /\ step = "fill_archive"
  /\ \E f \in ArchivedFiles \ archive : archive' = archive \union {f}
  /\ archiveStaging' = archive'
  /\ step' = IF ArchivedFiles \subseteq archive' THEN "rename_archive" ELSE "fill_archive"
  /\ UNCHANGED <<rootKind, legacy, unscoped, store, storeStaging, metadata, profileStarts>>

FillArchiveStaging ==
  /\ step = "fill_archive"
  /\ \E f \in ArchivedFiles \ archiveStaging :
       /\ f = "manifest" => ArchivedFiles \ {"manifest"} \subseteq archiveStaging
       /\ archiveStaging' = archiveStaging \union {f}
  /\ step' = IF ArchivedFiles \subseteq archiveStaging' THEN "rename_archive" ELSE "fill_archive"
  /\ UNCHANGED <<rootKind, legacy, unscoped, store, storeStaging, archive, metadata, profileStarts>>

RenameArchive ==
  /\ step = "rename_archive" /\ archive' = archiveStaging /\ archiveStaging' = {} /\ step' = "metadata"
  /\ UNCHANGED <<rootKind, legacy, unscoped, store, storeStaging, metadata, profileStarts>>

WriteMetadata ==
  /\ step = "metadata" /\ metadata' = TRUE /\ step' = "scope"
  /\ UNCHANGED <<rootKind, legacy, unscoped, store, storeStaging, archive, archiveStaging, profileStarts>>

\* removeLegacyUnscopedNetworkState and the directories.
RemoveUnscopedNetworkState ==
  /\ step = "scope" /\ unscoped' = FALSE /\ step' = "ready"
  /\ UNCHANGED <<rootKind, legacy, store, storeStaging, archive, archiveStaging, metadata, profileStarts>>

\* A file operation fails: the staging directory in use is removed and the error ends the start.
\* The chmod after a rename may fail too, when the directory is in place already.
MigrationFails ==
  /\ step \notin {"off", "ready"} /\ step' = "off"
  /\ storeStaging' = IF step \in {"fill_store", "rename_store"} THEN {} ELSE storeStaging
  /\ archiveStaging' = IF step \in {"fill_archive", "rename_archive"} THEN {} ELSE archiveStaging
  /\ UNCHANGED <<rootKind, legacy, unscoped, store, archive, metadata, profileStarts>>

\* The process ends, while it migrates or later.
ProcessEnds ==
  /\ step # "off" /\ step' = "off"
  /\ UNCHANGED <<rootKind, legacy, unscoped, store, storeStaging, archive, archiveStaging, metadata, profileStarts>>

-----------------------------------------------------------------------------
\* validateAuthorizedProvisioningProfile over the environment of the process.
ProvisioningAuthorized(native, real, allowed, explicit) ==
  IF native THEN real /\ rootKind = "production"
  ELSE real /\ allowed /\ explicit /\ rootKind = "validation"

\* The running program uses the Store: it creates the account, and keeps Tasks there.
UseStore ==
  /\ step = "ready"
  /\ \/ /\ "account" \notin store
        /\ \E native, real, allowed, explicit \in BOOLEAN : ProvisioningAuthorized(native, real, allowed, explicit)
        /\ store' = store \union {"account"}
     \/ "work" \notin store /\ store' = store \union {"work"}
  /\ UNCHANGED <<rootKind, legacy, unscoped, storeStaging, archive, archiveStaging, metadata, step, profileStarts>>

\* cleanValidationProfile, by its script: only a recognized validation profile.
CleanValidationProfile ==
  /\ rootKind = "validation" /\ step = "off" /\ (legacy # {} \/ metadata \/ store # {})
  /\ legacy' = {} /\ unscoped' = FALSE /\ store' = {} /\ storeStaging' = {}
  /\ archive' = {} /\ archiveStaging' = {} /\ metadata' = FALSE
  /\ UNCHANGED <<rootKind, step, profileStarts>>

ProfileNext ==
  \/ ProfileStarts \/ ClearStoreStaging \/ FillStoreStaging \/ RenameStore
  \/ ClearArchiveStaging \/ FillArchiveStaging \/ RenameArchive \/ WriteMetadata
  \/ RemoveUnscopedNetworkState \/ MigrationFails \/ ProcessEnds \/ UseStore \/ CleanValidationProfile

ProfileSpec == ProfileInit /\ [][ProfileNext]_profileVars

-----------------------------------------------------------------------------
(* However often the migration is cut short, a profile that says it is       *)
(* migrated holds all of it: the Store has everything of 0.1 that is carried *)
(* over and its control files, and no Task, message or unconfirmed peer of   *)
(* 0.1; the archive has every 0.1 file that belongs there; and what the      *)
(* program has put into the Store since is never replaced by a later start.  *)
MigrationIsWhole ==
  [][/\ metadata' => /\ ActiveStore' \subseteq store' /\ archive' = ArchivedFiles'
                     /\ store' \subseteq ActiveStore' \union {"account", "work"}
     /\ "work" \in store => "work" \in store' \/ CleanValidationProfile]_profileVars
=============================================================================
