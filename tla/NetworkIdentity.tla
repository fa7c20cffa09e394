--------------------------- MODULE NetworkIdentity ---------------------------
(* The network identity of one local account: the synchronization that binds   *)
(* the account file to an identity of the Network, the credential file that    *)
(* makes a repeated registration the same registration, the relay binding that *)
(* follows it, and the other services that ask for an authenticated signer     *)
(* while all this happens.  Every await of the code is a step; the process may *)
(* end at any of them and start again, in the same or in the other environment.*)
EXTENDS Naturals, FiniteSets

CONSTANTS NetEnvironments,  \* the Network environments a start may select
          MaxKeys,          \* bound on generated signing keys
          MaxNetStarts      \* bound on restarts

ASSUME NetAssumption == /\ NetEnvironments # {}
                        /\ MaxKeys \in Nat
                        /\ MaxNetStarts \in Nat

VARIABLES netEnv,      \* the environment of the running process
          netAccount,  \* the account file: its id and its network binding
          netCred,     \* the credential file
          netServer,   \* what the Network has: identities and relay bindings
          netRelay,    \* the relay binding file
          netSync,     \* the synchronization in flight, with what it read
          netSigner,   \* one getAuthenticatedSigner call, with what it read
          netCount     \* keys generated, restarts, environment changes, and
                       \* whether a signer removed a record it had not read

netVars == <<netEnv, netAccount, netCred, netServer, netRelay, netSync, netSigner, netCount>>

NoCred == [key |-> 0, env |-> "none", id |-> 0, pending |-> "none"]
IsBound(cred) == cred.id # 0
NetIdle == [at |-> "idle", account |-> [id |-> 0], cred |-> NoCred]
SignerIdle == [at |-> "idle", cred |-> NoCred]

\* A new account waits for its registration; an account of an earlier release
\* has an id of its own and is adopted.
NetInit ==
  /\ netEnv \in NetEnvironments
  /\ netAccount \in [id : {0}, mode : {"register", "adopt"}, state : {"pending"},
                     env : {"none"}, key : {0}]
  /\ netCred = NoCred
  /\ netServer = [identities |-> {}, bindings |-> {}]
  /\ netRelay = [pending |-> FALSE, result |-> FALSE]
  /\ netSync = NetIdle
  /\ netSigner = SignerIdle
  /\ netCount = [keys |-> 0, starts |-> 0, stay |-> 0, clobbered |-> FALSE]

\* A bound credential belongs to an account that is active in this environment
\* only when key and id agree.
boundCredentialMatchesActiveBinding(account, cred) ==
  (account.state = "active" /\ account.env = netEnv) =>
    (account.key = cred.key /\ account.id = cred.id)

credentialScopeMatches(cred) == cred.env = netEnv

SyncAt(at) == netSync.at = at
SyncGoes(at) == netSync' = [netSync EXCEPT !.at = at]
\* A failed step ends the synchronization; the job of the runtime tries again.
SyncFails == netSync' = NetIdle

\* synchronize joins the call in flight, so there is at most one.  The account
\* is read before the Network is asked whether it is compatible.
SyncBegins ==
  /\ SyncAt("idle")
  /\ netSync' = [at |-> "compatible", account |-> netAccount, cred |-> NoCred]
  /\ UNCHANGED <<netEnv, netAccount, netCred, netServer, netRelay, netSigner, netCount>>

RequireCompatible ==
  /\ SyncAt("compatible")
  /\ SyncGoes("credentials") \/ SyncFails
  /\ UNCHANGED <<netEnv, netAccount, netCred, netServer, netRelay, netSigner, netCount>>

\* What the credential file read means for the account read earlier.
CredentialVerdict(cred, account) ==
  CASE cred.key = 0 -> IF account.state = "active" /\ account.env = netEnv
                       THEN "missing" ELSE "prepare"
    [] cred.key # 0 /\ IsBound(cred)
         /\ ~(credentialScopeMatches(cred) /\ boundCredentialMatchesActiveBinding(account, cred)) -> "discard"
    [] cred.key # 0 /\ ~IsBound(cred) /\ ~credentialScopeMatches(cred) -> "rescope"
    [] OTHER -> "ready"

LoadCredentials ==
  /\ SyncAt("credentials")
  /\ LET verdict == CredentialVerdict(netCred, netSync.account)
     IN netSync' = IF verdict = "missing" THEN NetIdle
                   ELSE [netSync EXCEPT !.at = verdict, !.cred = netCred]
  /\ UNCHANGED <<netEnv, netAccount, netCred, netServer, netRelay, netSigner, netCount>>

DiscardCredentials ==
  /\ SyncAt("discard")
  /\ netCred' = NoCred
  /\ netSync' = [netSync EXCEPT !.at = "prepare", !.cred = NoCred]
  /\ UNCHANGED <<netEnv, netAccount, netServer, netRelay, netSigner, netCount>>

RescopeCredentials ==
  /\ SyncAt("rescope")
  /\ netCred' = [netSync.cred EXCEPT !.env = netEnv]
  /\ netSync' = [netSync EXCEPT !.at = "ready", !.cred = netCred']
  /\ UNCHANGED <<netEnv, netAccount, netServer, netRelay, netSigner, netCount>>

\* An active binding of another environment becomes a pending registration.
prepareForRegistration ==
  /\ SyncAt("prepare")
  /\ netAccount' = IF netSync.account.state = "active"
                   THEN [netSync.account EXCEPT !.state = "pending", !.env = netEnv,
                                                !.mode = "register", !.key = 0]
                   ELSE netAccount
  /\ netSync' = [netSync EXCEPT !.at = "fresh",
                   !.account = IF @.state = "active" THEN netAccount' ELSE @]
  /\ UNCHANGED <<netEnv, netCred, netServer, netRelay, netSigner, netCount>>

newCredentialRecord ==
  /\ SyncAt("fresh")
  /\ netCount.keys < MaxKeys
  /\ netCount' = [netCount EXCEPT !.keys = @ + 1]
  /\ netCred' = [key |-> netCount.keys + 1, env |-> netEnv, id |-> 0, pending |-> "none"]
  /\ netSync' = [netSync EXCEPT !.at = "ready", !.cred = netCred']
  /\ UNCHANGED <<netEnv, netAccount, netServer, netRelay, netSigner>>

\* An unbound record keeps its keys; a write of another mode is dropped and the
\* new one is saved before it is sent.
PersistPending ==
  /\ SyncAt("ready") /\ ~IsBound(netSync.cred)
  /\ netSync' = [netSync EXCEPT !.at = "send", !.cred = [@ EXCEPT !.pending = netSync.account.mode]]
  /\ netCred' = IF netSync.cred.pending = netSync.account.mode THEN netCred ELSE netSync'.cred
  /\ UNCHANGED <<netEnv, netAccount, netServer, netRelay, netSigner, netCount>>

\* The Network answers a known key with the identity it already has, and binds
\* the delivery address of the account or leaves that to an adoption.
Registered == \E identity \in netServer.identities :
                identity.env = netEnv /\ identity.key = netSync.cred.key

NetworkIdentities ==
  IF Registered THEN netServer.identities
  ELSE netServer.identities \cup
         {[env |-> netEnv, key |-> netSync.cred.key, stay |-> netCount.stay]}

RegisterIdentity ==
  /\ SyncAt("send")
  /\ \/ /\ \E bindings \in {netServer.bindings, netServer.bindings \cup {netSync.cred.key}} :
             netServer' = [identities |-> NetworkIdentities, bindings |-> bindings]
        /\ SyncGoes("commit") \/ SyncFails
     \/ SyncFails /\ UNCHANGED netServer
  /\ UNCHANGED <<netEnv, netAccount, netCred, netRelay, netSigner, netCount>>

getIdentitySelf ==
  /\ SyncAt("ready") /\ IsBound(netSync.cred)
  /\ \/ Registered /\ SyncGoes("commit")
     \/ SyncFails
  /\ UNCHANGED <<netEnv, netAccount, netCred, netServer, netRelay, netSigner, netCount>>

\* commitSession saves the credential first: a start after a crash in between
\* finds it bound and asks for the session again.
CommitCredential ==
  /\ SyncAt("commit")
  /\ netCred' = [key |-> netSync.cred.key, env |-> netSync.cred.env,
                 id |-> netSync.cred.key, pending |-> "none"]
  /\ SyncGoes("account")
  /\ UNCHANGED <<netEnv, netAccount, netServer, netRelay, netSigner, netCount>>

CommitAccount ==
  /\ SyncAt("account")
  /\ netAccount' = [netSync.account EXCEPT !.id = netSync.cred.key, !.state = "active",
                                           !.env = netEnv, !.key = netSync.cred.key]
  /\ SyncGoes("relay")
  /\ UNCHANGED <<netEnv, netCred, netServer, netRelay, netSigner, netCount>>

\* Relay synchronization: the stored identity has to be the authenticated one;
\* a missing binding is adopted under a saved command, and the result is saved.
RelayRead ==
  /\ SyncAt("relay")
  /\ \/ /\ IsBound(netCred) /\ netCred.id = netAccount.id
        /\ SyncGoes(IF netCred.key \in netServer.bindings THEN "relay_save" ELSE "relay_pending")
     \/ SyncFails
  /\ UNCHANGED <<netEnv, netAccount, netCred, netServer, netRelay, netSigner, netCount>>

pendingCommand ==
  /\ SyncAt("relay_pending")
  /\ netRelay' = [netRelay EXCEPT !.pending = TRUE]
  /\ SyncGoes("relay_adopt")
  /\ UNCHANGED <<netEnv, netAccount, netCred, netServer, netSigner, netCount>>

adoptMissingBinding ==
  /\ SyncAt("relay_adopt")
  /\ \/ /\ netServer' = [netServer EXCEPT !.bindings = @ \cup {netSync.cred.key}]
        /\ SyncGoes("relay_save") \/ SyncFails
     \/ SyncFails /\ UNCHANGED netServer
  /\ UNCHANGED <<netEnv, netAccount, netCred, netRelay, netSigner, netCount>>

RelayPersist ==
  /\ SyncAt("relay_save")
  /\ netRelay' = [pending |-> FALSE, result |-> TRUE]
  /\ netSync' = NetIdle
  /\ UNCHANGED <<netEnv, netAccount, netCred, netServer, netSigner, netCount>>

\* requireBoundCredentials of the profile, presence and relationship services:
\* an unbound credential is refused; after the account has been read too, one
\* that does not belong to it is removed from the disk.
SignerReads ==
  /\ netSigner.at = "idle"
  /\ IsBound(netCred)
  /\ netSigner' = [at |-> "check", cred |-> netCred]
  /\ UNCHANGED <<netEnv, netAccount, netCred, netServer, netRelay, netSync, netCount>>

SignerChecks ==
  /\ netSigner.at = "check"
  /\ LET fits == /\ credentialScopeMatches(netSigner.cred)
                 /\ boundCredentialMatchesActiveBinding(netAccount, netSigner.cred)
     IN /\ netCred' = IF fits THEN netCred ELSE NoCred
        /\ netCount' = [netCount EXCEPT !.clobbered =
                          @ \/ (~fits /\ netCred # NoCred /\ netCred # netSigner.cred)]
  /\ netSigner' = SignerIdle
  /\ UNCHANGED <<netEnv, netAccount, netServer, netRelay, netSync>>

\* The process ends and starts again; a changed environment setting takes
\* effect then.
NetRestart ==
  /\ netCount.starts < MaxNetStarts
  /\ netEnv' \in NetEnvironments
  /\ netSync' = NetIdle
  /\ netSigner' = SignerIdle
  /\ netCount' = [netCount EXCEPT !.starts = @ + 1,
                                  !.stay = IF netEnv' = netEnv THEN @ ELSE @ + 1]
  /\ UNCHANGED <<netAccount, netCred, netServer, netRelay>>

NetNext ==
  \/ SyncBegins \/ RequireCompatible \/ LoadCredentials \/ DiscardCredentials
  \/ RescopeCredentials \/ prepareForRegistration \/ newCredentialRecord \/ PersistPending
  \/ RegisterIdentity \/ getIdentitySelf \/ CommitCredential \/ CommitAccount
  \/ RelayRead \/ pendingCommand \/ adoptMissingBinding \/ RelayPersist
  \/ SignerReads \/ SignerChecks \/ NetRestart

NetSpec == NetInit /\ [][NetNext]_netVars

-----------------------------------------------------------------------------
\* A registration that a lost answer or a crash interrupted is repeated with the
\* key it was sent with, so as long as the environment is not changed (which
\* discards the credential) the Network registers one identity for this account,
\* whatever the process lost in between.  A removal by a signer that had read an
\* older record is excluded.
RegistersOnePerStay ==
  ~netCount.clobbered =>
    \A one, other \in netServer.identities : one.stay = other.stay => one = other
=============================================================================
