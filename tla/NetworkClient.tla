---------------------------- MODULE NetworkClient ----------------------------
(* The HTTP client of Teti Network (services/network/client.ts), with one caller
   that persists a write before it sends it (profile-service.ts, relationship-
   service.ts, identity-service.ts), and the service as the client's code expects
   it (external).

   fetchResponse arms its timeout only until the headers are in; a request whose
   call has ended may still reach the service. An answer's document is abstracted
   to its revision and to the flaws that the parsers look for. *)
EXTENDS Integers, FiniteSets

CONSTANTS HttpOperations, \* the operations the caller uses
          MaxHttpKeys,    \* writes, each with its idempotency key
          MaxHttpCalls,   \* calls
          MaxHttpFaults   \* timeouts, flawed answers, clock changes, restarts

\* getBootstrap .. listRelays
PublicOperations ==
  {"bootstrap", "public_node", "public_directory", "public_stats", "relay_list"}
\* registerIdentity, adoptIdentity
IdentityWrites == {"identity_register", "identity_adopt"}
\* enrollClientInstance, revokeClientInstance
ClientWrites == {"client_enroll", "client_revoke"}
\* replaceProfileSelf
ProfileWrites == {"profile_replace"}
\* createRelayBinding, adoptRelayBinding, mutateRelayBinding
RelayWrites == {"relay_binding_create", "relay_binding_adopt", "relay_binding_activate",
                "relay_binding_revoke"}
\* requestRelationship, mutateRelationship
RelationshipWrites == {"relationship_request", "relationship_accept", "relationship_reject",
                       "relationship_block", "relationship_revoke"}
\* Reads that carry a document with an ETag.
DocumentReads == {"profile_self", "relay_binding_self", "relationship_get",
                  "relationship_get_by_peer"}
\* listRelationships .. getRelationshipChanges, getIdentitySelf and getPresence
PlainReads == {"identity_self", "presence_read", "relationship_list",
               "relationship_authorization", "relationship_reconciliation_snapshot",
               "relationship_reconciliation_changes"}

\* Writes whose If-Match is the ETag of the revision their body expects.
ConditionalWrites == ProfileWrites \cup RelayWrites \cup RelationshipWrites
\* Writes with an idempotency key; the others go through signedJsonWrite.
KeyedWrites == ConditionalWrites \cup IdentityWrites \cup ClientWrites
Signed(op) == op \notin PublicOperations
Tagged(op) == op \in DocumentReads \cup ConditionalWrites

ASSUME NetworkClientBounds ==
  /\ HttpOperations \subseteq PublicOperations \cup KeyedWrites \cup DocumentReads \cup PlainReads
  /\ MaxHttpKeys \in Nat \ {0} /\ MaxHttpCalls \in Nat /\ MaxHttpFaults \in Nat

VARIABLES
  httpCall,     \* the call in flight: its request and how far its answer is
  httpWire,     \* requests on their way to the service
  httpWrite,    \* the caller's persisted write, or NoWrite
  httpKnown,    \* the revision the caller knows
  httpReported, \* per key: what the caller was told, "none", "done" or "conflict"
  httpClock,    \* how far the local clock is off, and the client's offset
  httpService,  \* external: the document's revision, the answer of each key,
                \* the writes applied, whether the identity is made
  httpCalls,    \* calls so far
  httpFaults    \* faults so far

httpVars == <<httpCall, httpWire, httpWrite, httpKnown, httpReported, httpClock,
              httpService, httpCalls, httpFaults>>

HttpKeys == 1..MaxHttpKeys
NoWrite == [key |-> 0, op |-> "none", expected |-> 0]
NoAnswer == [status |-> 0, revision |-> 0, flaw |-> "none"]
NoRequestSent == [n |-> 0, op |-> "none", body |-> 0, key |-> 0, ifMatch |-> 0, skew |-> 0]
HttpIdle == [stage |-> "idle", request |-> NoRequestSent, answer |-> NoAnswer]

\* What may be wrong with an answer: its content type or JSON, the contract
\* headers, a field of the document, two parts of the document that contradict
\* each other (versions, counts, order, duplicates, members, decision, address),
\* its ETag, its cache-control.
AnswerFlaws == {"json", "contract", "field", "versions", "counts", "order", "duplicates",
                "members", "decision", "address", "etag", "cache"}

HttpInit ==
  /\ httpCall = HttpIdle
  /\ httpWire = {}
  /\ httpWrite = NoWrite
  /\ httpKnown = 0
  /\ httpReported = [k \in HttpKeys |-> "none"]
  /\ httpClock \in [drift : {0, 1}, offset : {0}]
  /\ httpService = [revision |-> 0, done |-> [k \in HttpKeys |-> 0], applied |-> {},
                    identity |-> FALSE]
  /\ httpCalls = 0
  /\ httpFaults = 0

HttpFault == httpFaults < MaxHttpFaults /\ httpFaults' = httpFaults + 1

-----------------------------------------------------------------------------
(* Requests *)

\* signedHeaders as it would be without the idempotency key.
SignedHeadersUnkeyed(op, write) ==
  [n |-> httpCalls + 1, op |-> op, body |-> write.key, key |-> 0, ifMatch |-> write.expected,
   skew |-> httpClock.drift + httpClock.offset]

\* signedHeaders: the clock of the signature is the local one plus the offset the
\* last bootstrap gave; the key of a write is the caller's.
SignedHeaders(op, write) ==
  [n |-> httpCalls + 1, op |-> op, body |-> write.key, key |-> write.key,
   ifMatch |-> write.expected, skew |-> httpClock.drift + httpClock.offset]

\* read and request: no signature, no key.
PublicHeaders(op) == [NoRequestSent EXCEPT !.n = httpCalls + 1, !.op = op]

\* fetchResponse: the request leaves and the timeout is armed.
FetchResponse(request) ==
  /\ httpCalls < MaxHttpCalls
  /\ httpCalls' = httpCalls + 1
  /\ httpCall' = [HttpIdle EXCEPT !.stage = "sent", !.request = request]
  /\ httpWire' = httpWire \cup {request}

\* getBootstrap and the other public reads.
CallPublic(op) ==
  /\ httpCall.stage = "idle" /\ op \in PublicOperations
  /\ FetchResponse(PublicHeaders(op))
  /\ UNCHANGED <<httpWrite, httpKnown, httpReported, httpClock, httpService, httpFaults>>

\* signedRead, signedProfileRead, signedRelayBindingRead, signedRelationshipRead.
CallRead(op) ==
  /\ httpCall.stage = "idle" /\ op \in DocumentReads \cup PlainReads
  /\ FetchResponse(SignedHeaders(op, NoWrite))
  /\ UNCHANGED <<httpWrite, httpKnown, httpReported, httpClock, httpService, httpFaults>>

\* A caller persists its write: its key, and the revision it expects.
PersistWrite(op) ==
  /\ httpCall.stage = "idle" /\ httpWrite = NoWrite /\ op \in KeyedWrites
  /\ \E k \in HttpKeys :
       /\ httpReported[k] = "none" /\ \A j \in HttpKeys : j < k => httpReported[j] # "none"
       /\ httpWrite' = [key |-> k, op |-> op,
                        expected |-> IF op \in ConditionalWrites THEN httpKnown ELSE 0]
  /\ UNCHANGED <<httpCall, httpWire, httpKnown, httpReported, httpClock, httpService,
                 httpCalls, httpFaults>>

\* replaceProfileSelf, signedRelayBindingWrite, signedRelationshipWrite and
\* signedJsonWrite of the persisted write, first or again. The If-Match and the
\* body are the persisted ones, so the checks before the signature pass.
CallWrite ==
  /\ httpCall.stage = "idle" /\ httpWrite # NoWrite
  /\ FetchResponse(SignedHeaders(httpWrite.op, httpWrite))
  /\ UNCHANGED <<httpWrite, httpKnown, httpReported, httpClock, httpService, httpFaults>>

-----------------------------------------------------------------------------
(* The service (external) *)

\* A signature outside the service's clock window is refused. A key the service
\* has seen is answered as the first time. A conditional write needs its
\* revision, an identity is made once.
ServiceDoes(r) ==
  LET done == r.key # 0 /\ httpService.done[r.key] # 0
      applies == /\ r.op \in KeyedWrites /\ ~done
                 /\ IF r.op \in ConditionalWrites THEN r.ifMatch = httpService.revision
                                                  ELSE ~httpService.identity
      revision == httpService.revision + 1
      keyed(s) == IF r.key = 0 THEN s ELSE [s EXCEPT !.done[r.key] = revision]
  IN IF Signed(r.op) /\ r.skew # 0
       THEN [service |-> httpService, status |-> 401, revision |-> 0]
     ELSE IF r.op \notin KeyedWrites
       THEN [service |-> httpService, status |-> 200, revision |-> httpService.revision]
     ELSE IF done
       THEN [service |-> httpService, status |-> 200, revision |-> httpService.done[r.key]]
     ELSE IF applies
       THEN [service |-> keyed([httpService EXCEPT !.revision = revision,
                                                   !.applied = @ \cup {r.body},
                                                   !.identity = @ \/ r.op \notin ConditionalWrites]),
             status |-> 200, revision |-> revision]
     ELSE [service |-> httpService, status |-> 409, revision |-> 0]

\* A request reaches the service. Its answer comes back when its call still
\* waits, perhaps with one flaw an intermediary put there.
ServiceAnswers(r) ==
  LET did == ServiceDoes(r) IN
  /\ r \in httpWire
  /\ httpWire' = httpWire \ {r}
  /\ httpService' = did.service
  /\ IF httpCall.stage = "sent" /\ httpCall.request = r
       THEN \E flaw \in AnswerFlaws \cup {"none"} :
              /\ IF flaw = "none" THEN UNCHANGED httpFaults ELSE HttpFault
              /\ httpCall' = [httpCall EXCEPT
                                !.stage = "reading",
                                !.answer = [status |-> did.status, flaw |-> flaw,
                                            revision |-> IF flaw = "etag" THEN did.revision + 1
                                                                          ELSE did.revision]]
       ELSE UNCHANGED <<httpCall, httpFaults>>
  /\ UNCHANGED <<httpWrite, httpKnown, httpReported, httpClock, httpCalls>>

\* The service is busy or limits the rate: nothing is done, the error is retryable.
ServiceBusy(r) ==
  /\ r \in httpWire /\ httpCall.stage = "sent" /\ httpCall.request = r
  /\ HttpFault
  /\ httpWire' = httpWire \ {r}
  /\ httpCall' = [httpCall EXCEPT !.stage = "reading", !.answer = [NoAnswer EXCEPT !.status = 503]]
  /\ UNCHANGED <<httpWrite, httpKnown, httpReported, httpClock, httpService, httpCalls>>

\* Another client instance of the same identity changes the document.
AnotherWrites ==
  /\ HttpFault
  /\ httpService' = [httpService EXCEPT !.revision = @ + 1]
  /\ UNCHANGED <<httpCall, httpWire, httpWrite, httpKnown, httpReported, httpClock, httpCalls>>

-----------------------------------------------------------------------------
(* Answers *)

\* readJson
ReadJson(answer) == answer.flaw # "json"
\* validateContractHeaders
ValidateContractHeaders(answer) == answer.flaw # "contract"

\* The checks of each parser on its document.
\* parsePresencePolicy, parseReleasePolicy
PolicyChecks == {"field"}
\* parseBootstrap
BootstrapChecks == {"versions"} \cup PolicyChecks
\* parseRelayBootstrap, parseRelayCatalog, parseRelayCatalogItem
RelayCatalogChecks == {"field", "duplicates", "decision", "address"}
\* parsePublicNode, parsePublicNodeSummary, parsePublicProfile, parseCapabilitySummary
PublicNodeChecks == {"field", "order", "duplicates"}
\* parsePublicDirectory, parsePublicStats
DirectoryChecks == {"field", "counts", "duplicates"}
\* parseClientInstance
ClientInstanceChecks == {"field"}
\* parseIdentitySession, parseClientInstanceMutation
IdentityChecks == {"field"} \cup ClientInstanceChecks
\* parsePresenceRead
PresenceChecks == {"field", "decision"}
\* parseRelationshipDocument: members, block projection, timestamps
RelationshipChecks == {"field", "members", "decision", "order"}
\* parseRelationshipAuthorization
AuthorizationChecks == {"field", "decision"}
\* parseRelationshipList, parseRelationshipSnapshot, parseRelationshipChanges
PageChecks == RelationshipChecks \cup {"counts"}
\* parseRelayBindingSet, parseRelayBindingProjection
RelayBindingChecks == {"field", "duplicates", "address"}
\* parseProfileDocument, parseProfileFields, parseCapabilitySummaryWrite
ProfileChecks == {"field", "order", "duplicates"}
\* parseProfileResult, parseRelayBindingResult, parseRelationshipResult: the ETag
\* names the revision of the body, and the answer is marked no-store.
ResultChecks == {"etag", "cache"}

\* The checks of the parser that each operation hands to read, signedRead or its
\* write.
ParserChecks(op) ==
  CASE op = "bootstrap" -> BootstrapChecks
    [] op = "relay_list" -> RelayCatalogChecks
    [] op = "public_node" -> PublicNodeChecks
    [] op \in {"public_directory", "public_stats"} -> DirectoryChecks
    [] op \in IdentityWrites \cup ClientWrites \cup {"identity_self"} -> IdentityChecks
    [] op = "presence_read" -> PresenceChecks
    [] op = "relationship_authorization" -> AuthorizationChecks
    [] op \in ProfileWrites \cup {"profile_self"} -> ProfileChecks \cup ResultChecks
    [] op \in RelayWrites \cup {"relay_binding_self"} -> RelayBindingChecks \cup ResultChecks
    [] op \in RelationshipWrites \cup {"relationship_get", "relationship_get_by_peer"} ->
         RelationshipChecks \cup ResultChecks
    [] OTHER -> PageChecks

\* errorFromResponse and mapServerError, as far as a caller acts on the code.
MapServerError(status) ==
  CASE status = 409 -> "conflict"
    [] status = 401 -> "unauthorized"
    [] OTHER -> "retry"

\* What the call comes to.
CallResult(op, answer) ==
  IF ~ReadJson(answer) \/ ~ValidateContractHeaders(answer) THEN "invalid"
  ELSE IF answer.status # 200
    THEN IF answer.flaw = "field" THEN "invalid" ELSE MapServerError(answer.status)
  ELSE IF answer.flaw \in ParserChecks(op) THEN "invalid" ELSE "accepted"

\* The caller keeps its write until it is accepted or refused for good: a
\* timeout, an invalid answer or a refused signature leaves it for a retry.
CallEnds ==
  LET op == httpCall.request.op
      answer == httpCall.answer
      result == CallResult(op, answer)
  IN /\ httpCall.stage = "reading"
     /\ httpCall' = HttpIdle
     /\ httpClock' = IF op = "bootstrap" /\ result = "accepted"
                       THEN [httpClock EXCEPT !.offset = -httpClock.drift] ELSE httpClock
     /\ httpKnown' = IF result = "accepted" /\ Tagged(op) THEN answer.revision ELSE httpKnown
     /\ IF op \in KeyedWrites /\ result \in {"accepted", "conflict"}
          THEN /\ httpWrite' = NoWrite
               /\ httpReported' = [httpReported EXCEPT
                                     ![httpWrite.key] = IF result = "accepted"
                                                          THEN "done" ELSE "conflict"]
          ELSE UNCHANGED <<httpWrite, httpReported>>
     /\ UNCHANGED <<httpWire, httpService, httpCalls, httpFaults>>

\* NETWORK_TIMEOUT or NETWORK_UNAVAILABLE before the headers are in, or a
\* connection that breaks while the body is read. The request is not recalled.
CallFails ==
  /\ httpCall.stage \in {"sent", "reading"}
  /\ HttpFault
  /\ httpCall' = HttpIdle
  /\ UNCHANGED <<httpWire, httpWrite, httpKnown, httpReported, httpClock, httpService,
                 httpCalls>>

\* The process starts again: a new client has no offset.
ClientRestarts ==
  /\ HttpFault
  /\ httpCall' = HttpIdle
  /\ httpClock' = [httpClock EXCEPT !.offset = 0]
  /\ UNCHANGED <<httpWire, httpWrite, httpKnown, httpReported, httpService, httpCalls>>

\* The user sets the local clock.
ClockIsSet ==
  /\ HttpFault
  /\ httpClock' = [httpClock EXCEPT !.drift = 1 - @]
  /\ UNCHANGED <<httpCall, httpWire, httpWrite, httpKnown, httpReported, httpService,
                 httpCalls>>

HttpNext ==
  \/ \E op \in HttpOperations : CallPublic(op) \/ CallRead(op) \/ PersistWrite(op)
  \/ CallWrite \/ CallEnds \/ CallFails \/ ClientRestarts \/ ClockIsSet \/ AnotherWrites
  \/ \E r \in httpWire : ServiceAnswers(r) \/ ServiceBusy(r)

-----------------------------------------------------------------------------
(* What the caller of a write is told is what happened, whatever was lost, late
   or flawed: a write it was told of as a conflict was not applied and no late
   copy of it will be, a write it was told of as done was applied, and it never
   knows a revision the service has not reached (client.ts:572-948, 2200-2261). *)
WriteIsReportedTruly ==
  /\ \A k \in HttpKeys :
       /\ httpReported[k] = "conflict" => k \notin httpService.applied
       /\ httpReported[k] = "done" => k \in httpService.applied
  /\ httpKnown <= httpService.revision
=============================================================================
