------------------------ MODULE RelationshipSyncProofs ------------------------
(***************************************************************************)
(* Theorems about RelationshipSync, for any bounds, pages, calls and        *)
(* events: its types; that no change is skipped, and that none is undone    *)
(* but by a profile refresh; and that a command acts only while its member  *)
(* has it pending, so that one that has failed did nothing.                 *)
(***************************************************************************)
EXTENDS RelationshipSync, TLAPS

\* What a call has in hand where it is: a posted command is the stored one,
\* and a document that is not the next of a page exists at the authority.
InHand ==
  \A n \in Nodes :
    /\ At(n, "posted") => pending[n] \in Commands
    /\ At(n, "read") => call[n].intent \in Operations
    /\ At(n, "page") => call[n].doc =< call[n].to + 1
    /\ ~At(n, "page") => call[n].doc =< Revision

TypeInv == TypeOK /\ InHand

\* The authority's revision is a natural number.
LEMMA RevisionIsNat == ASSUME TypeOK PROVE Revision \in Nat
  BY DEF TypeOK, Revision

\* A revision that exists also lies below the next one.
LEMMA Within == \A r \in Nat : \A d \in 0..r : d \in 0..(r + 1) /\ d =< r
  OBVIOUS

\* A transition gives a state of the relationship, or "refused".
LEMMA BecomesState ==
  ASSUME NEW c \in Commands
  PROVE  Becomes(c) \in {"refused", "requested", "confirmed", "rejected", "blocked", "revoked"}
  BY DEF Becomes, Commands, Operations

\* An existing revision has a document.
LEMMA StateExists ==
  ASSUME TypeOK
  PROVE  /\ State = "none" <=> Revision = 0
         /\ Revision > 0 => log[Revision] \in Documents
  <1>1. Revision \in Nat /\ Revision = Len(log)
    BY DEF TypeOK, Revision
  <1>2. Revision > 0 => log[Revision] \in Documents
    BY <1>1 DEF TypeOK
  <1> QED BY <1>1, <1>2 DEF State, StateAt, Documents

\* The document a command leaves is well formed.
LEMMA DocumentOK ==
  ASSUME TypeOK, NEW c \in Commands, Becomes(c) # "refused"
  PROVE  Document(c) \in Documents
  <1>1. Becomes(c) \in {"requested", "confirmed", "rejected", "blocked", "revoked"}
    BY BecomesState
  <1>2. State = "none" => c.op = "request"
    BY DEF Becomes, Barred
  <1>3. (IF c.op = "request" /\ State # "requested" THEN c.by ELSE log[Revision].requester)
          \in Nodes
    <2>1. CASE c.op = "request" /\ State # "requested"
      BY <2>1 DEF Commands
    <2>2. CASE ~(c.op = "request" /\ State # "requested")
      <3>1. State # "none"
        BY <1>2, <2>2
      <3>2. log[Revision] \in Documents
        BY <3>1, StateExists, RevisionIsNat
      <3> QED BY <2>2, <3>2 DEF Documents
    <2> QED BY <2>1, <2>2
  <1>4. (IF c.op = "block" THEN c.by ELSE "none") \in Nodes \cup {"none"}
    BY DEF Commands
  <1> QED BY <1>1, <1>3, <1>4 DEF Document, Documents

\* What an execution leaves at the authority.
LEMMA ExecutesOK ==
  ASSUME TypeOK, NEW c \in Commands, NEW result, NEW doc, Executes(c, result, doc)
  PROVE  /\ log' \in Seq(Documents)
         /\ Revision' \in Nat
         /\ Revision =< Revision'
         /\ receipts' \subseteq [cmd : Commands, doc : 1..Revision']
         /\ doc \in 0..Revision'
  <1>1. Revision \in Nat /\ Revision = Len(log) /\ log \in Seq(Documents)
        /\ receipts \subseteq [cmd : Commands, doc : 1..Revision]
    BY DEF TypeOK, Revision
  <1>2. CASE UNCHANGED <<log, receipts>>
    <2>1. Revision' = Revision
      BY <1>2 DEF Revision
    <2>2. doc \in 0..Revision
      <3>1. CASE \E r \in receipts : r.cmd = c /\ r.doc = doc
        BY <3>1, <1>1
      <3>2. CASE doc = 0
        BY <3>2, <1>1
      <3>3. CASE doc = Revision
        BY <3>3, <1>1
      <3>4. CASE log' = Append(log, Document(c))
        <4>1. Len(Append(log, Document(c))) = Len(log) + 1
          BY <1>1
        <4> QED BY <3>4, <4>1, <1>1, <1>2
      <3> QED BY <3>1, <3>2, <3>3, <3>4 DEF Executes
    <2> QED BY <1>1, <1>2, <2>1, <2>2
  <1>3. CASE /\ Becomes(c) = State
             /\ doc = Revision
             /\ receipts' = receipts \cup {[cmd |-> c, doc |-> Revision]}
             /\ UNCHANGED log
    <2>1. Revision' = Revision
      BY <1>3 DEF Revision
    <2>2. Revision # 0
      BY <1>3, StateExists, BecomesState
    <2>3. [cmd |-> c, doc |-> Revision] \in [cmd : Commands, doc : 1..Revision]
      BY <2>2, <1>1
    <2> QED BY <1>1, <1>3, <2>1, <2>3
  <1>4. CASE /\ Becomes(c) \notin {"refused", State}
             /\ doc = Revision + 1
             /\ log' = Append(log, Document(c))
             /\ receipts' = receipts \cup {[cmd |-> c, doc |-> Revision + 1]}
    <2>1. Document(c) \in Documents
      BY <1>4, DocumentOK
    <2>2. log' \in Seq(Documents) /\ Len(log') = Len(log) + 1
      BY <2>1, <1>1, <1>4
    <2>3. Revision' = Revision + 1
      BY <2>2 DEF Revision
    <2>4. receipts' \subseteq [cmd : Commands, doc : 1..(Revision + 1)]
      BY <1>1, <1>4
    <2> QED BY <1>1, <1>4, <2>2, <2>3, <2>4
  <1> QED BY <1>2, <1>3, <1>4 DEF Executes

\* Stored revisions stay within a revision that only grows.
LEMMA StoresKept ==
  ASSUME TypeOK, Revision' \in Nat, Revision =< Revision',
         UNCHANGED <<checkpoint, projection, held, refreshing>>
  PROVE  /\ checkpoint' \in [Nodes -> -1..Revision']
         /\ projection' \in [Nodes -> 0..Revision']
         /\ held' \in [Nodes -> 0..Revision']
         /\ refreshing' \in [Nodes -> -1..Revision']
  <1>1. -1..Revision \subseteq -1..Revision' /\ 0..Revision \subseteq 0..Revision'
    BY RevisionIsNat
  <1>2. /\ checkpoint \in [Nodes -> -1..Revision]
        /\ projection \in [Nodes -> 0..Revision]
        /\ held \in [Nodes -> 0..Revision]
        /\ refreshing \in [Nodes -> -1..Revision]
    BY DEF TypeOK
  <1>3. /\ checkpoint \in [Nodes -> -1..Revision']
        /\ projection \in [Nodes -> 0..Revision']
        /\ held \in [Nodes -> 0..Revision']
        /\ refreshing \in [Nodes -> -1..Revision']
    BY <1>1, <1>2
  <1> QED BY <1>3

\* So do the revisions in hand.
LEMMA CallsGrow ==
  ASSUME TypeOK, Revision' \in Nat, Revision =< Revision', NEW v \in Calls
  PROVE  v \in Calls'
  <1>1. 0..(Revision + 1) \subseteq 0..(Revision' + 1) /\ 0..Revision \subseteq 0..Revision'
    BY RevisionIsNat
  <1> QED BY <1>1 DEF Calls

-----------------------------------------------------------------------------
(***************************************************************************)
(* Types.                                                                  *)
(***************************************************************************)

\* A step that moves only the call of n keeps the calls well formed.
LEMMA CallMoves ==
  ASSUME TypeInv, Revision' \in Nat, Revision =< Revision',
         NEW n \in Nodes, NEW v \in Calls',
         call' = [call EXCEPT ![n] = v],
         \A m \in Nodes \ {n} : pending'[m] = pending[m],
         v.at = "posted" => pending'[n] \in Commands,
         v.at = "read" => v.intent \in Operations,
         v.at = "page" => v.doc =< v.to + 1,
         v.at # "page" => v.doc =< Revision'
  PROVE  call' \in [Nodes -> Calls'] /\ InHand'
  <1>1. Revision \in Nat /\ call \in [Nodes -> Calls]
    BY RevisionIsNat DEF TypeInv, TypeOK
  <1>2. \A m \in Nodes : call[m] \in Calls'
    BY <1>1, CallsGrow DEF TypeInv
  <1>3. call' \in [Nodes -> Calls']
    BY <1>1, <1>2
  <1>4. call'[n] = v /\ \A m \in Nodes \ {n} : call'[m] = call[m]
    BY <1>1
  <1>5. ASSUME NEW m \in Nodes
        PROVE  /\ call'[m].at = "posted" => pending'[m] \in Commands
               /\ call'[m].at = "read" => call'[m].intent \in Operations
               /\ call'[m].at = "page" => call'[m].doc =< call'[m].to + 1
               /\ call'[m].at # "page" => call'[m].doc =< Revision'
    <2>1. CASE m = n
      BY <2>1, <1>4
    <2>2. CASE m # n
      <3>1. call'[m] = call[m] /\ pending'[m] = pending[m] /\ call[m].doc \in Int
        BY <2>2, <1>4, <1>1 DEF Calls
      <3> QED BY <3>1, <1>1 DEF TypeInv, InHand, At
    <2> QED BY <2>1, <2>2
  <1> QED BY <1>3, <1>5 DEF InHand, At

\* Idle, and the calls that begin and end, are calls.
LEMMA IdleIsCall == ASSUME TypeOK PROVE Idle \in Calls /\ Idle.at = "idle" /\ Idle.doc = 0
  BY RevisionIsNat DEF Idle, Calls

\* A call that begins has no document in hand, and posts only a stored command.
LEMMA BegunIsCall ==
  ASSUME TypeOK, NEW n \in Nodes, NEW intent \in Operations \cup {"list", "poll"}
  PROVE  /\ Begun(n, intent) \in Calls
         /\ Begun(n, intent).at \in {"read", "scan", "posted"}
         /\ Begun(n, intent).at = "posted" => pending[n] \in Commands
         /\ Begun(n, intent).at = "read" => Begun(n, intent).intent \in Operations
         /\ Begun(n, intent).doc = 0
  <1>1. Revision \in Nat /\ pending[n] \in Commands \cup {NoCommand}
    BY RevisionIsNat DEF TypeOK
  <1>2. CASE pending[n] = NoCommand
    <2>1. Begun(n, intent) = [at |-> AfterRecovery(intent), intent |-> intent, ran |-> "none",
            recovered |-> FALSE, result |-> "none", doc |-> 0, to |-> 0, more |-> FALSE]
      BY <1>2 DEF Begun, Idle
    <2> QED BY <1>1, <2>1 DEF AfterRecovery, Calls
  <1>3. CASE pending[n] # NoCommand
    <2>1. Begun(n, intent) = [at |-> "posted", intent |-> intent, ran |-> pending[n].op,
            recovered |-> TRUE, result |-> "none", doc |-> 0, to |-> 0, more |-> FALSE]
      BY <1>3 DEF Begun, Idle
    <2>2. pending[n] \in Commands /\ pending[n].op \in Operations
      BY <1>1, <1>3 DEF Commands
    <2> QED BY <1>1, <2>1, <2>2 DEF Calls
  <1> QED BY <1>2, <1>3

\* A reconciliation that ends has no document in hand.
LEMMA EndedIsCall ==
  ASSUME TypeOK, NEW n \in Nodes
  PROVE  Ended(n) \in Calls /\ Ended(n).at \in {"idle", "receive"} /\ Ended(n).doc = 0
  <1>1. CASE call[n].intent = "poll"
    <2>1. Ended(n) = [at |-> "receive", intent |-> "none", ran |-> "none", recovered |-> FALSE,
                      result |-> "none", doc |-> 0, to |-> 0, more |-> FALSE]
      BY <1>1 DEF Ended, Idle
    <2> QED BY <2>1, RevisionIsNat DEF Calls
  <1>2. CASE call[n].intent # "poll"
    BY <1>2, IdleIsCall DEF Ended
  <1> QED BY <1>1, <1>2

\* A step that leaves the authority and the stores alone and moves the call of n.
LEMMA QuietMove ==
  ASSUME TypeInv, NEW n \in Nodes, NEW v \in Calls,
         call' = [call EXCEPT ![n] = v],
         UNCHANGED <<log, receipts, pending, checkpoint, projection, held, refreshing>>,
         late' \subseteq Commands,
         mail' \in [Nodes -> {"none", "sent", "processed", "dropped"}],
         given' \in 0..MaxCommands,
         failures' \in 0..MaxFailures,
         v.at = "posted" => pending[n] \in Commands,
         v.at = "read" => v.intent \in Operations,
         v.at = "page" => v.doc =< v.to + 1,
         v.at # "page" => v.doc =< Revision
  PROVE  TypeInv'
  <1>1. Revision \in Nat /\ Revision' = Revision
    BY RevisionIsNat DEF TypeInv, Revision
  <1>2. Revision' \in Nat /\ Revision =< Revision' /\ v \in Calls'
    BY <1>1 DEF Calls
  <1>3. /\ \A m \in Nodes \ {n} : pending'[m] = pending[m]
        /\ v.at = "posted" => pending'[n] \in Commands
    OBVIOUS
  <1>4. v.at # "page" => v.doc =< Revision'
    BY <1>1
  <1>5. call' \in [Nodes -> Calls'] /\ InHand'
    BY <1>2, <1>3, <1>4, CallMoves
  <1> QED BY <1>1, <1>5 DEF TypeInv, TypeOK

\* The user giving a command keeps the types.
LEMMA StartCommandOK ==
  ASSUME TypeInv, NEW n \in Nodes, NEW op \in Operations, StartCommand(n, op)
  PROVE  TypeInv'
  <1>1. TypeOK /\ given' \in 0..MaxCommands
    BY BoundsAssumption DEF TypeInv, TypeOK, StartCommand
  <1> DEFINE v == Begun(n, op)
  <1>2. /\ v \in Calls /\ v.at \in {"read", "scan", "posted"} /\ v.doc = 0
        /\ v.at = "posted" => pending[n] \in Commands
        /\ v.at = "read" => v.intent \in Operations
    BY <1>1, BegunIsCall
  <1>3. call' = [call EXCEPT ![n] = v]
    BY DEF StartCommand
  <1>4. UNCHANGED <<log, receipts, late, pending, checkpoint, projection, held, refreshing, mail, failures>>
    BY DEF StartCommand, authority, stores
  <1>5. /\ late' \subseteq Commands /\ mail' \in [Nodes -> {"none", "sent", "processed", "dropped"}]
        /\ given' \in 0..MaxCommands /\ failures' \in 0..MaxFailures
    BY <1>1, <1>4 DEF TypeOK
  <1>6. /\ v.at = "page" => v.doc =< v.to + 1
        /\ v.at # "page" => v.doc =< Revision
    BY <1>1, <1>2, RevisionIsNat
  <1> HIDE DEF v
  <1> QED BY <1>2, <1>3, <1>4, <1>5, <1>6, QuietMove

\* Starting a reconciliation or a poll keeps the types.
LEMMA StartSyncOK ==
  ASSUME TypeInv, NEW n \in Nodes, NEW intent \in {"list", "poll"}, StartSync(n, intent)
  PROVE  TypeInv'
  <1>1. TypeOK
    BY DEF TypeInv
  <1> DEFINE v == Begun(n, intent)
  <1>2. /\ v \in Calls /\ v.at \in {"read", "scan", "posted"} /\ v.doc = 0
        /\ v.at = "posted" => pending[n] \in Commands
        /\ v.at = "read" => v.intent \in Operations
    BY <1>1, BegunIsCall
  <1>3. call' = [call EXCEPT ![n] = v]
    BY DEF StartSync
  <1>4. UNCHANGED <<log, receipts, late, pending, checkpoint, projection, held, refreshing, mail, failures, given>>
    BY DEF StartSync, authority, stores
  <1>5. /\ late' \subseteq Commands /\ mail' \in [Nodes -> {"none", "sent", "processed", "dropped"}]
        /\ given' \in 0..MaxCommands /\ failures' \in 0..MaxFailures
    BY <1>1, <1>4 DEF TypeOK
  <1>6. /\ v.at = "page" => v.doc =< v.to + 1
        /\ v.at # "page" => v.doc =< Revision
    BY <1>1, <1>2, RevisionIsNat
  <1> HIDE DEF v
  <1> QED BY <1>2, <1>3, <1>4, <1>5, <1>6, QuietMove

\* Storing a new command keeps the types.
LEMMA ExecuteNewOK ==
  ASSUME TypeInv, NEW n \in Nodes, ExecuteNew(n)
  PROVE  TypeInv'
  <1> DEFINE c == [by |-> n, op |-> call[n].intent,
                   expected |-> Expected(n, call[n].intent), key |-> given]
             v == [call[n] EXCEPT !.at = "posted", !.ran = call[n].intent]
  <1>1. TypeOK /\ Revision \in Nat /\ call[n] \in Calls /\ call[n].intent \in Operations
        /\ call[n].doc =< Revision
    BY RevisionIsNat DEF TypeInv, TypeOK, InHand, ExecuteNew, At
  <1>2. Expected(n, call[n].intent) \in Nat
    BY <1>1, StateExists DEF Expected
  <1>3. given \in Nat
    BY <1>1, BoundsAssumption DEF TypeOK
  <1>4. c \in Commands
    BY <1>1, <1>2, <1>3 DEF Commands
  <1>5. v \in Calls /\ v.at = "posted" /\ v.doc = call[n].doc
    BY <1>1 DEF Calls
  <1>6. pending' = [pending EXCEPT ![n] = c] /\ call' = [call EXCEPT ![n] = v]
    BY <1>1 DEF ExecuteNew, TypeOK
  <1> HIDE DEF c, v
  <1>7. pending' \in [Nodes -> Commands \cup {NoCommand}] /\ pending'[n] \in Commands
        /\ \A m \in Nodes \ {n} : pending'[m] = pending[m]
    BY <1>1, <1>4, <1>6 DEF TypeOK
  <1>8. UNCHANGED <<log, receipts, late, checkpoint, projection, held, refreshing, mail, given, failures>>
    BY DEF ExecuteNew, authority, records
  <1>9. Revision' = Revision
    BY <1>8 DEF Revision
  <1>10. v \in Calls' /\ Revision' \in Nat /\ Revision =< Revision' /\ v.doc =< Revision'
    BY <1>1, <1>5, <1>9 DEF Calls
  <1>11. call' \in [Nodes -> Calls'] /\ InHand'
    BY <1>5, <1>6, <1>7, <1>10, CallMoves
  <1> QED BY <1>1, <1>7, <1>8, <1>9, <1>11 DEF TypeInv, TypeOK

\* The authority's answer names a revision it has.
LEMMA DeliverOK ==
  ASSUME TypeInv, NEW n \in Nodes, Deliver(n)
  PROVE  TypeInv'
  <1>1. TypeOK /\ Revision \in Nat /\ call[n] \in Calls /\ pending[n] \in Commands
    BY RevisionIsNat DEF TypeInv, TypeOK, InHand, Deliver, At
  <1>2. PICK result \in {"ok", "conflict", "refused"}, doc \in 0..(Revision + 1) :
          /\ Executes(pending[n], result, doc)
          /\ call' = [call EXCEPT ![n].at = "answered", ![n].result = result, ![n].doc = doc]
    BY DEF Deliver
  <1>3. /\ log' \in Seq(Documents) /\ Revision' \in Nat /\ Revision =< Revision'
        /\ receipts' \subseteq [cmd : Commands, doc : 1..Revision']
        /\ doc \in 0..Revision'
    BY <1>1, <1>2, ExecutesOK
  <1> DEFINE v == [call[n] EXCEPT !.at = "answered", !.result = result, !.doc = doc]
  <1>4. call' = [call EXCEPT ![n] = v]
    BY <1>1, <1>2 DEF TypeOK
  <1>5. call[n] \in Calls'
    BY <1>1, <1>3, CallsGrow
  <1>6. v \in Calls' /\ v.at = "answered" /\ v.doc =< Revision'
    <2>1. doc \in 0..(Revision' + 1) /\ doc =< Revision'
      BY <1>3, Within, Zenon
    <2>2. v.at = "answered" /\ v.doc = doc
      BY <1>5 DEF Calls
    <2>3. v \in Calls'
      BY <1>5, <2>1 DEF Calls
    <2> QED BY <2>1, <2>2, <2>3
  <1> HIDE DEF v
  <1>7. UNCHANGED <<late, pending, checkpoint, projection, held, refreshing, mail, given, failures>>
    BY DEF Deliver, stores
  <1>8. call' \in [Nodes -> Calls'] /\ InHand'
    <2>1. \A m \in Nodes \ {n} : pending'[m] = pending[m]
      BY <1>7
    <2>2. /\ v.at = "posted" => pending'[n] \in Commands
          /\ v.at = "read" => v.intent \in Operations
          /\ v.at = "page" => v.doc =< v.to + 1
      BY <1>6
    <2> QED BY <1>3, <1>4, <1>6, <2>1, <2>2, CallMoves
  <1>9. /\ checkpoint' \in [Nodes -> -1..Revision'] /\ projection' \in [Nodes -> 0..Revision']
        /\ held' \in [Nodes -> 0..Revision']
        /\ refreshing' \in [Nodes -> -1..Revision']
    <2>1. UNCHANGED <<checkpoint, projection, held, refreshing>>
      BY <1>7
    <2> QED BY <1>1, <1>3, <2>1, StoresKept
  <1> QED BY <1>1, <1>3, <1>7, <1>8, <1>9 DEF TypeInv, TypeOK

\* So does its answer to a late command.
LEMMA DeliverLateOK ==
  ASSUME TypeInv, NEW c \in late, DeliverLate(c)
  PROVE  TypeInv'
  <1>1. TypeOK /\ Revision \in Nat /\ c \in Commands
    BY RevisionIsNat DEF TypeInv, TypeOK
  <1>2. PICK result \in {"ok", "conflict", "refused"}, doc \in 0..(Revision + 1) :
          Executes(c, result, doc)
    BY DEF DeliverLate
  <1>3. /\ log' \in Seq(Documents) /\ Revision' \in Nat /\ Revision =< Revision'
        /\ receipts' \subseteq [cmd : Commands, doc : 1..Revision']
    BY <1>1, <1>2, ExecutesOK
  <1>4. UNCHANGED <<pending, checkpoint, projection, held, call, refreshing, mail, given, failures>>
        /\ late' = late \ {c}
    BY DEF DeliverLate, stores
  <1>5. call' \in [Nodes -> Calls']
    <2>1. \A n \in Nodes : call[n] \in Calls'
      BY <1>1, <1>3, CallsGrow DEF TypeOK
    <2> QED BY <2>1, <1>1, <1>4 DEF TypeOK
  <1>6. InHand'
    <2>1. \A n \in Nodes : call[n].doc \in Int
      BY <1>1 DEF TypeOK, Calls
    <2> QED BY <2>1, <1>1, <1>3, <1>4 DEF TypeInv, InHand, At
  <1>7. /\ checkpoint' \in [Nodes -> -1..Revision'] /\ projection' \in [Nodes -> 0..Revision']
        /\ held' \in [Nodes -> 0..Revision']
        /\ refreshing' \in [Nodes -> -1..Revision']
    BY <1>1, <1>3, <1>4, StoresKept
  <1> QED BY <1>1, <1>3, <1>4, <1>5, <1>6, <1>7 DEF TypeInv, TypeOK

\* A step that moves the call of n and may write its command, checkpoint or record.
LEMMA Writes ==
  ASSUME TypeInv, NEW n \in Nodes, NEW v \in Calls,
         call' = [call EXCEPT ![n] = v],
         UNCHANGED <<log, receipts, late, mail, given, failures>>,
         pending' \in [Nodes -> Commands \cup {NoCommand}],
         \A m \in Nodes \ {n} : pending'[m] = pending[m],
         checkpoint' \in [Nodes -> -1..Revision],
         projection' \in [Nodes -> 0..Revision],
         held' \in [Nodes -> 0..Revision],
         refreshing' \in [Nodes -> -1..Revision],
         v.at \notin {"posted", "read"},
         v.at = "page" => v.doc =< v.to + 1,
         v.at # "page" => v.doc =< Revision
  PROVE  TypeInv'
  <1>1. Revision \in Nat /\ Revision' = Revision
    BY RevisionIsNat DEF TypeInv, Revision
  <1>2. Revision' \in Nat /\ Revision =< Revision' /\ v \in Calls'
    BY <1>1 DEF Calls
  <1>3. /\ v.at # "page" => v.doc =< Revision'
        /\ v.at = "posted" => pending'[n] \in Commands
        /\ v.at = "read" => v.intent \in Operations
    BY <1>1
  <1>4. call' \in [Nodes -> Calls'] /\ InHand'
    BY <1>2, <1>3, CallMoves
  <1>5. /\ checkpoint' \in [Nodes -> -1..Revision'] /\ projection' \in [Nodes -> 0..Revision']
        /\ held' \in [Nodes -> 0..Revision']
        /\ refreshing' \in [Nodes -> -1..Revision']
    BY <1>1
  <1> QED BY <1>1, <1>4, <1>5 DEF TypeInv, TypeOK

\* Clearing the answered command keeps the types.
LEMMA SettleOK ==
  ASSUME TypeInv, NEW n \in Nodes, Settle(n)
  PROVE  TypeInv'
  <1>1. TypeOK /\ Revision \in Nat /\ call[n] \in Calls /\ call[n].doc =< Revision
    BY RevisionIsNat DEF TypeInv, TypeOK, InHand, Settle, At
  <1>2. /\ pending' \in [Nodes -> Commands \cup {NoCommand}]
        /\ \A m \in Nodes \ {n} : pending'[m] = pending[m]
    BY <1>1 DEF Settle, TypeOK
  <1>3. UNCHANGED <<log, receipts, late, mail, given, failures, checkpoint, projection, held, refreshing>>
    BY DEF Settle, authority, records
  <1>4. /\ checkpoint' \in [Nodes -> -1..Revision] /\ projection' \in [Nodes -> 0..Revision]
        /\ held' \in [Nodes -> 0..Revision]
        /\ refreshing' \in [Nodes -> -1..Revision]
    BY <1>1, <1>3 DEF TypeOK
  <1>5. PICK v \in Calls : /\ call' = [call EXCEPT ![n] = v]
                           /\ v.at \in {"latest", "idle", "receive"}
                           /\ v.doc =< Revision
    <2>1. CASE Goto(n, "latest")
      <3> DEFINE w == [call[n] EXCEPT !.at = "latest"]
      <3>1. w \in Calls /\ w.at = "latest" /\ w.doc = call[n].doc
        BY <1>1 DEF Calls
      <3>2. call' = [call EXCEPT ![n] = w]
        BY <2>1, <1>1 DEF Goto, TypeOK
      <3>3. w.doc =< Revision
        BY <3>1, <1>1
      <3> HIDE DEF w
      <3> QED BY <3>1, <3>2, <3>3
    <2>2. CASE End(n)
      <3> DEFINE w == Ended(n)
      <3>1. w \in Calls /\ w.at \in {"idle", "receive"} /\ w.doc =< Revision
        BY <1>1, EndedIsCall
      <3>2. call' = [call EXCEPT ![n] = w]
        BY <2>2 DEF End
      <3> HIDE DEF w
      <3> QED BY <3>1, <3>2
    <2> QED BY <2>1, <2>2 DEF Settle
  <1>6. /\ v.at \notin {"posted", "read"}
        /\ v.at = "page" => v.doc =< v.to + 1
        /\ v.at # "page" => v.doc =< Revision
    BY <1>5
  <1> QED BY <1>2, <1>3, <1>4, <1>5, <1>6, Writes

\* Applying the document in hand keeps the records within the authority's revision.
LEMMA ApplyDocumentOK ==
  ASSUME TypeOK, NEW n \in Nodes, NEW rest, ApplyDocument(n, rest),
         call[n].doc \in 0..Revision
  PROVE  projection' \in [Nodes -> 0..Revision] /\ held' \in [Nodes -> 0..Revision]
  <1>1. /\ projection \in [Nodes -> 0..Revision] /\ Revision \in Nat
        /\ held \in [Nodes -> 0..Revision]
    BY RevisionIsNat DEF TypeOK
  <1>2. Projected(n, call[n].doc) \in 0..Revision
    BY <1>1 DEF Projected
  <1>3. projection' \in [Nodes -> 0..Revision]
    BY <1>1, <1>2 DEF ApplyDocument, records
  <1>4. projection'[n] \in 0..Revision /\ held[n] \in 0..Revision
    BY <1>1, <1>3
  <1>5. (IF projection'[n] > held[n] THEN projection'[n] ELSE held[n]) \in 0..Revision
    BY <1>4
  <1> QED BY <1>1, <1>3, <1>5 DEF ApplyDocument, records

\* Applying the document in hand, or failing to archive it, keeps the types.
LEMMA ApplyOK ==
  ASSUME TypeInv, NEW n \in Nodes, NEW rest \in Calls, ApplyDocument(n, rest),
         call[n].doc \in 0..Revision,
         UNCHANGED <<authority, pending, checkpoint, refreshing, mail, given, failures>>,
         rest.at \notin {"posted", "read"},
         rest.at = "page" => rest.doc =< rest.to + 1,
         rest.at # "page" => rest.doc =< Revision
  PROVE  TypeInv'
  <1>1. TypeOK /\ Revision \in Nat
    BY RevisionIsNat DEF TypeInv
  <1>2. projection' \in [Nodes -> 0..Revision] /\ held' \in [Nodes -> 0..Revision]
    BY <1>1, ApplyDocumentOK
  <1>3. UNCHANGED <<log, receipts, late, mail, given, failures>>
    BY DEF authority
  <1>4. /\ pending' \in [Nodes -> Commands \cup {NoCommand}]
        /\ \A m \in Nodes \ {n} : pending'[m] = pending[m]
        /\ checkpoint' \in [Nodes -> -1..Revision]
        /\ refreshing' \in [Nodes -> -1..Revision]
    BY <1>1 DEF TypeOK
  <1>5. PICK v \in Calls : /\ call' = [call EXCEPT ![n] = v]
                           /\ v.at \notin {"posted", "read"}
                           /\ v.at = "page" => v.doc =< v.to + 1
                           /\ v.at # "page" => v.doc =< Revision
    <2>1. CASE call' = [call EXCEPT ![n] = rest]
      BY <2>1
    <2>2. CASE End(n)
      <3> DEFINE w == Ended(n)
      <3>1. w \in Calls /\ w.at \in {"idle", "receive"} /\ w.doc =< Revision
        BY <1>1, EndedIsCall
      <3>2. call' = [call EXCEPT ![n] = w]
        BY <2>2 DEF End
      <3> HIDE DEF w
      <3> QED BY <3>1, <3>2
    <2> QED BY <2>1, <2>2 DEF ApplyDocument
  <1> QED BY <1>2, <1>3, <1>4, <1>5, Writes

\* Applying a command's document keeps the types.
LEMMA ApplyResultOK ==
  ASSUME TypeInv, NEW n \in Nodes, ApplyResult(n)
  PROVE  TypeInv'
  <1>1. TypeOK /\ Revision \in Nat /\ call[n].doc \in 0..Revision
    <2>1. TypeOK /\ Revision \in Nat /\ call[n] \in Calls /\ call[n].doc =< Revision
      BY RevisionIsNat DEF TypeInv, TypeOK, InHand, ApplyResult, At
    <2> QED BY <2>1 DEF Calls
  <1>2. Idle \in Calls /\ Idle.at = "idle" /\ Idle.doc = 0
    BY <1>1, IdleIsCall
  <1>3. /\ Idle.at \notin {"posted", "read"}
        /\ Idle.at = "page" => Idle.doc =< Idle.to + 1
        /\ Idle.at # "page" => Idle.doc =< Revision
    BY <1>1, <1>2
  <1>4. /\ ApplyDocument(n, Idle)
        /\ UNCHANGED <<authority, pending, checkpoint, refreshing, mail, given, failures>>
    BY DEF ApplyResult
  <1> QED BY <1>1, <1>2, <1>3, <1>4, ApplyOK

\* Applying the snapshot keeps the types.
LEMMA ApplySnapshotOK ==
  ASSUME TypeInv, NEW n \in Nodes, ApplySnapshot(n)
  PROVE  TypeInv'
  <1> DEFINE w == [call[n] EXCEPT !.at = "changes"]
  <1>1. TypeOK /\ Revision \in Nat /\ call[n].doc \in 0..Revision /\ call[n] \in Calls
    <2>1. TypeOK /\ Revision \in Nat /\ call[n] \in Calls /\ call[n].doc =< Revision
      BY RevisionIsNat DEF TypeInv, TypeOK, InHand, ApplySnapshot, At
    <2> QED BY <2>1 DEF Calls
  <1>2. w \in Calls /\ w.at = "changes" /\ w.doc = call[n].doc
    BY <1>1 DEF Calls
  <1>3. /\ ApplyDocument(n, w)
        /\ UNCHANGED <<authority, pending, checkpoint, refreshing, mail, given, failures>>
    BY DEF ApplySnapshot
  <1> HIDE DEF w
  <1>4. /\ w.at \notin {"posted", "read"}
        /\ w.at = "page" => w.doc =< w.to + 1
        /\ w.at # "page" => w.doc =< Revision
    BY <1>1, <1>2
  <1> QED BY <1>1, <1>2, <1>3, <1>4, ApplyOK

\* Applying one change of a page does not overrun the page.
LEMMA ApplyChangeOK ==
  ASSUME TypeInv, NEW n \in Nodes, ApplyChange(n)
  PROVE  TypeInv'
  <1> DEFINE w == [call[n] EXCEPT !.doc = @ + 1]
  <1>1. TypeOK /\ Revision \in Nat /\ call[n] \in Calls /\ call[n].at = "page"
        /\ call[n].doc =< call[n].to
    BY RevisionIsNat DEF TypeInv, TypeOK, ApplyChange, At
  <1>2. call[n].doc \in 0..Revision /\ call[n].to \in 0..Revision
    BY <1>1 DEF Calls
  <1>3. w \in Calls /\ w.at = "page" /\ w.doc = call[n].doc + 1 /\ w.to = call[n].to
    BY <1>1, <1>2 DEF Calls
  <1>4. /\ ApplyDocument(n, w)
        /\ UNCHANGED <<authority, pending, checkpoint, refreshing, mail, given, failures>>
    BY DEF ApplyChange
  <1> HIDE DEF w
  <1>5. /\ w.at \notin {"posted", "read"}
        /\ w.at = "page" => w.doc =< w.to + 1
        /\ w.at # "page" => w.doc =< Revision
    BY <1>1, <1>2, <1>3
  <1> QED BY <1>2, <1>3, <1>4, <1>5, ApplyOK

\* The stored checkpoint is a revision of the authority.
LEMMA SaveCheckpointOK ==
  ASSUME TypeInv, NEW n \in Nodes, SaveCheckpoint(n)
  PROVE  TypeInv'
  <1>1. TypeOK /\ Revision \in Nat /\ call[n] \in Calls /\ call[n].to \in 0..Revision
    BY RevisionIsNat DEF TypeInv, TypeOK, Calls
  <1>2. UNCHANGED <<log, receipts, late, mail, given, failures, pending, projection, held, refreshing>>
    BY DEF SaveCheckpoint, authority, records
  <1>3. /\ pending' \in [Nodes -> Commands \cup {NoCommand}]
        /\ \A m \in Nodes \ {n} : pending'[m] = pending[m]
        /\ projection' \in [Nodes -> 0..Revision]
        /\ held' \in [Nodes -> 0..Revision]
        /\ refreshing' \in [Nodes -> -1..Revision]
    BY <1>1, <1>2 DEF TypeOK
  <1>4. checkpoint' \in [Nodes -> -1..Revision]
    BY <1>1 DEF TypeOK, SaveCheckpoint
  <1>5. PICK v \in Calls : /\ call' = [call EXCEPT ![n] = v]
                           /\ v.at \notin {"posted", "read", "page"}
                           /\ v.doc =< Revision
    <2>1. CASE call' = [call EXCEPT ![n].at = "changes", ![n].doc = call[n].to]
      <3> DEFINE w == [call[n] EXCEPT !.at = "changes", !.doc = call[n].to]
      <3>1. w \in Calls /\ w.at = "changes" /\ w.doc = call[n].to
        <4>1. call[n].to \in 0..(Revision + 1)
          BY <1>1
        <4> QED BY <1>1, <4>1 DEF Calls
      <3>2. call' = [call EXCEPT ![n] = w]
        BY <2>1, <1>1 DEF TypeOK
      <3>3. w.doc =< Revision
        BY <3>1, <1>1
      <3> HIDE DEF w
      <3> QED BY <3>1, <3>2, <3>3
    <2>2. CASE End(n)
      <3> DEFINE w == Ended(n)
      <3>1. w \in Calls /\ w.at \in {"idle", "receive"} /\ w.doc =< Revision
        BY <1>1, EndedIsCall
      <3>2. call' = [call EXCEPT ![n] = w]
        BY <2>2 DEF End
      <3> HIDE DEF w
      <3> QED BY <3>1, <3>2
    <2> QED BY <2>1, <2>2 DEF SaveCheckpoint
  <1>6. /\ v.at \notin {"posted", "read"}
        /\ v.at = "page" => v.doc =< v.to + 1
        /\ v.at # "page" => v.doc =< Revision
    BY <1>5
  <1> QED BY <1>2, <1>3, <1>4, <1>5, <1>6, Writes

\* The same for a step that sends nothing and stores nothing.
LEMMA Moves ==
  ASSUME TypeInv, NEW n \in Nodes, NEW v \in Calls,
         call' = [call EXCEPT ![n] = v],
         UNCHANGED <<authority, stores, refreshing, mail, given, failures>>,
         v.at = "posted" => pending[n] \in Commands,
         v.at = "read" => v.intent \in Operations,
         v.at = "page" => v.doc =< v.to + 1,
         v.at # "page" => v.doc =< Revision
  PROVE  TypeInv'
  <1>1. UNCHANGED <<log, receipts, late, pending, checkpoint, projection, held, refreshing, mail, given, failures>>
    BY DEF authority, stores
  <1>2. /\ late' \subseteq Commands /\ mail' \in [Nodes -> {"none", "sent", "processed", "dropped"}]
        /\ given' \in 0..MaxCommands /\ failures' \in 0..MaxFailures
    BY <1>1 DEF TypeInv, TypeOK
  <1> QED BY <1>1, <1>2, QuietMove

\* A reconciliation goes on with a scan.
LEMMA ScanningIsCall ==
  ASSUME TypeOK, NEW i \in Operations \cup {"list", "poll", "none"}
  PROVE  LET w == [Idle EXCEPT !.at = "scan", !.intent = i]
         IN  w \in Calls /\ w.at = "scan" /\ w.doc = 0
  <1>1. Idle \in Calls /\ Idle.doc = 0
    BY IdleIsCall
  <1> QED BY <1>1 DEF Calls

\* The re-read after a command keeps the types.
LEMMA ReadLatestOK ==
  ASSUME TypeInv, NEW n \in Nodes, ReadLatest(n)
  PROVE  TypeInv'
  <1>1. Revision \in Nat /\ call[n] \in Calls
    BY RevisionIsNat DEF TypeInv, TypeOK
  <1> DEFINE u == [call[n] EXCEPT !.at = "apply", !.doc = Revision]
             w == [Idle EXCEPT !.at = "scan", !.intent = call[n].intent]
             v == IF call[n].intent \in Operations THEN u ELSE w
  <1>2. u \in Calls /\ u.at = "apply" /\ u.doc = Revision
    <2>1. Revision \in 0..(Revision + 1)
      BY <1>1
    <2> QED BY <1>1, <2>1 DEF Calls
  <1>3. w \in Calls /\ w.at = "scan" /\ w.doc = 0
    <2>1. call[n].intent \in Operations \cup {"list", "poll", "none"}
      BY <1>1 DEF Calls
    <2> QED BY <2>1, ScanningIsCall DEF TypeInv
  <1>4. call' = [call EXCEPT ![n] = v]
    BY <1>1 DEF ReadLatest, TypeInv, TypeOK
  <1>5. UNCHANGED <<authority, stores, refreshing, mail, given, failures>>
    BY DEF ReadLatest
  <1> HIDE DEF u, w
  <1>6. v \in Calls /\ v.at \in {"apply", "scan"} /\ v.doc =< Revision
    BY <1>1, <1>2, <1>3
  <1> HIDE DEF v
  <1> QED BY <1>4, <1>5, <1>6, Moves

\* A scan starts from the stored checkpoint or the latest revision.
LEMMA ScanOK ==
  ASSUME TypeInv, NEW n \in Nodes, Scan(n)
  PROVE  TypeInv'
  <1>1. Revision \in Nat /\ call[n] \in Calls /\ checkpoint[n] \in -1..Revision
    BY RevisionIsNat DEF TypeInv, TypeOK
  <1>2. PICK where \in {"changes", "snapshot"}, d \in 0..Revision :
          call' = [call EXCEPT ![n].at = where, ![n].doc = d]
    <2>1. CASE checkpoint[n] # NoCheckpoint
      <3>1. checkpoint[n] \in 0..Revision
        BY <2>1, <1>1 DEF NoCheckpoint
      <3> QED BY <2>1, <3>1 DEF Scan
    <2>2. CASE checkpoint[n] = NoCheckpoint
      <3>1. Revision \in 0..Revision
        BY <1>1
      <3> QED BY <2>2, <3>1 DEF Scan
    <2> QED BY <2>1, <2>2
  <1> DEFINE v == [call[n] EXCEPT !.at = where, !.doc = d]
  <1>3. call' = [call EXCEPT ![n] = v]
    BY <1>2 DEF TypeInv, TypeOK
  <1>4. v \in Calls /\ v.at \in {"changes", "snapshot"} /\ v.doc =< Revision
    <2>1. d \in 0..(Revision + 1) /\ d =< Revision
      BY <1>1, Within, Zenon
    <2>2. v.at = where /\ v.doc = d
      BY <1>1 DEF Calls
    <2>3. v \in Calls
      BY <1>1, <2>1 DEF Calls
    <2> QED BY <2>1, <2>2, <2>3
  <1> HIDE DEF v
  <1>5. UNCHANGED <<authority, stores, refreshing, mail, given, failures>>
    BY DEF Scan
  <1> QED BY <1>3, <1>4, <1>5, Moves

\* A page lies within the revisions of the authority.
LEMMA FetchChangesOK ==
  ASSUME TypeInv, NEW n \in Nodes, FetchChanges(n)
  PROVE  TypeInv'
  <1> DEFINE last == IF call[n].doc + PageSize < Revision THEN call[n].doc + PageSize ELSE Revision
             d == call[n].doc + 1
             more == last < Revision
             v == [call[n] EXCEPT !.at = "page", !.doc = d, !.to = last, !.more = more]
  <1>1. Revision \in Nat /\ call[n] \in Calls /\ call[n].doc =< Revision
    BY RevisionIsNat DEF TypeInv, TypeOK, InHand, FetchChanges, At
  <1>2. call[n].doc \in 0..Revision
    BY <1>1 DEF Calls
  <1>3. last \in 0..Revision /\ call[n].doc =< last
    BY <1>1, <1>2, BoundsAssumption
  <1>4. d \in 0..(Revision + 1) /\ d =< last + 1 /\ more \in BOOLEAN
    BY <1>1, <1>2, <1>3
  <1>5. call' = [call EXCEPT ![n] = v]
    BY DEF FetchChanges, TypeInv, TypeOK
  <1>6. UNCHANGED <<authority, stores, refreshing, mail, given, failures>>
    BY DEF FetchChanges
  <1> HIDE DEF last, d, more
  <1>7. v \in Calls /\ v.at = "page" /\ v.doc = d /\ v.to = last
    BY <1>1, <1>3, <1>4 DEF Calls
  <1> HIDE DEF v
  <1>8. v.at = "page" => v.doc =< v.to + 1
    BY <1>4, <1>7
  <1> QED BY <1>5, <1>6, <1>7, <1>8, Moves

\* Receive and ReceiveUndecided begin the second reconciliation of a poll.
LEMMA ReceiveOK ==
  ASSUME TypeInv, NEW n \in Nodes, Receive(n) \/ ReceiveUndecided(n)
  PROVE  TypeInv'
  <1>1. TypeOK
    BY DEF TypeInv
  <1> DEFINE v == Begun(n, "list")
  <1>2. /\ v \in Calls /\ v.at \in {"read", "scan", "posted"} /\ v.doc = 0
        /\ v.at = "posted" => pending[n] \in Commands
        /\ v.at = "read" => v.intent \in Operations
    BY <1>1, BegunIsCall
  <1>3. call' = [call EXCEPT ![n] = v]
    BY DEF Receive, ReceiveUndecided
  <1>4. UNCHANGED <<log, receipts, late, pending, checkpoint, projection, held, refreshing, given>>
    BY DEF Receive, ReceiveUndecided, authority, stores
  <1>5. mail' \in [Nodes -> {"none", "sent", "processed", "dropped"}]
    BY <1>1 DEF TypeOK, Receive, ReceiveUndecided, Received
  <1>6. late' \subseteq Commands /\ given' \in 0..MaxCommands
    BY <1>1, <1>4 DEF TypeOK
  <1>7. failures' \in 0..MaxFailures
    BY <1>1, BoundsAssumption DEF TypeOK, Receive, ReceiveUndecided, Occurs
  <1>8. /\ v.at = "page" => v.doc =< v.to + 1
        /\ v.at # "page" => v.doc =< Revision
    BY <1>1, <1>2, RevisionIsNat
  <1> HIDE DEF v
  <1> QED BY <1>2, <1>3, <1>4, <1>5, <1>6, <1>7, <1>8, QuietMove

\* What is left under way is the stored command.
LEMMA LeaveUnderWayOK ==
  ASSUME TypeInv, NEW n \in Nodes, LeaveUnderWay(n)
  PROVE  late' \subseteq Commands
  BY DEF TypeInv, TypeOK, InHand, LeaveUnderWay

\* A failed exchange keeps the types.
LEMMA UnansweredOK ==
  ASSUME TypeInv, NEW n \in Nodes, Unanswered(n)
  PROVE  TypeInv'
  <1>1. TypeOK /\ Revision \in Nat /\ call[n] \in Calls
    BY RevisionIsNat DEF TypeInv, TypeOK
  <1>2. UNCHANGED <<log, receipts, pending, checkpoint, projection, held, refreshing, mail, given>>
    BY DEF Unanswered, stores
  <1>3. late' \subseteq Commands
    BY LeaveUnderWayOK DEF Unanswered
  <1>4. failures' \in 0..MaxFailures
    BY <1>1, BoundsAssumption DEF TypeOK, Unanswered, Occurs
  <1>5. mail' \in [Nodes -> {"none", "sent", "processed", "dropped"}] /\ given' \in 0..MaxCommands
    BY <1>1, <1>2 DEF TypeOK
  <1>6. PICK v \in Calls : /\ call' = [call EXCEPT ![n] = v]
                           /\ v.at \in {"apply", "idle", "receive"}
                           /\ v.doc =< Revision
    <2>1. CASE At(n, "latest") /\ Goto(n, "apply")
      <3> DEFINE w == [call[n] EXCEPT !.at = "apply"]
      <3>1. w \in Calls /\ w.at = "apply" /\ w.doc = call[n].doc
        BY <1>1 DEF Calls
      <3>2. call' = [call EXCEPT ![n] = w]
        BY <2>1, <1>1 DEF Goto, TypeOK
      <3>3. w.doc =< Revision
        BY <2>1, <3>1 DEF TypeInv, InHand, At
      <3> HIDE DEF w
      <3> QED BY <3>1, <3>2, <3>3
    <2>2. CASE End(n)
      <3> DEFINE w == Ended(n)
      <3>1. w \in Calls /\ w.at \in {"idle", "receive"} /\ w.doc =< Revision
        BY <1>1, EndedIsCall
      <3>2. call' = [call EXCEPT ![n] = w]
        BY <2>2 DEF End
      <3> HIDE DEF w
      <3> QED BY <3>1, <3>2
    <2> QED BY <2>1, <2>2 DEF Unanswered
  <1> QED BY <1>2, <1>3, <1>4, <1>5, <1>6, QuietMove

\* A crash keeps the types.
LEMMA CrashOK ==
  ASSUME TypeInv, NEW n \in Nodes, Crash(n)
  PROVE  TypeInv'
  <1>1. TypeOK /\ Revision \in Nat /\ Idle \in Calls /\ Idle.at = "idle" /\ Idle.doc = 0
    BY RevisionIsNat, IdleIsCall DEF TypeInv
  <1>2. UNCHANGED <<log, receipts, pending, checkpoint, projection, held, mail, given>>
    BY DEF Crash, stores
  <1>3. Revision' = Revision
    BY <1>2 DEF Revision
  <1>4. late' \subseteq Commands
    BY LeaveUnderWayOK DEF Crash
  <1>5. failures' \in 0..MaxFailures
    BY <1>1, BoundsAssumption DEF TypeOK, Crash, Occurs
  <1>6. refreshing' \in [Nodes -> -1..Revision']
    BY <1>1, <1>3 DEF TypeOK, Crash, NoRefresh
  <1>7. call' \in [Nodes -> Calls'] /\ InHand'
    <2>1. call' = [call EXCEPT ![n] = Idle]
      BY DEF Crash
    <2>2. Idle \in Calls' /\ Revision' \in Nat /\ Revision =< Revision'
      BY <1>1, <1>3, CallsGrow
    <2>3. \A m \in Nodes \ {n} : pending'[m] = pending[m]
      BY <1>2
    <2>4. /\ Idle.at = "posted" => pending'[n] \in Commands
          /\ Idle.at = "read" => Idle.intent \in Operations
          /\ Idle.at = "page" => Idle.doc =< Idle.to + 1
          /\ Idle.at # "page" => Idle.doc =< Revision'
      BY <1>1, <1>3
    <2> QED BY <2>1, <2>2, <2>3, <2>4, CallMoves
  <1> QED BY <1>1, <1>2, <1>3, <1>4, <1>5, <1>6, <1>7 DEF TypeInv, TypeOK

\* Steps that leave the calls alone.
LEMMA AsideOK ==
  ASSUME TypeInv, NEW n \in Nodes, Send(n) \/ RefreshLoad(n) \/ RefreshSave(n)
  PROVE  TypeInv'
  <1>1. TypeOK /\ Revision \in Nat
    BY RevisionIsNat DEF TypeInv
  <1>2. UNCHANGED <<log, receipts, late, pending, checkpoint, call, given>>
    BY DEF Send, RefreshLoad, RefreshSave, authority, stores
  <1>3. Revision' = Revision
    BY <1>2 DEF Revision
  <1>4. call' \in [Nodes -> Calls'] /\ InHand'
    BY <1>1, <1>2, <1>3 DEF TypeInv, TypeOK, InHand, At, Calls
  <1>5. mail' \in [Nodes -> {"none", "sent", "processed", "dropped"}]
    BY <1>1 DEF TypeOK, Send, RefreshLoad, RefreshSave
  <1>6. failures' \in 0..MaxFailures
    BY <1>1, BoundsAssumption DEF TypeOK, Send, RefreshLoad, RefreshSave, Occurs
  <1>7. refreshing' \in [Nodes -> -1..Revision'] /\ projection' \in [Nodes -> 0..Revision']
        /\ held' \in [Nodes -> 0..Revision']
    <2>1. CASE Send(n)
      BY <1>1, <1>3, <2>1 DEF TypeOK, Send, stores
    <2>2. CASE RefreshLoad(n)
      BY <1>1, <1>3, <2>2 DEF TypeOK, RefreshLoad, stores
    <2>3. CASE RefreshSave(n)
      <3>1. refreshing[n] \in 0..Revision
        BY <1>1, <2>3 DEF TypeOK, RefreshSave, NoRefresh
      <3> QED BY <1>1, <1>3, <2>3, <3>1 DEF TypeOK, RefreshSave, NoRefresh
    <2> QED BY <2>1, <2>2, <2>3
  <1> QED BY <1>1, <1>2, <1>3, <1>4, <1>5, <1>6, <1>7 DEF TypeInv, TypeOK

\* The initial state has the types.
LEMMA InitOK == Init => TypeInv
  <1> SUFFICES ASSUME Init PROVE TypeInv
    OBVIOUS
  <1>1. log = <<>> /\ Revision = 0 /\ log \in Seq(Documents)
    BY DEF Init, Revision
  <1>2. Idle \in Calls /\ Idle.at = "idle" /\ Idle.doc = 0
    BY <1>1 DEF Idle, Calls
  <1>3. call \in [Nodes -> Calls] /\ \A n \in Nodes : call[n] = Idle
    BY <1>2 DEF Init
  <1>4. InHand
    BY <1>1, <1>2, <1>3 DEF InHand, At
  <1>5. /\ checkpoint \in [Nodes -> -1..Revision] /\ projection \in [Nodes -> 0..Revision]
        /\ held \in [Nodes -> 0..Revision]
        /\ refreshing \in [Nodes -> -1..Revision]
    BY <1>1 DEF Init, NoCheckpoint, NoRefresh
  <1>6. given \in 0..MaxCommands /\ failures \in 0..MaxFailures
    BY BoundsAssumption DEF Init
  <1>7. /\ receipts \subseteq [cmd : Commands, doc : 1..Revision] /\ late \subseteq Commands
        /\ pending \in [Nodes -> Commands \cup {NoCommand}]
        /\ mail \in [Nodes -> {"none", "sent", "processed", "dropped"}]
    BY DEF Init
  <1> QED BY <1>1, <1>3, <1>4, <1>5, <1>6, <1>7 DEF TypeInv, TypeOK

\* A step that changes nothing keeps the types.
LEMMA StutterOK == ASSUME TypeInv, UNCHANGED vars PROVE TypeInv'
  <1>1. UNCHANGED <<log, receipts, late, pending, checkpoint, projection, held, call,
                    refreshing, mail, given, failures>>
    BY DEF vars
  <1>2. Revision' = Revision
    BY <1>1 DEF Revision
  <1>3. Calls' = Calls
    BY <1>2 DEF Calls
  <1>4. InHand'
    BY <1>1, <1>2 DEF TypeInv, InHand, At
  <1> QED BY <1>1, <1>2, <1>3, <1>4 DEF TypeInv, TypeOK

\* Every step keeps the types.
LEMMA NextOK == TypeInv /\ [Next]_vars => TypeInv'
  <1> SUFFICES ASSUME TypeInv, [Next]_vars PROVE TypeInv'
    OBVIOUS
  <1>1. ASSUME NEW n \in Nodes, NEW op \in Intents \cap Operations, StartCommand(n, op)
        PROVE  TypeInv'
    BY <1>1, StartCommandOK
  <1>2. ASSUME NEW n \in Nodes, NEW intent \in Intents \ Operations, StartSync(n, intent)
        PROVE  TypeInv'
    <2>1. intent \in {"list", "poll"}
      BY IntentsAssumption
    <2> QED BY <1>2, <2>1, StartSyncOK
  <1>3. ASSUME NEW n \in Nodes, Step(n)
        PROVE  TypeInv'
    BY <1>3, ExecuteNewOK, DeliverOK, SettleOK, ReadLatestOK, ApplyResultOK, ScanOK,
       ApplySnapshotOK, FetchChangesOK, ApplyChangeOK, SaveCheckpointOK, ReceiveOK DEF Step
  <1>4. ASSUME NEW n \in Nodes,
               \/ Send(n) \/ ReceiveUndecided(n) \/ Unanswered(n) \/ Crash(n)
               \/ RefreshLoad(n) \/ RefreshSave(n)
        PROVE  TypeInv'
    BY <1>4, AsideOK, ReceiveOK, UnansweredOK, CrashOK
  <1>5. ASSUME NEW c \in late, DeliverLate(c)
        PROVE  TypeInv'
    BY <1>5, DeliverLateOK
  <1>6. CASE UNCHANGED vars
    BY <1>6, StutterOK
  <1> QED BY <1>1, <1>2, <1>3, <1>4, <1>5, <1>6 DEF Next

\* Every revision a runtime stores or has in hand exists at the authority, a
\* posted command is the stored one, and the page in hand is not overrun.
THEOREM InHandInvariance == Spec => []TypeInv
  BY InitOK, NextOK, PTL DEF Spec

\* The variables keep their types: in particular no checkpoint and no record of
\* connections.json names a revision the authority does not have.
THEOREM RelationshipTypes == Spec => []TypeOK
  <1>1. TypeInv => TypeOK
    BY DEF TypeInv
  <1> QED BY <1>1, InHandInvariance, PTL

-----------------------------------------------------------------------------
(***************************************************************************)
(* Checkpoint and records.                                                 *)
(***************************************************************************)

\* While scanChanges runs, the revisions before the one it is at have been written
\* into connections.json: what makes the checkpoint it is going to store a covered
\* one, also when a profile refresh has written an older record back since.
Cover ==
  /\ CheckpointIsCovered
  /\ \A n \in Nodes :
       /\ At(n, "changes") => call[n].doc =< held[n]
       /\ At(n, "page") => call[n].doc - 1 =< held[n]

CoverInv == TypeInv /\ Cover

\* A step that moves the call of n and stores a covered checkpoint, if any, keeps
\* Cover.
LEMMA CoverMoves ==
  ASSUME CoverInv, TypeInv', NEW n \in Nodes, NEW v,
         call' = [call EXCEPT ![n] = v],
         \A m \in Nodes : held'[m] >= held[m],
         \A m \in Nodes \ {n} : checkpoint'[m] = checkpoint[m],
         checkpoint'[n] =< held'[n],
         v.at = "changes" => v.doc =< held'[n],
         v.at = "page" => v.doc - 1 =< held'[n]
  PROVE  Cover'
  <1>1. /\ held \in [Nodes -> 0..Revision] /\ Revision \in Nat
        /\ checkpoint \in [Nodes -> -1..Revision] /\ call \in [Nodes -> Calls]
    BY RevisionIsNat DEF CoverInv, TypeInv, TypeOK
  <1>2. held' \in [Nodes -> 0..Revision'] /\ Revision' \in Nat
    BY DEF TypeInv, TypeOK, Revision
  <1>3. call'[n] = v /\ \A m \in Nodes \ {n} : call'[m] = call[m]
    BY <1>1
  <1>4. ASSUME NEW m \in Nodes
        PROVE  /\ checkpoint'[m] =< held'[m]
               /\ call'[m].at = "changes" => call'[m].doc =< held'[m]
               /\ call'[m].at = "page" => call'[m].doc - 1 =< held'[m]
    <2>1. CASE m = n
      BY <2>1, <1>3
    <2>2. CASE m # n
      <3>1. /\ call'[m] = call[m] /\ checkpoint'[m] = checkpoint[m]
            /\ held'[m] >= held[m]
        BY <2>2, <1>3
      <3>2. /\ checkpoint[m] =< held[m]
            /\ call[m].at = "changes" => call[m].doc =< held[m]
            /\ call[m].at = "page" => call[m].doc - 1 =< held[m]
        BY DEF CoverInv, Cover, CheckpointIsCovered, At
      <3>3. /\ checkpoint[m] \in Int /\ held[m] \in Int /\ held'[m] \in Int
            /\ call[m].doc \in Int
        BY <1>1, <1>2 DEF Calls
      <3> QED BY <3>1, <3>2, <3>3
    <2> QED BY <2>1, <2>2
  <1> QED BY <1>4 DEF Cover, CheckpointIsCovered, At

\* The same for a step that stores nothing and does not lead to the changes.
LEMMA CoverQuiet ==
  ASSUME CoverInv, TypeInv', NEW n \in Nodes, NEW v,
         call' = [call EXCEPT ![n] = v],
         UNCHANGED <<checkpoint, held>>,
         v.at \notin {"changes", "page"}
  PROVE  Cover'
  <1>1. \A m \in Nodes : held'[m] = held[m] /\ held[m] \in Int
    BY RevisionIsNat DEF CoverInv, TypeInv, TypeOK
  <1>3. \A m \in Nodes : held'[m] >= held[m]
    BY <1>1
  <1>4. checkpoint'[n] =< held'[n]
    BY DEF CoverInv, Cover, CheckpointIsCovered
  <1>5. \A m \in Nodes \ {n} : checkpoint'[m] = checkpoint[m]
    OBVIOUS
  <1> QED BY <1>3, <1>4, <1>5, CoverMoves

\* The quiet steps: none of them stores a revision.
LEMMA QuietCover ==
  ASSUME CoverInv, TypeInv', NEW n \in Nodes,
         \/ \E intent \in Operations \cup {"list", "poll"} :
              StartCommand(n, intent) \/ StartSync(n, intent)
         \/ ExecuteNew(n) \/ Deliver(n) \/ Settle(n) \/ ReadLatest(n) \/ Receive(n)
         \/ ReceiveUndecided(n) \/ Unanswered(n)
  PROVE  Cover'
  <1>1. TypeOK /\ call \in [Nodes -> Calls] /\ call[n] \in Calls
    BY DEF CoverInv, TypeInv, TypeOK
  <1>2. UNCHANGED <<checkpoint, held>>
    BY DEF StartCommand, StartSync, ExecuteNew, Deliver, Settle, ReadLatest, Receive,
           ReceiveUndecided, Unanswered, stores, records
  <1> SUFFICES \E v : call' = [call EXCEPT ![n] = v] /\ v.at \notin {"changes", "page"}
    BY <1>2, CoverQuiet
  <1>3. CASE \E intent \in Operations \cup {"list", "poll"} :
               call' = [call EXCEPT ![n] = Begun(n, intent)]
    <2>1. PICK intent \in Operations \cup {"list", "poll"} :
            call' = [call EXCEPT ![n] = Begun(n, intent)]
      BY <1>3
    <2>2. Begun(n, intent).at \in {"read", "scan", "posted"}
      BY <1>1, BegunIsCall
    <2> QED BY <2>1, <2>2
  <1>4. CASE End(n)
    <2>1. Ended(n).at \in {"idle", "receive"}
      BY <1>1, EndedIsCall
    <2> QED BY <1>4, <2>1 DEF End
  <1>5. CASE \E where \in {"latest", "apply"} : Goto(n, where)
    <2>1. PICK where \in {"latest", "apply"} : call' = [call EXCEPT ![n].at = where]
      BY <1>5 DEF Goto
    <2> DEFINE v == [call[n] EXCEPT !.at = where]
    <2>2. v.at = where
      BY <1>1 DEF Calls
    <2>3. call' = [call EXCEPT ![n] = v]
      BY <1>1, <2>1
    <2> HIDE DEF v
    <2> QED BY <2>2, <2>3
  <1>6. CASE ExecuteNew(n)
    <2> DEFINE v == [call[n] EXCEPT !.at = "posted", !.ran = call[n].intent]
    <2>1. v.at = "posted"
      BY <1>1 DEF Calls
    <2>2. call' = [call EXCEPT ![n] = v]
      BY <1>1, <1>6 DEF ExecuteNew
    <2> HIDE DEF v
    <2> QED BY <2>1, <2>2
  <1>7. CASE Deliver(n)
    <2>1. PICK result \in {"ok", "conflict", "refused"}, doc \in 0..(Revision + 1) :
            call' = [call EXCEPT ![n].at = "answered", ![n].result = result, ![n].doc = doc]
      BY <1>7 DEF Deliver
    <2> DEFINE v == [call[n] EXCEPT !.at = "answered", !.result = result, !.doc = doc]
    <2>2. v.at = "answered"
      BY <1>1 DEF Calls
    <2>3. call' = [call EXCEPT ![n] = v]
      BY <1>1, <2>1
    <2> HIDE DEF v
    <2> QED BY <2>2, <2>3
  <1>8. CASE ReadLatest(n)
    <2> DEFINE u == [call[n] EXCEPT !.at = "apply", !.doc = Revision]
               w == [Idle EXCEPT !.at = "scan", !.intent = call[n].intent]
    <2>1. u.at = "apply"
      BY <1>1 DEF Calls
    <2>2. w.at = "scan"
      <3>1. Idle \in Calls
        BY <1>1, IdleIsCall
      <3> QED BY <3>1 DEF Calls
    <2>3. call' = [call EXCEPT ![n] = IF call[n].intent \in Operations THEN u ELSE w]
      BY <1>1, <1>8 DEF ReadLatest
    <2> HIDE DEF u, w
    <2> QED BY <2>1, <2>2, <2>3
  <1> QED
    <2>1. (\E intent \in Operations \cup {"list", "poll"} :
              StartCommand(n, intent) \/ StartSync(n, intent))
          \/ Receive(n) \/ ReceiveUndecided(n)
          => \E intent \in Operations \cup {"list", "poll"} :
               call' = [call EXCEPT ![n] = Begun(n, intent)]
      BY DEF StartCommand, StartSync, Receive, ReceiveUndecided
    <2>2. Settle(n) \/ Unanswered(n) => End(n) \/ \E where \in {"latest", "apply"} : Goto(n, where)
      BY DEF Settle, Unanswered
    <2> QED BY <1>3, <1>4, <1>5, <1>6, <1>7, <1>8, <2>1, <2>2

\* Applying a document takes no record back, and leaves what has been written at
\* least there.
LEMMA ApplyGrows ==
  ASSUME TypeOK, NEW n \in Nodes, NEW rest, ApplyDocument(n, rest)
  PROVE  /\ \A m \in Nodes : projection'[m] >= projection[m] /\ held'[m] >= held[m]
         /\ \/ call' = [call EXCEPT ![n] = rest] /\ held'[n] >= call[n].doc
            \/ End(n)
  <1>1. /\ projection \in [Nodes -> 0..Revision] /\ Revision \in Nat /\ call[n].doc \in Int
        /\ held \in [Nodes -> 0..Revision]
    <2>1. /\ projection \in [Nodes -> 0..Revision] /\ Revision \in Nat /\ call[n] \in Calls
          /\ held \in [Nodes -> 0..Revision]
      BY RevisionIsNat DEF TypeOK
    <2> QED BY <2>1 DEF Calls
  <1>2. CASE UNCHANGED <<projection, held>> /\ End(n)
    <2>1. \A m \in Nodes : projection[m] \in Int /\ held[m] \in Int
      BY <1>1
    <2>2. \A m \in Nodes : projection'[m] = projection[m] /\ held'[m] = held[m]
      BY <1>2
    <2>3. \A m \in Nodes : projection'[m] >= projection[m] /\ held'[m] >= held[m]
      BY <2>1, <2>2
    <2> QED BY <1>2, <2>3
  <1>3. CASE /\ projection' = [projection EXCEPT ![n] = Projected(n, call[n].doc)]
             /\ held' = [held EXCEPT ![n] = IF projection'[n] > @ THEN projection'[n] ELSE @]
             /\ call' = [call EXCEPT ![n] = rest]
    <2>1. /\ Projected(n, call[n].doc) >= projection[n] /\ Projected(n, call[n].doc) >= call[n].doc
          /\ Projected(n, call[n].doc) \in Int
      BY <1>1 DEF Projected
    <2>2. /\ projection'[n] = Projected(n, call[n].doc)
          /\ \A m \in Nodes \ {n} : projection'[m] = projection[m]
          /\ held'[n] = IF projection'[n] > held[n] THEN projection'[n] ELSE held[n]
          /\ \A m \in Nodes \ {n} : held'[m] = held[m]
      BY <1>1, <1>3
    <2>3. held'[n] >= held[n] /\ held'[n] >= call[n].doc
      BY <1>1, <2>1, <2>2
    <2> QED BY <1>1, <1>3, <2>1, <2>2, <2>3
  <1> QED BY <1>2, <1>3 DEF ApplyDocument, records

\* Applying the document in hand keeps Cover, wherever the call goes on.
LEMMA ApplyCover ==
  ASSUME CoverInv, TypeInv', NEW n \in Nodes, NEW rest, ApplyDocument(n, rest),
         UNCHANGED checkpoint,
         rest.at = "changes" => rest.doc = call[n].doc,
         rest.at = "page" => rest.doc = call[n].doc + 1
  PROVE  Cover'
  <1>1. TypeOK /\ checkpoint[n] \in Int /\ held[n] \in Int /\ call[n].doc \in Int
        /\ checkpoint[n] =< held[n]
    <2>1. /\ TypeOK /\ Revision \in Nat /\ call[n] \in Calls
          /\ checkpoint[n] \in -1..Revision /\ held[n] \in 0..Revision
      BY RevisionIsNat DEF CoverInv, TypeInv, TypeOK
    <2>2. checkpoint[n] =< held[n]
      BY DEF CoverInv, Cover, CheckpointIsCovered
    <2> QED BY <2>1, <2>2 DEF Calls
  <1>2. held'[n] \in Int
    <2>1. held' \in [Nodes -> 0..Revision']
      BY DEF TypeInv, TypeOK
    <2> QED BY <2>1
  <1>3. /\ \A m \in Nodes : held'[m] >= held[m]
        /\ \/ call' = [call EXCEPT ![n] = rest] /\ held'[n] >= call[n].doc
           \/ End(n)
    BY <1>1, ApplyGrows
  <1>4. \E v : /\ call' = [call EXCEPT ![n] = v]
               /\ v.at = "changes" => v.doc =< held'[n]
               /\ v.at = "page" => v.doc - 1 =< held'[n]
    <2>1. CASE call' = [call EXCEPT ![n] = rest] /\ held'[n] >= call[n].doc
      <3>1. /\ rest.at = "changes" => rest.doc =< held'[n]
            /\ rest.at = "page" => rest.doc - 1 =< held'[n]
        BY <2>1, <1>1, <1>2
      <3> QED BY <2>1, <3>1, Zenon
    <2>2. CASE End(n)
      <3>1. Ended(n).at \in {"idle", "receive"}
        BY <1>1, EndedIsCall
      <3> QED BY <2>2, <3>1 DEF End
    <2> QED BY <1>3, <2>1, <2>2
  <1>5. \A m \in Nodes \ {n} : checkpoint'[m] = checkpoint[m]
    OBVIOUS
  <1>6. held'[n] >= held[n] /\ checkpoint'[n] = checkpoint[n]
    BY <1>3
  <1>7. checkpoint'[n] =< held'[n]
    BY <1>1, <1>2, <1>6
  <1> QED BY <1>3, <1>4, <1>5, <1>7, CoverMoves

\* The steps of a reconciliation.
LEMMA ReconcileCover ==
  ASSUME CoverInv, TypeInv', NEW n \in Nodes,
         \/ ApplyResult(n) \/ Scan(n) \/ ApplySnapshot(n) \/ FetchChanges(n)
         \/ ApplyChange(n) \/ SaveCheckpoint(n)
  PROVE  Cover'
  <1>1. /\ TypeOK /\ Revision \in Nat /\ call \in [Nodes -> Calls] /\ call[n] \in Calls
        /\ checkpoint \in [Nodes -> -1..Revision] /\ held \in [Nodes -> 0..Revision]
    BY RevisionIsNat DEF CoverInv, TypeInv, TypeOK
  <1>2. /\ checkpoint[n] \in Int /\ held[n] \in Int /\ held[n] >= 0
        /\ call[n].doc \in Int /\ call[n].to \in Int
    BY <1>1 DEF Calls
  <1>3. /\ checkpoint[n] =< held[n]
        /\ call[n].at = "changes" => call[n].doc =< held[n]
        /\ call[n].at = "page" => call[n].doc - 1 =< held[n]
    BY DEF CoverInv, Cover, CheckpointIsCovered, At
  <1>4. \A m \in Nodes : held[m] >= held[m]
    BY <1>1
  <1>5. CASE ApplyResult(n)
    <2>1. Idle.at = "idle"
      BY <1>1, IdleIsCall
    <2>2. ApplyDocument(n, Idle) /\ UNCHANGED checkpoint
      BY <1>5 DEF ApplyResult
    <2> QED BY <2>1, <2>2, ApplyCover
  <1>6. CASE ApplySnapshot(n)
    <2> DEFINE w == [call[n] EXCEPT !.at = "changes"]
    <2>1. w.at = "changes" /\ w.doc = call[n].doc
      BY <1>1 DEF Calls
    <2>2. ApplyDocument(n, w) /\ UNCHANGED checkpoint
      BY <1>6 DEF ApplySnapshot
    <2> HIDE DEF w
    <2> QED BY <2>1, <2>2, ApplyCover
  <1>7. CASE ApplyChange(n)
    <2> DEFINE w == [call[n] EXCEPT !.doc = @ + 1]
    <2>1. w.at = "page" /\ w.doc = call[n].doc + 1
      BY <1>1, <1>7 DEF Calls, ApplyChange, At
    <2>2. ApplyDocument(n, w) /\ UNCHANGED checkpoint
      BY <1>7 DEF ApplyChange
    <2> HIDE DEF w
    <2> QED BY <2>1, <2>2, ApplyCover
  <1>8. CASE Scan(n)
    <2>1. UNCHANGED <<checkpoint, held>>
      BY <1>8 DEF Scan, stores
    <2>2. PICK where \in {"changes", "snapshot"}, d \in Int :
            /\ call' = [call EXCEPT ![n].at = where, ![n].doc = d]
            /\ where = "changes" => d =< held[n]
      <3>1. CASE checkpoint[n] # NoCheckpoint
        BY <1>2, <1>3, <1>8, <3>1 DEF Scan
      <3>2. CASE checkpoint[n] = NoCheckpoint
        BY <1>1, <1>2, <1>8, <3>2 DEF Scan
      <3> QED BY <3>1, <3>2
    <2> DEFINE v == [call[n] EXCEPT !.at = where, !.doc = d]
    <2>3. v.at = where /\ v.doc = d
      BY <1>1 DEF Calls
    <2>4. call' = [call EXCEPT ![n] = v]
      BY <1>1, <2>2
    <2> HIDE DEF v
    <2>5. /\ v.at = "changes" => v.doc =< held'[n]
          /\ v.at = "page" => v.doc - 1 =< held'[n]
      BY <2>1, <2>2, <2>3
    <2>6. /\ \A m \in Nodes : held'[m] >= held[m]
          /\ \A m \in Nodes \ {n} : checkpoint'[m] = checkpoint[m]
          /\ checkpoint'[n] =< held'[n]
      BY <1>3, <1>4, <2>1
    <2> QED BY <2>4, <2>5, <2>6, CoverMoves
  <1>9. CASE FetchChanges(n)
    <2>1. UNCHANGED <<checkpoint, held>>
      BY <1>9 DEF FetchChanges, stores
    <2> DEFINE last == IF call[n].doc + PageSize < Revision THEN call[n].doc + PageSize ELSE Revision
               v == [call[n] EXCEPT !.at = "page", !.doc = call[n].doc + 1,
                                    !.to = last, !.more = last < Revision]
    <2>2. v.at = "page" /\ v.doc = call[n].doc + 1
      BY <1>1 DEF Calls
    <2>3. call' = [call EXCEPT ![n] = v]
      BY <1>1, <1>9 DEF FetchChanges
    <2>4. call[n].at = "changes"
      BY <1>9 DEF FetchChanges, At
    <2> HIDE DEF v
    <2>5. /\ v.at = "changes" => v.doc =< held'[n]
          /\ v.at = "page" => v.doc - 1 =< held'[n]
      BY <1>2, <1>3, <2>1, <2>2, <2>4
    <2>6. /\ \A m \in Nodes : held'[m] >= held[m]
          /\ \A m \in Nodes \ {n} : checkpoint'[m] = checkpoint[m]
          /\ checkpoint'[n] =< held'[n]
      BY <1>3, <1>4, <2>1
    <2> QED BY <2>3, <2>5, <2>6, CoverMoves
  <1>10. CASE SaveCheckpoint(n)
    <2>1. UNCHANGED held /\ call[n].at = "page" /\ call[n].doc > call[n].to
          /\ checkpoint' = [checkpoint EXCEPT ![n] = call[n].to]
      BY <1>10 DEF SaveCheckpoint, At, records
    <2>2. call[n].to =< held[n]
      BY <1>2, <1>3, <2>1
    <2>3. /\ checkpoint'[n] = call[n].to
          /\ \A m \in Nodes \ {n} : checkpoint'[m] = checkpoint[m]
      BY <1>1, <2>1
    <2>4. \E v : /\ call' = [call EXCEPT ![n] = v]
                 /\ v.at = "changes" => v.doc =< held[n]
                 /\ v.at # "page"
      <3>1. CASE End(n)
        <4>1. Ended(n).at \in {"idle", "receive"}
          BY <1>1, EndedIsCall
        <4> QED BY <3>1, <4>1 DEF End
      <3>2. CASE call' = [call EXCEPT ![n].at = "changes", ![n].doc = call[n].to]
        <4> DEFINE v == [call[n] EXCEPT !.at = "changes", !.doc = call[n].to]
        <4>1. v.at = "changes" /\ v.doc = call[n].to
          BY <1>1 DEF Calls
        <4>2. call' = [call EXCEPT ![n] = v]
          BY <1>1, <3>2
        <4> HIDE DEF v
        <4> QED BY <4>1, <4>2, <2>2
      <3> QED BY <3>1, <3>2, <1>10 DEF SaveCheckpoint
    <2>5. /\ \A m \in Nodes : held'[m] >= held[m]
          /\ checkpoint'[n] =< held'[n]
      BY <1>3, <1>4, <2>1, <2>2, <2>3
    <2> QED BY <2>1, <2>3, <2>4, <2>5, CoverMoves
  <1> QED BY <1>5, <1>6, <1>7, <1>8, <1>9, <1>10

\* The steps that leave the calls alone and store nothing new, and the crash.
LEMMA AsideCover ==
  ASSUME CoverInv, TypeInv', NEW n \in Nodes,
         \/ Send(n) \/ Crash(n) \/ RefreshLoad(n) \/ RefreshSave(n)
         \/ (\E c \in late : DeliverLate(c)) \/ UNCHANGED vars
  PROVE  Cover'
  <1>1. CASE Crash(n)
    <2>1. TypeOK /\ call' = [call EXCEPT ![n] = Idle] /\ Idle.at = "idle"
      BY <1>1, IdleIsCall DEF CoverInv, TypeInv, Crash
    <2>2. UNCHANGED <<checkpoint, held>>
      BY <1>1 DEF Crash, stores
    <2> QED BY <2>1, <2>2, CoverQuiet
  <1>2. CASE UNCHANGED <<checkpoint, held, call>>
    BY <1>2 DEF CoverInv, Cover, CheckpointIsCovered, At
  <1> QED BY <1>1, <1>2 DEF Send, RefreshLoad, RefreshSave, DeliverLate, stores, vars

\* Every step keeps Cover.
LEMMA CoverNext ==
  ASSUME CoverInv, [Next]_vars
  PROVE  CoverInv'
  <1>1. TypeInv'
    BY NextOK DEF CoverInv
  <1>2. ASSUME NEW n \in Nodes, NEW op \in Intents \cap Operations, StartCommand(n, op)
        PROVE  Cover'
    BY <1>1, <1>2, QuietCover
  <1>3. ASSUME NEW n \in Nodes, NEW intent \in Intents \ Operations, StartSync(n, intent)
        PROVE  Cover'
    <2>1. intent \in Operations \cup {"list", "poll"}
      BY IntentsAssumption
    <2> QED BY <1>1, <1>3, <2>1, QuietCover
  <1>4. ASSUME NEW n \in Nodes, Step(n)
        PROVE  Cover'
    BY <1>1, <1>4, QuietCover, ReconcileCover DEF Step
  <1>5. ASSUME NEW n \in Nodes,
               \/ Send(n) \/ ReceiveUndecided(n) \/ Unanswered(n) \/ Crash(n)
               \/ RefreshLoad(n) \/ RefreshSave(n)
        PROVE  Cover'
    BY <1>1, <1>5, QuietCover, AsideCover
  <1>7. CASE (\E c \in late : DeliverLate(c)) \/ UNCHANGED vars
    <2>1. PICK n \in Nodes : TRUE
      BY NodesAssumption
    <2>2. Send(n) \/ Crash(n) \/ (\E c \in late : DeliverLate(c)) \/ UNCHANGED vars
      BY <1>7
    <2>3. Cover'
      BY <1>1, <2>2, AsideCover
    <2> QED BY <1>1, <2>3 DEF CoverInv
  <1> QED BY <1>1, <1>2, <1>3, <1>4, <1>5, <1>7 DEF Next, CoverInv

\* Nothing is stored initially.
LEMMA CoverInit == Init => CoverInv
  <1> SUFFICES ASSUME Init PROVE CoverInv
    OBVIOUS
  <1>1. \A n \in Nodes : checkpoint[n] = -1 /\ held[n] = 0
    BY DEF Init, NoCheckpoint
  <1>2. \A n \in Nodes : call[n].at = "idle"
    BY DEF Init, Idle
  <1>3. \A n \in Nodes : checkpoint[n] =< held[n]
    BY <1>1
  <1> QED BY <1>1, <1>2, <1>3, InitOK DEF CoverInv, Cover, CheckpointIsCovered, At

\* No change is skipped: whatever fails or stops between applying a page of changes
\* and storing its checkpoint, a stored checkpoint never passes a change that was
\* not written into connections.json.
THEOREM CheckpointsAreCovered == Spec => []CheckpointIsCovered
  <1>1. CoverInv /\ [Next]_vars => CoverInv'
    BY CoverNext
  <1>2. CoverInv => CheckpointIsCovered
    BY DEF CoverInv, Cover
  <1> QED BY <1>1, <1>2, CoverInit, PTL DEF Spec

\* A step but the save of a profile refresh takes no record back.
LEMMA RecordsGrow ==
  ASSUME TypeInv, [Next]_vars, \A n \in Nodes : ~RefreshSave(n)
  PROVE  \A m \in Nodes : projection'[m] >= projection[m]
  <1>1. TypeOK /\ \A m \in Nodes : projection[m] \in Int
    BY RevisionIsNat DEF TypeInv, TypeOK
  <1>2. ASSUME NEW n \in Nodes, NEW rest, ApplyDocument(n, rest)
        PROVE  \A m \in Nodes : projection'[m] >= projection[m]
    BY <1>1, <1>2, ApplyGrows
  <1>3. CASE UNCHANGED projection
    BY <1>1, <1>3
  <1>4. ASSUME NEW n \in Nodes, Step(n)
        PROVE  UNCHANGED projection \/ \E rest : ApplyDocument(n, rest)
    BY <1>4 DEF Step, ExecuteNew, Deliver, Settle, ReadLatest, ApplyResult, Scan,
       ApplySnapshot, FetchChanges, ApplyChange, SaveCheckpoint, Receive, stores, records
  <1>5. ASSUME NEW n \in Nodes,
               \/ \E op \in Intents \cap Operations : StartCommand(n, op)
               \/ \E intent \in Intents \ Operations : StartSync(n, intent)
               \/ Send(n) \/ ReceiveUndecided(n) \/ Unanswered(n) \/ Crash(n)
               \/ RefreshLoad(n)
        PROVE  UNCHANGED projection
    BY <1>5 DEF StartCommand, StartSync, Send, ReceiveUndecided, Unanswered, Crash,
       RefreshLoad, stores
  <1>6. (\E c \in late : DeliverLate(c)) \/ UNCHANGED vars => UNCHANGED projection
    BY DEF DeliverLate, stores, vars
  <1> QED BY <1>2, <1>3, <1>4, <1>5, <1>6 DEF Next

\* No document takes a connection record back to an earlier revision, in whatever
\* order documents reach the runtime; only the save of a profile refresh does, to
\* the revision it had loaded.
THEOREM OnlyRefreshesTakeBack == Spec => OnlyARefreshTakesBack
  <1> DEFINE Back(n) == projection'[n] < projection[n] =>
               /\ refreshing[n] = projection'[n] /\ refreshing'[n] = NoRefresh
               /\ UNCHANGED <<call, checkpoint>>
  <1>1. ASSUME TypeInv, [Next]_vars
        PROVE  \A n \in Nodes : Back(n)
    <2>1. \A m \in Nodes : projection[m] \in Int /\ projection \in [Nodes -> 0..Revision]
          /\ refreshing \in [Nodes -> -1..Revision]
      BY <1>1, RevisionIsNat DEF TypeInv, TypeOK
    <2>2. CASE \A m \in Nodes : ~RefreshSave(m)
      <3>1. \A m \in Nodes : projection'[m] >= projection[m]
        BY <1>1, <2>2, RecordsGrow
      <3>2. TypeInv'
        BY <1>1, NextOK
      <3>3. \A m \in Nodes : projection'[m] \in Int
        <4>1. projection' \in [Nodes -> 0..Revision'] /\ Revision' \in Nat
          BY <3>2 DEF TypeInv, TypeOK, Revision
        <4> QED BY <4>1
      <3> QED BY <2>1, <3>1, <3>3
    <2>3. ASSUME NEW m \in Nodes, RefreshSave(m)
          PROVE  \A n \in Nodes : Back(n)
      <3>1. /\ projection' = [projection EXCEPT ![m] = refreshing[m]]
            /\ refreshing' = [refreshing EXCEPT ![m] = NoRefresh]
            /\ UNCHANGED <<call, checkpoint>>
        BY <2>3 DEF RefreshSave
      <3> QED BY <2>1, <3>1
    <2> QED BY <2>2, <2>3
  <1>2. TypeInv /\ [Next]_vars => [\A n \in Nodes : Back(n)]_vars
    BY <1>1
  <1> QED BY <1>2, InHandInvariance, PTL DEF Spec, OnlyARefreshTakesBack

-----------------------------------------------------------------------------
(***************************************************************************)
(* Commands: which of them can still take effect, for any failures, copies *)
(* and crashes.                                                            *)
(***************************************************************************)

\* What the authority has recorded: every revision answers a command decided on
\* an earlier one and has its receipt, an open request is its sender's, a
\* revision changes the state, and a blocked relationship is not requested.
History ==
  \A i \in 1..Revision :
    /\ log[i].cmd.expected < i
    /\ log[i].state = "requested" => log[i].requester = log[i].cmd.by
    /\ \E r \in receipts : r.cmd = log[i].cmd
    /\ i < Revision =>
         /\ log[i + 1].state # log[i].state
         /\ log[i + 1].state = "requested" => log[i].state # "blocked"

\* The authority will never record c (again): it has its receipt, names a
\* revision that has been superseded, or is refused.
Spent(c) ==
  \/ \E r \in receipts : r.cmd = c
  \/ ~UpToDate(c) /\ c.expected < Revision
  \/ UpToDate(c) /\ Becomes(c) = "refused"

\* c was decided on a revision read at the authority: a request that met no
\* request of the peer there.
Decided(c) ==
  /\ c.expected =< Revision
  /\ c.op = "request" /\ c.expected > 0 /\ log[c.expected].state = "requested"
       => log[c.expected].requester = c.by

\* c was decided after everything else its member has had recorded.
Newest(c) ==
  \A i \in 1..Revision :
    log[i].cmd.by = c.by /\ log[i].cmd # c => log[i].cmd.expected < c.expected

Recorded(c) == \E i \in 1..Revision : log[i].cmd = c

\* The stored command of n, and where the call of n may be without one.
Stored(n) ==
  /\ pending[n] # NoCommand => pending[n].by = n /\ Decided(pending[n]) /\ Newest(pending[n])
  /\ At(n, "read") => pending[n] = NoCommand
  /\ At(n, "answered") =>
       /\ pending[n] # NoCommand
       /\ Spent(pending[n])
       /\ call[n].result # "ok" => ~Recorded(pending[n])

\* A copy nobody waits for is of a stored command, or spent.
Strays == \A c \in late : pending[c.by] = c \/ Spent(c)

CommandInv == TypeInv /\ History /\ Strays /\ \A n \in Nodes : Stored(n)

\* c becomes the next revision.
Records(c) ==
  /\ ~Spent(c) /\ UpToDate(c) /\ Becomes(c) \notin {"refused", State}
  /\ log' = Append(log, Document(c))
  /\ \E r \in receipts' : r.cmd = c

\* An execution keeps the receipts, and changes the log only to record a
\* command that is not spent.
LEMMA ExecutesEffect ==
  ASSUME TypeOK, NEW c \in Commands, NEW result, NEW doc, Executes(c, result, doc)
  PROVE  receipts \subseteq receipts' /\ (log' = log \/ Records(c))
  <1>1. CASE UNCHANGED log /\ receipts \subseteq receipts'
    BY <1>1
  <1>2. CASE /\ \A r \in receipts : r.cmd # c
             /\ UpToDate(c)
             /\ Becomes(c) \notin {"refused", State}
             /\ log' = Append(log, Document(c))
             /\ receipts' = receipts \cup {[cmd |-> c, doc |-> Revision + 1]}
    <2>1. ~Spent(c)
      BY <1>2 DEF Spent
    <2>2. [cmd |-> c, doc |-> Revision + 1] \in receipts'
      BY <1>2
    <2>3. \E r \in receipts' : r.cmd = c
      BY <2>2
    <2> QED BY <1>2, <2>1, <2>3 DEF Records
  <1> QED BY <1>1, <1>2 DEF Executes

\* What recording a command makes of the log.
LEMMA RecordsLog ==
  ASSUME TypeOK, NEW c \in Commands, Records(c)
  PROVE  /\ Revision' = Revision + 1
         /\ \A i \in 1..Revision : log'[i] = log[i]
         /\ log'[Revision + 1] = Document(c)
         /\ State' = Becomes(c)
  <1>1. Revision \in Nat /\ Revision = Len(log) /\ log \in Seq(Documents)
    BY DEF TypeOK, Revision
  <1>2. Document(c) \in Documents
    BY DocumentOK DEF Records
  <1>3. /\ Len(log') = Len(log) + 1
        /\ \A i \in 1..Len(log) : log'[i] = log[i]
        /\ log'[Len(log) + 1] = Document(c)
    BY <1>1, <1>2 DEF Records
  <1>4. Revision' = Revision + 1
    BY <1>1, <1>3 DEF Revision
  <1>5. Document(c).state = Becomes(c)
    BY DEF Document
  <1>6. State' = log'[Revision + 1].state
    BY <1>1, <1>4 DEF State, StateAt
  <1> QED BY <1>1, <1>3, <1>4, <1>5, <1>6

\* Only a request opens a request, and never on a blocked relationship or over
\* the peer's open request.
LEMMA BecomesRequested ==
  ASSUME NEW c \in Commands, Becomes(c) = "requested"
  PROVE  c.op = "request" /\ State # "blocked" /\ ~Asked(c)
  <1>1. c.op \in Operations /\ ~Barred(c)
    BY DEF Becomes, Commands
  <1>2. c.op = "request"
    BY <1>1 DEF Becomes, Operations
  <1> QED BY <1>1, <1>2 DEF Becomes, Barred

\* A refused request meets a blocked relationship; no command that is up to
\* date on the peer's open request is a refused request.
LEMMA RefusedRequest ==
  ASSUME NEW c \in Commands, Becomes(c) = "refused", c.op = "request"
  PROVE  State = "blocked" /\ ~Asked(c)
  <1>1. Barred(c)
    BY DEF Becomes
  <1> QED BY <1>1 DEF Barred, Asked

\* A spent command stays spent.
LEMMA SpentStays ==
  ASSUME TypeOK, NEW c \in Commands, NEW d \in Commands,
         receipts \subseteq receipts', log' = log \/ Records(c), Spent(d)
  PROVE  Spent(d)'
  <1>1. Revision \in Nat /\ d.expected \in Nat
    BY RevisionIsNat DEF Commands
  <1>2. CASE \E r \in receipts : r.cmd = d
    BY <1>2 DEF Spent
  <1>3. CASE log' = log
    BY <1>2, <1>3 DEF Spent, UpToDate, Becomes, Barred, Asked, State, StateAt, Revision
  <1>4. CASE Records(c) /\ ~(\E r \in receipts : r.cmd = d)
    <2>1. Revision' = Revision + 1 /\ State' = Becomes(c)
      BY <1>4, RecordsLog
    <2>2. CASE ~UpToDate(d) /\ d.expected < Revision
      <3>1. d.expected < Revision' /\ d.expected # Revision' /\ d.expected # Revision' - 1
        BY <1>1, <2>1, <2>2
      <3> QED BY <3>1 DEF Spent, UpToDate
    <2>3. CASE UpToDate(d) /\ Becomes(d) = "refused"
      <3>1. d.expected = Revision
        BY <2>3, RefusedRequest DEF UpToDate
      <3>2. d.expected < Revision' /\ d.expected # Revision'
        BY <1>1, <2>1, <3>1
      <3>3. ~(d.op = "request" /\ Asked(d)')
        <4>1. SUFFICES ASSUME d.op = "request", Asked(d)' PROVE FALSE
          OBVIOUS
        <4>2. Becomes(c) = "requested"
          BY <2>1, <4>1 DEF Asked
        <4> QED BY <2>3, <4>1, <4>2, BecomesRequested, RefusedRequest
      <3> QED BY <3>2, <3>3 DEF Spent, UpToDate
    <2> QED BY <1>4, <2>2, <2>3 DEF Spent
  <1> QED BY <1>2, <1>3, <1>4

\* The authority's record stays what it is, whatever it executes.
LEMMA HistoryStays ==
  ASSUME TypeOK, History, NEW c \in Commands,
         receipts \subseteq receipts', log' = log \/ Records(c)
  PROVE  History'
  <1>1. Revision \in Nat /\ c.expected \in Nat
    BY RevisionIsNat DEF Commands
  <1>2. CASE log' = log
    BY <1>2 DEF History, Revision
  <1>3. CASE Records(c)
    <2>1. /\ Revision' = Revision + 1
          /\ \A i \in 1..Revision : log'[i] = log[i]
          /\ log'[Revision + 1] = Document(c)
      BY <1>3, RecordsLog
    <2>2. Document(c).cmd = c /\ Document(c).state = Becomes(c)
      BY DEF Document
    <2>3. c.expected < Revision + 1
      BY <1>1, <1>3 DEF Records, UpToDate
    <2>4. Becomes(c) = "requested" => Document(c).requester = c.by
      <3>1. SUFFICES ASSUME Becomes(c) = "requested" PROVE Document(c).requester = c.by
        OBVIOUS
      <3>2. c.op = "request" /\ State # "requested"
        BY <1>3, <3>1, BecomesRequested DEF Records
      <3> QED BY <3>2 DEF Document
    <2>5. \E r \in receipts' : r.cmd = c
      BY <1>3 DEF Records
    <2>6. Revision > 0 => /\ Becomes(c) # log[Revision].state
                          /\ Becomes(c) = "requested" => log[Revision].state # "blocked"
      <3>1. Revision > 0 => State = log[Revision].state
        BY <1>1 DEF State, StateAt
      <3> QED BY <1>3, <3>1, BecomesRequested DEF Records
    <2>7. ASSUME NEW i \in 1..Revision'
          PROVE  /\ log'[i].cmd.expected < i
                 /\ log'[i].state = "requested" => log'[i].requester = log'[i].cmd.by
                 /\ \E r \in receipts' : r.cmd = log'[i].cmd
                 /\ i < Revision' =>
                      /\ log'[i + 1].state # log'[i].state
                      /\ log'[i + 1].state = "requested" => log'[i].state # "blocked"
      <3>1. CASE i = Revision + 1
        BY <1>1, <2>1, <2>2, <2>3, <2>4, <2>5, <3>1
      <3>2. CASE i \in 1..Revision
        <4>1. log'[i] = log[i] /\ (\E r \in receipts' : r.cmd = log[i].cmd)
          BY <2>1, <3>2 DEF History
        <4>2. /\ log[i].cmd.expected < i
              /\ log[i].state = "requested" => log[i].requester = log[i].cmd.by
          BY <3>2 DEF History
        <4>3. /\ log'[i + 1].state # log[i].state
              /\ log'[i + 1].state = "requested" => log[i].state # "blocked"
          <5>1. CASE i = Revision
            BY <1>1, <2>1, <2>2, <2>6, <3>2, <5>1
          <5>2. CASE i < Revision
            <6>1. i + 1 \in 1..Revision
              BY <1>1, <3>2, <5>2
            <6> QED BY <2>1, <3>2, <5>2, <6>1 DEF History
          <5> QED BY <1>1, <3>2, <5>1, <5>2
        <4> QED BY <4>1, <4>2, <4>3
      <3> QED BY <1>1, <2>1, <3>1, <3>2
    <2> QED BY <2>7 DEF History
  <1> QED BY <1>2, <1>3

\* So does what is known of the stored command of m, when the authority
\* executes a command that is stored itself or spent.
LEMMA StoredStays ==
  ASSUME CommandInv, NEW c \in Commands, pending[c.by] = c \/ Spent(c),
         receipts \subseteq receipts', log' = log \/ Records(c),
         NEW m \in Nodes, pending'[m] = pending[m], call'[m] = call[m]
  PROVE  Stored(m)'
  <1>1. TypeOK /\ Revision \in Nat /\ Stored(m) /\ pending[m] \in Commands \cup {NoCommand}
    BY RevisionIsNat DEF CommandInv, TypeInv, TypeOK
  <1>2. CASE log' = log
    <2>1. At(m, "answered") => pending[m] \in Commands /\ Spent(pending[m])
      BY <1>1 DEF Stored
    <2>2. At(m, "answered") => Spent(pending[m])'
      BY <1>1, <1>2, <2>1, SpentStays
    <2> QED BY <1>1, <1>2, <2>2 DEF Stored, Decided, Newest, Recorded, Revision, At
  <1>3. CASE Records(c)
    <2>1. /\ Revision' = Revision + 1
          /\ \A i \in 1..Revision : log'[i] = log[i]
          /\ log'[Revision + 1].cmd = c
      <3>1. Document(c).cmd = c
        BY DEF Document
      <3> QED BY <1>1, <1>3, <3>1, RecordsLog
    <2>2. pending[c.by] = c /\ ~Spent(c)
      BY <1>3 DEF Records
    <2>3. ASSUME pending[m] # NoCommand
          PROVE  /\ pending'[m] \in Commands /\ pending'[m].by = m
                 /\ Decided(pending[m])' /\ Newest(pending[m])'
      <3>1. /\ pending[m] \in Commands /\ pending[m].by = m
            /\ Decided(pending[m]) /\ Newest(pending[m]) /\ pending[m].expected \in Nat
        BY <1>1, <2>3 DEF Stored, Commands
      <3>2. Decided(pending[m])'
        BY <1>1, <2>1, <3>1 DEF Decided
      <3>3. ASSUME NEW i \in 1..Revision', log'[i].cmd.by = m, log'[i].cmd # pending[m]
            PROVE  log'[i].cmd.expected < pending[m].expected
        <4>1. i # Revision + 1
          BY <2>1, <2>2, <3>3
        <4>2. i \in 1..Revision
          BY <1>1, <2>1, <4>1
        <4> QED BY <2>1, <3>1, <3>3, <4>2 DEF Newest
      <3>4. Newest(pending[m])'
        BY <3>1, <3>3 DEF Newest
      <3>5. pending'[m] \in Commands /\ pending'[m].by = m
        BY <3>1
      <3> QED BY <3>2, <3>4, <3>5
    <2>4. At(m, "answered") => Spent(pending[m])'
      BY <1>1, <1>3, SpentStays DEF Stored
    <2>5. At(m, "answered") /\ ~Recorded(pending[m]) => ~Recorded(pending[m])'
      <3>1. SUFFICES ASSUME At(m, "answered"), ~Recorded(pending[m]),
                            NEW i \in 1..Revision', log'[i].cmd = pending[m]
                     PROVE  FALSE
        BY DEF Recorded
      <3>2. Spent(pending[m])
        BY <1>1, <3>1 DEF Stored
      <3>3. i # Revision + 1
        BY <2>1, <2>2, <3>1, <3>2
      <3>4. i \in 1..Revision
        BY <1>1, <2>1, <3>3
      <3> QED BY <2>1, <3>1, <3>4 DEF Recorded
    <2> QED BY <1>1, <2>3, <2>4, <2>5 DEF Stored, At
  <1> QED BY <1>2, <1>3

\* The authority's record, and the stray copies, when nothing reaches the
\* authority and no stored command is given up unless it is spent.
LEMMA QuietCommand ==
  ASSUME CommandInv, UNCHANGED <<log, receipts>>,
         NEW n \in Nodes, NEW v, call' = [call EXCEPT ![n] = v],
         \A m \in Nodes \ {n} : pending'[m] = pending[m],
         \A c \in late' : c \in late \/ (pending[n] = c /\ At(n, "posted")),
         \A c \in Commands : pending[n] = c => pending'[n] = c \/ Spent(c),
         Stored(n)'
  PROVE  History' /\ Strays' /\ \A m \in Nodes : Stored(m)'
  <1>1. TypeOK /\ call \in [Nodes -> Calls] /\ late \subseteq Commands
    BY DEF CommandInv, TypeInv, TypeOK
  <1>2. History'
    BY DEF CommandInv, History, Revision
  <1>3. ASSUME NEW m \in Nodes \ {n}
        PROVE  Stored(m)'
    <2>1. call'[m] = call[m] /\ pending'[m] = pending[m]
      BY <1>1
    <2>2. Stored(m)
      BY DEF CommandInv
    <2>3. At(m, "answered") /\ Spent(pending[m]) => Spent(pending[m])'
      BY <2>1 DEF Spent, UpToDate, Becomes, Barred, Asked, State, StateAt, Revision
    <2> QED BY <2>1, <2>2, <2>3 DEF Stored, Decided, Newest, Recorded, Revision, At
  <1>4. ASSUME NEW c \in late'
        PROVE  pending'[c.by] = c \/ Spent(c)'
    <2>1. c \in Commands /\ c.by \in Nodes
      BY <1>1 DEF CommandInv, TypeInv, InHand, Commands
    <2>2. pending[c.by] = c \/ Spent(c)
      <3>1. CASE c \in late
        BY <3>1 DEF CommandInv, Strays
      <3>2. CASE pending[n] = c /\ At(n, "posted")
        <4>1. pending[n].by = n
          BY <2>1, <3>2, NodesAssumption DEF CommandInv, Stored, NoCommand
        <4> QED BY <3>2, <4>1
      <3> QED BY <3>1, <3>2
    <2>3. Spent(c) => Spent(c)'
      BY DEF Spent, UpToDate, Becomes, Barred, Asked, State, StateAt, Revision
    <2>4. pending[c.by] = c => pending'[c.by] = c \/ Spent(c)
      BY <2>1
    <2> QED BY <2>2, <2>3, <2>4
  <1> QED BY <1>2, <1>3, <1>4 DEF Strays

\* The same for a step that leaves the stored commands alone, and after which
\* the call of n reads the authority only if it has none and awaits no answer.
LEMMA CallCommand ==
  ASSUME CommandInv, UNCHANGED <<log, receipts, pending>>,
         NEW n \in Nodes, NEW v, call' = [call EXCEPT ![n] = v],
         \A c \in late' : c \in late \/ (pending[n] = c /\ At(n, "posted")),
         v.at # "answered", v.at = "read" => pending[n] = NoCommand
  PROVE  History' /\ Strays' /\ \A m \in Nodes : Stored(m)'
  <1>1. call'[n] = v
    BY DEF CommandInv, TypeInv, TypeOK
  <1>2. Stored(n)
    BY DEF CommandInv
  <1>3. Stored(n)'
    BY <1>1, <1>2 DEF Stored, Decided, Newest, Revision, At
  <1> QED BY <1>3, QuietCommand

\* A call that begins reads the authority only without a stored command.
LEMMA BegunReads ==
  ASSUME TypeOK, NEW n \in Nodes, NEW intent \in Operations \cup {"list", "poll"}
  PROVE  /\ Begun(n, intent).at # "answered"
         /\ Begun(n, intent).at = "read" => pending[n] = NoCommand
  <1>1. CASE pending[n] = NoCommand
    BY <1>1, BegunIsCall
  <1>2. CASE pending[n] # NoCommand
    BY <1>2 DEF Begun, Idle
  <1> QED BY <1>1, <1>2

\* The steps of a call that leave the stored command alone and get no answer.
LEMMA CallsOn ==
  ASSUME CommandInv, NEW n \in Nodes,
         \/ \E intent \in Operations \cup {"list", "poll"} :
              StartCommand(n, intent) \/ StartSync(n, intent)
         \/ ReadLatest(n) \/ ApplyResult(n) \/ Scan(n) \/ ApplySnapshot(n)
         \/ FetchChanges(n) \/ ApplyChange(n) \/ SaveCheckpoint(n) \/ Receive(n)
         \/ ReceiveUndecided(n) \/ Unanswered(n) \/ Crash(n)
  PROVE  History' /\ Strays' /\ \A m \in Nodes : Stored(m)'
  <1>1. TypeOK /\ call \in [Nodes -> Calls] /\ call[n] \in Calls /\ Idle \in Calls
        /\ Idle.at = "idle"
    BY IdleIsCall DEF CommandInv, TypeInv, TypeOK
  <1>2. UNCHANGED <<log, receipts, pending>>
    BY DEF StartCommand, StartSync, ReadLatest, ApplyResult, Scan, ApplySnapshot,
           FetchChanges, ApplyChange, SaveCheckpoint, Receive, ReceiveUndecided,
           Unanswered, Crash, authority, stores
  <1>3. \A c \in late' : c \in late \/ (pending[n] = c /\ At(n, "posted"))
    <2>1. CASE LeaveUnderWay(n)
      BY <2>1 DEF LeaveUnderWay
    <2>2. CASE UNCHANGED late
      BY <2>2
    <2> QED BY <2>1, <2>2 DEF StartCommand, StartSync, ReadLatest, ApplyResult, Scan,
         ApplySnapshot, FetchChanges, ApplyChange, SaveCheckpoint, Receive,
         ReceiveUndecided, Unanswered, Crash, authority
  <1> DEFINE CallSet(v) == /\ call' = [call EXCEPT ![n] = v]
                           /\ v.at # "answered"
                           /\ v.at = "read" => pending[n] = NoCommand
  <1> SUFFICES \E v : CallSet(v)
    BY <1>2, <1>3, CallCommand
  <1>4. CASE \E intent \in Operations \cup {"list", "poll"} :
               call' = [call EXCEPT ![n] = Begun(n, intent)]
    BY <1>1, <1>4, BegunReads
  <1>5. CASE End(n)
    <2>1. Ended(n).at \in {"idle", "receive"}
      BY <1>1, EndedIsCall
    <2> QED BY <1>5, <2>1 DEF End
  <1>6. CASE \E w \in Calls : call' = [call EXCEPT ![n] = w]
                              /\ w.at \in {"apply", "scan", "changes", "page", "snapshot", "idle"}
    BY <1>6
  <1>7. ASSUME NEW where \in {"apply", "changes", "snapshot", "page"},
               NEW d, NEW e, NEW g,
               \/ call' = [call EXCEPT ![n].at = where]
               \/ call' = [call EXCEPT ![n].at = where, ![n].doc = d]
               \/ call' = [call EXCEPT ![n].at = where, ![n].doc = d, ![n].to = e, ![n].more = g]
        PROVE  \E v : CallSet(v)
    <2>1. CASE call' = [call EXCEPT ![n].at = where]
      <3> DEFINE w == [call[n] EXCEPT !.at = where]
      <3>1. w.at = where /\ call' = [call EXCEPT ![n] = w]
        BY <1>1, <2>1 DEF Calls
      <3> HIDE DEF w
      <3> QED BY <3>1
    <2>2. CASE call' = [call EXCEPT ![n].at = where, ![n].doc = d]
      <3> DEFINE w == [call[n] EXCEPT !.at = where, !.doc = d]
      <3>1. w.at = where /\ call' = [call EXCEPT ![n] = w]
        BY <1>1, <2>2 DEF Calls
      <3> HIDE DEF w
      <3> QED BY <3>1
    <2>3. CASE call' = [call EXCEPT ![n].at = where, ![n].doc = d, ![n].to = e, ![n].more = g]
      <3> DEFINE w == [call[n] EXCEPT !.at = where, !.doc = d, !.to = e, !.more = g]
      <3>1. w.at = where /\ call' = [call EXCEPT ![n] = w]
        BY <1>1, <2>3 DEF Calls
      <3> HIDE DEF w
      <3> QED BY <3>1
    <2> QED BY <1>7, <2>1, <2>2, <2>3
  <1>8. CASE \E intent \in Operations \cup {"list", "poll"} :
               StartCommand(n, intent) \/ StartSync(n, intent)
    BY <1>4, <1>8 DEF StartCommand, StartSync
  <1>9. CASE Receive(n) \/ ReceiveUndecided(n)
    BY <1>4, <1>9 DEF Receive, ReceiveUndecided
  <1>10. CASE Unanswered(n)
    <2>1. CASE Goto(n, "apply")
      BY <1>7, <2>1 DEF Goto
    <2> QED BY <1>5, <1>10, <2>1 DEF Unanswered
  <1>11. CASE Crash(n)
    <2>1. call' = [call EXCEPT ![n] = Idle]
      BY <1>11 DEF Crash
    <2> QED BY <1>1, <1>6, <2>1
  <1>12. CASE ReadLatest(n)
    <2> DEFINE u == [call[n] EXCEPT !.at = "apply", !.doc = Revision]
               w == [Idle EXCEPT !.at = "scan", !.intent = call[n].intent]
    <2>1. u.at = "apply" /\ w.at = "scan"
      BY <1>1 DEF Calls
    <2>2. call' = [call EXCEPT ![n] = IF call[n].intent \in Operations THEN u ELSE w]
      BY <1>1, <1>12 DEF ReadLatest
    <2> HIDE DEF u, w
    <2> QED BY <2>1, <2>2
  <1>13. ASSUME NEW rest, ApplyDocument(n, rest), rest.at \in {"idle", "changes", "page"}
         PROVE  \E v : CallSet(v)
    BY <1>5, <1>13 DEF ApplyDocument
  <1>14. CASE ApplyResult(n)
    BY <1>1, <1>13, <1>14 DEF ApplyResult
  <1>15. CASE ApplySnapshot(n)
    <2> DEFINE w == [call[n] EXCEPT !.at = "changes"]
    <2>1. w.at = "changes" /\ ApplyDocument(n, w)
      BY <1>1, <1>15 DEF Calls, ApplySnapshot
    <2> HIDE DEF w
    <2> QED BY <1>13, <2>1
  <1>16. CASE ApplyChange(n)
    <2> DEFINE w == [call[n] EXCEPT !.doc = @ + 1]
    <2>1. w.at = "page"
      BY <1>1, <1>16 DEF Calls, ApplyChange, At
    <2>2. ApplyDocument(n, w)
      BY <1>16 DEF ApplyChange
    <2> HIDE DEF w
    <2> QED BY <1>13, <2>1, <2>2
  <1>17. CASE Scan(n)
    <2>1. CASE call' = [call EXCEPT ![n].at = "changes", ![n].doc = checkpoint[n]]
      BY <1>7, <2>1
    <2>2. CASE call' = [call EXCEPT ![n].at = IF Revision = 0 THEN "changes" ELSE "snapshot",
                                    ![n].doc = Revision]
      <3> DEFINE where == IF Revision = 0 THEN "changes" ELSE "snapshot"
      <3>1. where \in {"changes", "snapshot"} /\ call' = [call EXCEPT ![n].at = where, ![n].doc = Revision]
        BY <2>2
      <3> HIDE DEF where
      <3> QED BY <1>7, <3>1
    <2> QED BY <1>17, <2>1, <2>2 DEF Scan
  <1>18. CASE FetchChanges(n)
    <2> DEFINE last == IF call[n].doc + PageSize < Revision THEN call[n].doc + PageSize ELSE Revision
               d == call[n].doc + 1
               more == last < Revision
    <2>1. call' = [call EXCEPT ![n].at = "page", ![n].doc = d, ![n].to = last, ![n].more = more]
      BY <1>18 DEF FetchChanges
    <2> HIDE DEF last, d, more
    <2> QED BY <1>7, <2>1
  <1>19. CASE SaveCheckpoint(n)
    BY <1>5, <1>7, <1>19 DEF SaveCheckpoint
  <1> QED BY <1>8, <1>9, <1>10, <1>11, <1>12, <1>14, <1>15, <1>16, <1>17, <1>18, <1>19

\* An answered command is given up only when it is spent.
LEMMA SettleCommand ==
  ASSUME CommandInv, NEW n \in Nodes, Settle(n)
  PROVE  History' /\ Strays' /\ \A m \in Nodes : Stored(m)'
  <1>1. /\ TypeOK /\ call \in [Nodes -> Calls] /\ call[n] \in Calls
        /\ pending \in [Nodes -> Commands \cup {NoCommand}]
    BY DEF CommandInv, TypeInv, TypeOK
  <1>2. UNCHANGED <<log, receipts, late>> /\ At(n, "answered")
        /\ pending' = [pending EXCEPT ![n] = NoCommand]
    BY DEF Settle, authority
  <1>3. pending'[n] = NoCommand /\ \A m \in Nodes \ {n} : pending'[m] = pending[m]
    BY <1>1, <1>2
  <1>4. Spent(pending[n])
    BY <1>2 DEF CommandInv, Stored
  <1>5. PICK v : call' = [call EXCEPT ![n] = v] /\ v.at \in {"latest", "idle", "receive"}
    <2>1. CASE End(n)
      <3>1. Ended(n).at \in {"idle", "receive"}
        BY <1>1, EndedIsCall
      <3> QED BY <2>1, <3>1 DEF End
    <2>2. CASE Goto(n, "latest")
      <3> DEFINE w == [call[n] EXCEPT !.at = "latest"]
      <3>1. w.at = "latest" /\ call' = [call EXCEPT ![n] = w]
        BY <1>1, <2>2 DEF Calls, Goto
      <3> HIDE DEF w
      <3> QED BY <3>1
    <2> QED BY <2>1, <2>2 DEF Settle
  <1>6. call'[n] = v
    BY <1>1, <1>5
  <1>7. Stored(n)'
    BY <1>3, <1>5, <1>6 DEF Stored, At
  <1>8. /\ \A c \in late' : c \in late \/ (pending[n] = c /\ At(n, "posted"))
        /\ \A c \in Commands : pending[n] = c => pending'[n] = c \/ Spent(c)
    BY <1>2, <1>4
  <1> QED BY <1>2, <1>3, <1>5, <1>7, <1>8, QuietCommand

\* A new command is decided on what the authority has now, and replaces none.
LEMMA ExecuteNewCommand ==
  ASSUME CommandInv, NEW n \in Nodes, ExecuteNew(n)
  PROVE  History' /\ Strays' /\ \A m \in Nodes : Stored(m)'
  <1> DEFINE op == call[n].intent
             new == [by |-> n, op |-> op, expected |-> Expected(n, op), key |-> given]
             v == [call[n] EXCEPT !.at = "posted", !.ran = call[n].intent]
  <1>1. /\ TypeOK /\ Revision \in Nat /\ call \in [Nodes -> Calls] /\ call[n] \in Calls
        /\ pending \in [Nodes -> Commands \cup {NoCommand}] /\ History
        /\ log \in Seq(Documents) /\ Revision = Len(log)
    BY RevisionIsNat DEF CommandInv, TypeInv, TypeOK, Revision
  <1>2. UNCHANGED <<log, receipts, late>> /\ At(n, "read")
        /\ pending' = [pending EXCEPT ![n] = new]
    BY DEF ExecuteNew, authority
  <1>3. v.at = "posted" /\ call' = [call EXCEPT ![n] = v]
    BY <1>1 DEF ExecuteNew, Calls
  <1>4. pending[n] = NoCommand
    BY <1>2 DEF CommandInv, Stored
  <1>c. PICK c : c = new
    OBVIOUS
  <1>5. c = new /\ c.by = n /\ c.op = op /\ c.expected = Expected(n, op)
    BY <1>c
  <1> HIDE DEF v, new
  <1>6. pending'[n] = c /\ (\A m \in Nodes \ {n} : pending'[m] = pending[m])
        /\ call'[n] = v
    BY <1>1, <1>2, <1>3, <1>5
  <1>7. State = "requested" => Revision \in 1..Revision /\ State = log[Revision].state
    BY <1>1 DEF State, StateAt
  <1> DEFINE meets == op = "request" /\ State = "requested" /\ log[Revision].requester # n
  <1>8. ASSUME meets PROVE Decided(c) /\ Newest(c)
    <2>1. Expected(n, op) = Revision - 1 /\ Revision >= 1
      BY <1>1, <1>7, <1>8 DEF Expected
    <2>2. log[Revision].cmd.by # n
      BY <1>7, <1>8 DEF CommandInv, History
    <2>3. Revision - 1 > 0 => log[Revision - 1].state # "requested"
      <3>1. SUFFICES ASSUME Revision - 1 > 0 PROVE log[Revision - 1].state # "requested"
        OBVIOUS
      <3>2. Revision - 1 \in 1..Revision /\ Revision - 1 < Revision
            /\ (Revision - 1) + 1 = Revision
        BY <1>1, <3>1
      <3> QED BY <1>1, <1>7, <1>8, <3>2 DEF History
    <2>4. Decided(c)
      BY <1>1, <1>5, <2>1, <2>3 DEF Decided
    <2>5. ASSUME NEW i \in 1..Revision, log[i].cmd.by = n
          PROVE  log[i].cmd.expected < Revision - 1
      <3>1. i # Revision
        BY <2>2, <2>5
      <3>2. log[i].cmd.expected < i /\ log[i].cmd.expected \in Nat
        <4>1. log[i] \in Documents
          BY <1>1
        <4> QED BY <1>1, <4>1 DEF History, Documents, Commands
      <3> QED BY <1>1, <3>1, <3>2
    <2> QED BY <1>5, <2>1, <2>4, <2>5 DEF Newest
  <1>9. ASSUME ~meets PROVE Decided(c) /\ Newest(c)
    <2>1. Expected(n, op) = Revision
      BY <1>9 DEF Expected
    <2>2. Revision > 0 => State = log[Revision].state
      BY <1>1 DEF State, StateAt
    <2>3. Decided(c)
      BY <1>1, <1>5, <1>9, <2>1, <2>2 DEF Decided
    <2>4. ASSUME NEW i \in 1..Revision
          PROVE  log[i].cmd.expected < Revision
      <3>1. log[i].cmd.expected < i /\ log[i].cmd.expected \in Nat
        <4>1. log[i] \in Documents
          BY <1>1
        <4> QED BY <1>1, <4>1 DEF History, Documents, Commands
      <3> QED BY <1>1, <3>1
    <2> QED BY <1>5, <2>1, <2>3, <2>4 DEF Newest
  <1> HIDE DEF meets
  <1>10. Decided(c) /\ Newest(c)
    BY <1>8, <1>9
  <1>11. Stored(n)'
    <2>1. Decided(c)' /\ Newest(c)'
      BY <1>2, <1>10 DEF Decided, Newest, Revision
    <2> QED BY <1>3, <1>5, <1>6, <2>1 DEF Stored, At
  <1>12. \A d \in Commands : pending[n] # d
    <2>1. NoCommand \notin Commands
      BY NodesAssumption DEF NoCommand, Commands
    <2> QED BY <1>4, <2>1
  <1>13. /\ \A d \in late' : d \in late \/ (pending[n] = d /\ At(n, "posted"))
         /\ \A d \in Commands : pending[n] = d => pending'[n] = d \/ Spent(d)
    BY <1>2, <1>12
  <1> QED BY <1>2, <1>3, <1>6, <1>11, <1>13, QuietCommand

\* The answers of the authority: ok leaves a receipt, an error leaves it as it was.
LEMMA Answers ==
  ASSUME NEW c \in Commands, NEW result, NEW doc, Executes(c, result, doc)
  PROVE  \/ result = "ok" /\ \E r \in receipts' : r.cmd = c
         \/ /\ UNCHANGED <<log, receipts>> /\ \A r \in receipts : r.cmd # c
            /\ ~UpToDate(c) \/ (UpToDate(c) /\ Becomes(c) = "refused")
  <1>1. CASE result = "ok" /\ \E d : receipts' = receipts \cup {[cmd |-> c, doc |-> d]}
    <2>1. PICK d : receipts' = receipts \cup {[cmd |-> c, doc |-> d]}
      BY <1>1
    <2>2. [cmd |-> c, doc |-> d] \in receipts' /\ [cmd |-> c, doc |-> d].cmd = c
      BY <2>1
    <2> QED BY <1>1, <2>2
  <1>2. CASE result = "ok" /\ UNCHANGED receipts /\ \E r \in receipts : r.cmd = c
    BY <1>2
  <1>3. CASE /\ UNCHANGED <<log, receipts>> /\ \A r \in receipts : r.cmd # c
             /\ ~UpToDate(c) \/ (UpToDate(c) /\ Becomes(c) = "refused")
    BY <1>3
  <1> QED BY <1>1, <1>2, <1>3 DEF Executes

\* An answer spends the command, and an error tells that it was not recorded.
LEMMA AnswerSpends ==
  ASSUME TypeOK, History, NEW c \in Commands, Decided(c), NEW result, NEW doc,
         Executes(c, result, doc)
  PROVE  Spent(c)' /\ (result # "ok" => ~Recorded(c)')
  <1>1. Revision \in Nat /\ c.expected \in Nat
    BY RevisionIsNat DEF Commands
  <1>2. receipts \subseteq receipts' /\ (log' = log \/ Records(c))
    BY ExecutesEffect
  <1>3. CASE result = "ok" /\ \E r \in receipts' : r.cmd = c
    BY <1>3 DEF Spent
  <1>4. CASE /\ UNCHANGED <<log, receipts>> /\ \A r \in receipts : r.cmd # c
             /\ ~UpToDate(c) \/ (UpToDate(c) /\ Becomes(c) = "refused")
    <2>1. ~Recorded(c)'
      BY <1>4 DEF Recorded, History, Revision
    <2>2. Spent(c)
      <3>1. CASE ~UpToDate(c)
        <4>1. c.expected # Revision
          <5>1. SUFFICES ASSUME c.expected = Revision PROVE FALSE
            OBVIOUS
          <5>2. c.op = "request" /\ State = "requested" /\ log[Revision].requester # c.by
            BY <3>1, <5>1 DEF UpToDate, Asked
          <5>3. Revision > 0 /\ log[Revision].state = "requested"
            BY <1>1, <5>2 DEF State, StateAt
          <5> QED BY <5>1, <5>2, <5>3 DEF Decided
        <4>2. c.expected < Revision
          BY <1>1, <4>1 DEF Decided
        <4> QED BY <3>1, <4>2 DEF Spent
      <3>2. CASE UpToDate(c) /\ Becomes(c) = "refused"
        BY <3>2 DEF Spent
      <3> QED BY <1>4, <3>1, <3>2
    <2>3. Spent(c)'
      BY <1>2, <2>2, SpentStays
    <2> QED BY <2>1, <2>3
  <1> QED BY <1>3, <1>4, Answers

\* A command that reaches the authority while its caller waits for the answer.
LEMMA DeliverCommand ==
  ASSUME CommandInv, NEW n \in Nodes, Deliver(n)
  PROVE  History' /\ Strays' /\ \A m \in Nodes : Stored(m)'
  <1>1. /\ TypeOK /\ call \in [Nodes -> Calls] /\ call[n] \in Calls /\ History
        /\ pending[n] \in Commands /\ late \subseteq Commands
    BY DEF CommandInv, TypeInv, TypeOK, InHand, Deliver
  <1>2. PICK c : c = pending[n]
    OBVIOUS
  <1>3. PICK result \in {"ok", "conflict", "refused"}, doc \in 0..(Revision + 1) :
          /\ Executes(c, result, doc)
          /\ call' = [call EXCEPT ![n].at = "answered", ![n].result = result, ![n].doc = doc]
    BY <1>2 DEF Deliver
  <1>4. c # NoCommand /\ c \in Commands
    BY <1>1, <1>2, NodesAssumption DEF NoCommand, Commands
  <1>5. c.by = n /\ Decided(c) /\ Newest(c)
    BY <1>2, <1>4 DEF CommandInv, Stored
  <1>6. UNCHANGED <<late, pending>>
    BY DEF Deliver, stores
  <1>7. receipts \subseteq receipts' /\ (log' = log \/ Records(c))
    BY <1>1, <1>3, <1>4, ExecutesEffect
  <1>8. History'
    BY <1>1, <1>4, <1>7, HistoryStays
  <1>9. \A d \in Commands : Spent(d) => Spent(d)'
    BY <1>1, <1>4, <1>7, SpentStays
  <1>10. Strays'
    BY <1>1, <1>6, <1>9 DEF CommandInv, Strays
  <1>11. ASSUME NEW m \in Nodes \ {n}
         PROVE  Stored(m)'
    <2>1. call'[m] = call[m] /\ pending'[m] = pending[m] /\ pending[c.by] = c
      BY <1>1, <1>2, <1>3, <1>5, <1>6
    <2> QED BY <1>4, <1>7, <2>1, StoredStays
  <1>12. Stored(n)'
    <2>1. call'[n].at = "answered" /\ call'[n].result = result
      BY <1>1, <1>3 DEF Calls
    <2>2. Spent(c)' /\ (result # "ok" => ~Recorded(c)')
      BY <1>1, <1>3, <1>4, <1>5, AnswerSpends
    <2>3. Decided(c)' /\ Newest(c)'
      <3>1. CASE log' = log
        BY <1>5, <3>1 DEF Decided, Newest, Revision
      <3>2. CASE Records(c)
        <4>1. /\ Revision' = Revision + 1
              /\ \A i \in 1..Revision : log'[i] = log[i]
              /\ log'[Revision + 1] = Document(c)
          BY <1>1, <1>4, <3>2, RecordsLog
        <4>2. Document(c).cmd = c /\ Revision \in Nat /\ c.expected \in Nat
          BY <1>1, <1>4, RevisionIsNat DEF Document, Commands
        <4>3. Decided(c)'
          BY <1>5, <4>1, <4>2 DEF Decided
        <4>4. ASSUME NEW i \in 1..Revision', log'[i].cmd.by = c.by, log'[i].cmd # c
              PROVE  log'[i].cmd.expected < c.expected
          <5>1. i \in 1..Revision
            BY <4>1, <4>2, <4>4
          <5> QED BY <1>5, <4>1, <4>4, <5>1 DEF Newest
        <4> QED BY <4>3, <4>4 DEF Newest
      <3> QED BY <1>7, <3>1, <3>2
    <2>4. pending'[n] = c
      BY <1>2, <1>6
    <2> QED BY <1>4, <1>5, <2>1, <2>2, <2>3, <2>4 DEF Stored, At
  <1> QED BY <1>8, <1>10, <1>11, <1>12

\* A copy that reaches the authority when nobody waits for it.
LEMMA DeliverLateCommand ==
  ASSUME CommandInv, NEW c \in late, DeliverLate(c)
  PROVE  History' /\ Strays' /\ \A m \in Nodes : Stored(m)'
  <1>1. TypeOK /\ History /\ late \subseteq Commands /\ c \in Commands
    BY DEF CommandInv, TypeInv, TypeOK
  <1>2. PICK result \in {"ok", "conflict", "refused"}, doc \in 0..(Revision + 1) :
          Executes(c, result, doc)
    BY DEF DeliverLate
  <1>3. receipts \subseteq receipts' /\ (log' = log \/ Records(c))
    BY <1>1, <1>2, ExecutesEffect
  <1>4. UNCHANGED <<pending, call>> /\ late' \subseteq late
    BY DEF DeliverLate, stores
  <1>5. History' /\ \A d \in Commands : Spent(d) => Spent(d)'
    BY <1>1, <1>3, HistoryStays, SpentStays
  <1>6. pending[c.by] = c \/ Spent(c)
    BY DEF CommandInv, Strays
  <1>7. \A m \in Nodes : Stored(m)'
    BY <1>1, <1>3, <1>4, <1>6, StoredStays
  <1>8. Strays'
    BY <1>1, <1>4, <1>5 DEF CommandInv, Strays
  <1> QED BY <1>5, <1>7, <1>8

\* Steps that leave the commands and the calls alone.
LEMMA AsideCommand ==
  ASSUME CommandInv, NEW n \in Nodes,
         Send(n) \/ RefreshLoad(n) \/ RefreshSave(n) \/ UNCHANGED vars
  PROVE  History' /\ Strays' /\ \A m \in Nodes : Stored(m)'
  <1>1. UNCHANGED <<log, receipts, late, pending, call>>
    BY DEF Send, RefreshLoad, RefreshSave, authority, stores, vars
  <1>2. \A c \in late : Spent(c) => Spent(c)'
    BY <1>1 DEF Spent, UpToDate, Becomes, Barred, Asked, State, StateAt, Revision
  <1>3. \A m \in Nodes : Spent(pending[m]) => Spent(pending[m])'
    BY <1>1 DEF Spent, UpToDate, Becomes, Barred, Asked, State, StateAt, Revision
  <1>4. \A m \in Nodes : Stored(m)'
    BY <1>1, <1>3 DEF CommandInv, Stored, Decided, Newest, Recorded, Revision, At
  <1>5. History' /\ Strays'
    BY <1>1, <1>2 DEF CommandInv, History, Strays, Revision
  <1> QED BY <1>4, <1>5

\* Every step keeps what is known of the commands.
LEMMA CommandNext == CommandInv /\ [Next]_vars => CommandInv'
  <1> SUFFICES ASSUME CommandInv, [Next]_vars PROVE CommandInv'
    OBVIOUS
  <1>1. TypeInv'
    BY NextOK DEF CommandInv
  <1> SUFFICES History' /\ Strays' /\ \A m \in Nodes : Stored(m)'
    BY <1>1 DEF CommandInv
  <1>2. CASE \E n \in Nodes :
               \/ \E op \in Intents \cap Operations : StartCommand(n, op)
               \/ \E intent \in Intents \ Operations : StartSync(n, intent)
    <2>1. Intents \subseteq Operations \cup {"list", "poll"}
      BY IntentsAssumption
    <2>2. \E n \in Nodes : \E intent \in Operations \cup {"list", "poll"} :
            StartCommand(n, intent) \/ StartSync(n, intent)
      BY <1>2, <2>1
    <2> QED BY <2>2, CallsOn
  <1>3. CASE \E n \in Nodes : Step(n)
    BY <1>3, ExecuteNewCommand, DeliverCommand, SettleCommand, CallsOn DEF Step
  <1>4. CASE \E n \in Nodes : \/ Send(n) \/ ReceiveUndecided(n) \/ Unanswered(n) \/ Crash(n)
                              \/ RefreshLoad(n) \/ RefreshSave(n)
    BY <1>4, AsideCommand, CallsOn
  <1>5. CASE \E c \in late : DeliverLate(c)
    BY <1>5, DeliverLateCommand
  <1>6. CASE UNCHANGED vars
    <2>1. PICK n \in Nodes : TRUE
      BY NodesAssumption
    <2> QED BY <1>6, <2>1, AsideCommand
  <1> QED BY <1>2, <1>3, <1>4, <1>5, <1>6 DEF Next

\* No command is stored, under way or recorded initially.
LEMMA CommandInit == Init => CommandInv
  <1> SUFFICES ASSUME Init PROVE CommandInv
    OBVIOUS
  <1>1. Revision = 0 /\ late = {}
    BY DEF Init, Revision
  <1>2. \A n \in Nodes : pending[n] = NoCommand /\ call[n].at = "idle"
    BY DEF Init, Idle
  <1>3. History /\ Strays
    BY <1>1 DEF History, Strays
  <1>4. \A n \in Nodes : Stored(n)
    BY <1>2 DEF Stored, At
  <1> QED BY <1>3, <1>4, InitOK DEF CommandInv

\* What is known of the commands holds in every reachable state, whatever is
\* lost, duplicated, late or interrupted: relationship-service keeps a command
\* until the authority can no longer record it.
THEOREM CommandInvariance == Spec => []CommandInv
  BY CommandInit, CommandNext, PTL DEF Spec

\* A command that ends with an error that is not retryable has changed nothing:
\* every earlier attempt that got through is answered by its receipt, and no
\* other command of the member says the same.
THEOREM FailedCommandsHadNoEffect == Spec => []FailedCommandHadNoEffect
  <1>1. CommandInv => FailedCommandHadNoEffect
    <2> SUFFICES ASSUME CommandInv, NEW n \in Nodes, At(n, "answered"), call[n].result # "ok",
                        NEW i \in 1..Revision
                 PROVE  [log[i].cmd EXCEPT !.key = 0] # [pending[n] EXCEPT !.key = 0]
      BY DEF FailedCommandHadNoEffect
    <2> DEFINE c == pending[n]
               e == log[i].cmd
    <2>1. c \in Commands /\ e \in Commands
      <3>1. log \in Seq(Documents) /\ c \in Commands \cup {NoCommand} /\ c # NoCommand
        BY DEF CommandInv, TypeInv, TypeOK, Stored
      <3>2. log[i] \in Documents
        BY <3>1 DEF Revision
      <3> QED BY <3>1, <3>2 DEF Documents
    <2>2. e # c /\ (e.by = c.by => e.expected < c.expected)
      BY DEF CommandInv, Stored, Recorded, Newest
    <2> HIDE DEF c, e
    <2>3. e.by # c.by \/ e.expected # c.expected
      BY <2>1, <2>2 DEF Commands
    <2>4. /\ [c EXCEPT !.key = 0].by = c.by /\ [c EXCEPT !.key = 0].expected = c.expected
          /\ [e EXCEPT !.key = 0].by = e.by /\ [e EXCEPT !.key = 0].expected = e.expected
      BY <2>1 DEF Commands
    <2>5. [e EXCEPT !.key = 0] # [c EXCEPT !.key = 0]
      BY <2>3, <2>4
    <2> QED BY <2>5 DEF c, e
  <1> QED BY <1>1, CommandInvariance, PTL

\* A command takes effect only while its member still has it pending: one that
\* sendPending has given up never changes the relationship later, however long
\* a copy of it was under way.
THEOREM OnlyStoredCommandsTakeEffect == Spec => OnlyPendingCommandsTakeEffect
  <1> DEFINE A == Revision' > Revision => LET c == log'[Revision'].cmd IN pending[c.by] = c
  <1>1. CommandInv /\ [Next]_vars => [A]_vars
    <2> SUFFICES ASSUME CommandInv, Next, Revision' > Revision
                 PROVE  pending[log'[Revision'].cmd.by] = log'[Revision'].cmd
      OBVIOUS
    <2>1. TypeOK /\ Revision \in Nat /\ late \subseteq Commands
      BY RevisionIsNat DEF CommandInv, TypeInv, TypeOK
    <2>2. log' # log
      BY <2>1 DEF Revision
    <2>3. ASSUME NEW c \in Commands, pending[c.by] = c \/ Spent(c), NEW result, NEW doc,
                 Executes(c, result, doc)
          PROVE  pending[log'[Revision'].cmd.by] = log'[Revision'].cmd
      <3>1. Records(c)
        BY <2>1, <2>2, <2>3, ExecutesEffect
      <3>2. log'[Revision'] = Document(c)
        BY <2>1, <3>1, RecordsLog
      <3>3. Document(c).cmd = c /\ pending[c.by] = c
        BY <2>3, <3>1 DEF Document, Records
      <3> QED BY <3>2, <3>3
    <2>4. ASSUME NEW n \in Nodes, Deliver(n)
          PROVE  pending[log'[Revision'].cmd.by] = log'[Revision'].cmd
      <3>1. pending[n] \in Commands /\ pending[n] # NoCommand
        BY <2>4, NodesAssumption DEF CommandInv, TypeInv, InHand, Deliver, NoCommand, Commands
      <3>2. pending[n].by = n
        BY <3>1 DEF CommandInv, Stored
      <3>3. \E result, doc : Executes(pending[n], result, doc)
        BY <2>4 DEF Deliver
      <3> QED BY <2>3, <3>1, <3>2, <3>3
    <2>5. ASSUME NEW c \in late, DeliverLate(c)
          PROVE  pending[log'[Revision'].cmd.by] = log'[Revision'].cmd
      <3>1. c \in Commands /\ (pending[c.by] = c \/ Spent(c))
        BY <2>1 DEF CommandInv, Strays
      <3>2. \E result, doc : Executes(c, result, doc)
        BY <2>5 DEF DeliverLate
      <3> QED BY <2>3, <3>1, <3>2
    <2>6. (\E n \in Nodes : Deliver(n)) \/ (\E c \in late : DeliverLate(c)) \/ log' = log
      BY DEF Next, Step, StartCommand, StartSync, ExecuteNew, Settle, ReadLatest, ApplyResult,
         Scan, ApplySnapshot, FetchChanges, ApplyChange, SaveCheckpoint, Receive, Send,
         ReceiveUndecided, Unanswered, Crash, RefreshLoad, RefreshSave, authority
    <2> QED BY <2>2, <2>4, <2>5, <2>6
  <1> QED BY <1>1, CommandInit, CommandNext, PTL DEF Spec, OnlyPendingCommandsTakeEffect

=============================================================================
