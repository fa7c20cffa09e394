---------------------------- MODULE NetworkProofs ----------------------------
(***************************************************************************)
(* Theorems about the components of MCNetwork, for any number of Tasks,    *)
(* limits and times: work is authorized once and runs on a registered      *)
(* connector within the limits, the background work goes on, what the      *)
(* runtime says of the Network agrees with what the Network holds, and a   *)
(* profile that says it is migrated is whole.                              *)
(***************************************************************************)
EXTENDS MCNetwork, FiniteSetTheorems, SequenceTheorems, TLAPS

------------------------------------------------------------------------------
(* Queues                                                                    *)

(* The positions that stay are numbered without gaps: counting those up to   *)
(* one is an injection into as many numbers, hence a surjection.             *)
LEMMA KeptAreNumbered ==
  ASSUME NEW n \in Nat, NEW K \in SUBSET (1 .. n)
  PROVE  /\ Cardinality(K) \in Nat
         /\ \A j \in 1 .. Cardinality(K) : \E i \in K : Cardinality({h \in K : h <= i}) = j
         /\ \A i \in K : Cardinality({h \in K : h <= i}) \in 1 .. Cardinality(K)
         /\ \A i, j \in K : Cardinality({h \in K : h <= i}) = Cardinality({h \in K : h <= j}) => i = j
<1> DEFINE Upto(i) == {h \in K : h <= i}
<1> DEFINE m == Cardinality(K)
<1>1. IsFiniteSet(1 .. n)
  BY FS_Interval
<1>2. IsFiniteSet(K) /\ m \in Nat
  BY <1>1, FS_Subset, FS_CardinalityType
<1>3. \A i \in K : IsFiniteSet(Upto(i)) /\ Cardinality(Upto(i)) \in Nat /\ Cardinality(Upto(i)) <= m
  <2> SUFFICES ASSUME NEW i \in K
               PROVE IsFiniteSet(Upto(i)) /\ Cardinality(Upto(i)) \in Nat /\ Cardinality(Upto(i)) <= m
    OBVIOUS
  <2>1. Upto(i) \in SUBSET K
    OBVIOUS
  <2> QED BY <1>2, <2>1, FS_Subset, FS_CardinalityType
<1>4. \A i \in K : Cardinality(Upto(i)) \in 1 .. m
  <2> SUFFICES ASSUME NEW i \in K PROVE Cardinality(Upto(i)) \in 1 .. m
    OBVIOUS
  <2>1. i \in Upto(i)
    OBVIOUS
  <2>2. Cardinality(Upto(i)) # 0
    BY <1>3, <2>1, FS_EmptySet
  <2> HIDE DEF Upto
  <2> QED BY <1>2, <1>3, <2>2
<1>5. \A i, j \in K : i < j => Cardinality(Upto(i)) # Cardinality(Upto(j))
  <2> SUFFICES ASSUME NEW i \in K, NEW j \in K, i < j PROVE Cardinality(Upto(i)) # Cardinality(Upto(j))
    OBVIOUS
  <2>0. i \in Int /\ j \in Int /\ \A h \in K : h \in Int
    OBVIOUS
  <2>1. Upto(i) \in SUBSET Upto(j) /\ j \in Upto(j) /\ j \notin Upto(i)
    <3>1. \A h \in K : h <= i => h <= j
      BY <2>0
    <3>2. ~(j <= i) /\ j <= j
      BY <2>0
    <3> QED BY <3>1, <3>2
  <2>2. Upto(i) # Upto(j)
    BY <2>1
  <2>3. IsFiniteSet(Upto(j))
    BY <1>3
  <2>4. Cardinality(Upto(j)) = Cardinality(Upto(i)) => Upto(j) = Upto(i)
    <3> DEFINE A == Upto(i)
    <3> DEFINE B == Upto(j)
    <3>1. IsFiniteSet(B) /\ A \in SUBSET B
      BY <2>1, <2>3
    <3> HIDE DEF A, B
    <3>2. Cardinality(B) = Cardinality(A) => B = A
      BY <3>1, FS_Subset
    <3> QED BY <3>2 DEF A, B
  <2> QED BY <2>2, <2>4
<1> DEFINE f == [i \in K |-> Cardinality(Upto(i))]
<1>6. f \in [K -> 1 .. m]
  <2> HIDE DEF Upto
  <2> QED BY <1>4
<1>7. \A i, j \in K : f[i] = f[j] => i = j
  <2> SUFFICES ASSUME NEW i \in K, NEW j \in K, i # j PROVE f[i] # f[j]
    OBVIOUS
  <2>1. i < j \/ j < i
    OBVIOUS
  <2> HIDE DEF Upto
  <2> QED BY <1>5, <2>1
<1>8. f \in Injection(K, 1 .. m)
  <2> HIDE DEF f
  <2> QED BY <1>6, <1>7 DEF Injection, IsInjective
<1>9. IsFiniteSet(1 .. m) /\ Cardinality(1 .. m) = m
  BY <1>2, FS_Interval
<1>10. f \in Surjection(K, 1 .. m)
  <2> HIDE DEF f
  <2> QED BY <1>8, <1>9, FS_Injection
<1>11. \A j \in 1 .. m : \E i \in K : f[i] = j
  <2> HIDE DEF f
  <2> QED BY <1>10 DEF Surjection
<1> QED
  <2> HIDE DEF Upto
  <2>1. \A j \in 1 .. m : \E i \in K : Cardinality(Upto(i)) = j
    BY <1>11
  <2>2. \A i, j \in K : Cardinality(Upto(i)) = Cardinality(Upto(j)) => i = j
    BY <1>7
  <2> QED BY <1>2, <1>4, <2>1, <2>2 DEF Upto

(* Removal from a queue (removeQueued): what is left are the others, each    *)
(* as often as before.                                                       *)
LEMMA WithoutIsTheRest ==
  ASSUME NEW S, NEW q \in Seq(S), NEW gone
  PROVE  /\ Without(q, gone) \in Seq(S)
         /\ \A x : (\E j \in DOMAIN Without(q, gone) : Without(q, gone)[j] = x)
                     <=> (x \notin gone /\ \E i \in DOMAIN q : q[i] = x)
         /\ (\A i, j \in DOMAIN q : q[i] = q[j] => i = j)
              => (\A i, j \in DOMAIN Without(q, gone) : Without(q, gone)[i] = Without(q, gone)[j] => i = j)
<1> DEFINE K == Kept(q, gone)
<1> DEFINE Rank(i) == Cardinality({h \in K : h <= i})
<1> DEFINE At(j) == CHOOSE i \in K : Rank(i) = j
<1> DEFINE m == Cardinality(K)
<1> DEFINE r == Without(q, gone)
<1>1. Len(q) \in Nat /\ DOMAIN q = 1 .. Len(q) /\ \A i \in DOMAIN q : q[i] \in S
  OBVIOUS
<1>2. K \in SUBSET (1 .. Len(q))
  BY <1>1 DEF Kept
<1>3. /\ m \in Nat
      /\ \A j \in 1 .. m : \E i \in K : Rank(i) = j
      /\ \A i \in K : Rank(i) \in 1 .. m
      /\ \A i, j \in K : Rank(i) = Rank(j) => i = j
  <2> HIDE DEF K
  <2> QED BY <1>1, <1>2, KeptAreNumbered
<1>4. \A j \in 1 .. m : At(j) \in K /\ Rank(At(j)) = j
  <2> HIDE DEF K, Rank, m
  <2> QED BY <1>3
<1>5. r = [j \in 1 .. m |-> q[At(j)]]
  BY DEF Without
<1>6. \A i \in K : i \in DOMAIN q /\ q[i] \notin gone
  BY DEF Kept
<1>7. DOMAIN r = 1 .. m /\ \A j \in 1 .. m : r[j] = q[At(j)]
  <2> HIDE DEF At, m, r
  <2> QED BY <1>5
<1> HIDE DEF At, m, r
<1>8. r \in Seq(S)
  <2>1. \A j \in 1 .. m : q[At(j)] \in S
    BY <1>1, <1>4, <1>6
  <2>2. r \in [1 .. m -> S]
    BY <1>5, <2>1
  <2> QED BY <1>3, <2>2
<1>9. \A x : (\E j \in DOMAIN r : r[j] = x) => (x \notin gone /\ \E i \in DOMAIN q : q[i] = x)
  BY <1>4, <1>6, <1>7
<1>10. (\A i, j \in DOMAIN q : q[i] = q[j] => i = j) => (\A i, j \in DOMAIN r : r[i] = r[j] => i = j)
  <2> SUFFICES ASSUME \A i, j \in DOMAIN q : q[i] = q[j] => i = j,
                      NEW i \in 1 .. m, NEW j \in 1 .. m, r[i] = r[j]
               PROVE i = j
    BY <1>7
  <2>1. At(i) = At(j)
    BY <1>4, <1>6, <1>7
  <2> QED BY <1>4, <2>1
<1>11. \A x : (x \notin gone /\ \E i \in DOMAIN q : q[i] = x) => (\E j \in DOMAIN r : r[j] = x)
  <2> SUFFICES ASSUME NEW i \in DOMAIN q, q[i] \notin gone PROVE \E j \in 1 .. m : r[j] = q[i]
    BY <1>7
  <2>1. i \in K
    BY DEF Kept
  <2>2. Rank(i) \in 1 .. m /\ At(Rank(i)) = i
    <3> HIDE DEF K, Rank
    <3> QED BY <1>3, <1>4, <2>1
  <2> HIDE DEF Rank
  <2> QED BY <1>7, <2>2
<1> QED BY <1>8, <1>9, <1>10, <1>11 DEF r
------------------------------------------------------------------------------
(* Connectors, grants and queues (ConnectorRegistry)                         *)

(* What can be registered, and what a Task can run on.                       *)
Products == {CodexConnector, CodexImageConnector, CodeBuddyConnector}
            \cup {NativeConnector(d) : d \in Digests}

WorkStages == {"requested", "resolved", "granted", "refused", "waiting", "preparing",
               "running", "stopping", "closing", "over"}
Used(t) == work[t].at \in Running \cup {"waiting", "closing", "over"}

IsWork(w) ==
  /\ w = [at |-> w.at, target |-> w.target, grant |-> w.grant, by |-> w.by]
  /\ w.at \in WorkStages /\ w.by \in Products
  /\ w.grant \in [issued : Nat, expires : Nat, deadline : Nat]

RegistryTypes ==
  /\ clock \in Nat
  /\ connectors \in SUBSET Products
  /\ DOMAIN work = Work /\ work = [t \in Work |-> work[t]]
  /\ \A t \in Work : IsWork(work[t])
  /\ waiting \in Seq(Work)

(* Why a grant is single-use: what the kernel remembers of it expires when   *)
(* the grant does.                                                           *)
GrantsAreRemembered ==
  \A t \in Work : Used(t) /\ clock <= work[t].grant.expires =>
    \E g \in consumed : g.task = t /\ g.expires = work[t].grant.expires

QueuedOnce == \A i, j \in DOMAIN waiting : waiting[i] = waiting[j] => i = j

(* Every active run is within the limits, its own one included.              *)
WithinLimits ==
  /\ Cardinality(Active) <= HostLimit
  /\ \A t \in Active : Cardinality(ActiveFor(work[t].by.child)) <= LimitOf(work[t].by)

RegistryInv ==
  RegistryTypes /\ GrantsAreRemembered /\ WorkIsOnACurrentConnector /\ QueuedOnce /\ WithinLimits

(* Connectors of one child agree in everything the kernel asks of the child  *)
(* (localChildAgentFromConnectors).                                          *)
LEMMA ProductsAgree ==
  /\ \A c \in Products : c.limit \in {0, 1}
  /\ \A c, d \in Products : c.child = d.child =>
       c.limit = d.limit /\ originOf(c) = originOf(d) /\ workspacePolicyOf(c) = workspacePolicyOf(d)
<1> DEFINE Fields(c) == <<c.id, c.child, c.limit, c.origin, c.policy>>
<1>1. /\ CodexConnector.id = "openai.codex.exec" /\ CodexConnector.child = "codex" /\ CodexConnector.limit = 0
      /\ CodexConnector.origin = "default" /\ CodexConnector.policy = "default"
  BY DEF CodexConnector
<1>2. /\ CodexImageConnector.id = "openai.codex.imagegen" /\ CodexImageConnector.child = "codex"
      /\ CodexImageConnector.limit = 0 /\ CodexImageConnector.origin = "default"
      /\ CodexImageConnector.policy = "default"
  BY DEF CodexConnector, CodexImageConnector
<1>3. /\ CodeBuddyConnector.id = "tencent.codebuddy.code" /\ CodeBuddyConnector.child = "codebuddy"
      /\ CodeBuddyConnector.limit = 0 /\ CodeBuddyConnector.origin = "default"
      /\ CodeBuddyConnector.policy = "default"
  BY DEF CodexConnector, CodeBuddyConnector
<1>4. \A e \in Digests :
        /\ NativeConnector(e).id = "osaurus.native.teti-agent" /\ NativeConnector(e).child = "osaurus-native-teti"
        /\ NativeConnector(e).limit = 1 /\ NativeConnector(e).origin = "native_agent"
        /\ NativeConnector(e).policy = "bounded_context"
  BY DEF FacadeConnector, NativeConnector
<1> DEFINE Native(c) == \E e \in Digests : c = NativeConnector(e)
<1>5. \A c \in Products : c = CodexConnector \/ c = CodexImageConnector \/ c = CodeBuddyConnector \/ Native(c)
  BY DEF Products
<1>6. \A c \in Products : Native(c) => /\ c.child = "osaurus-native-teti" /\ c.limit = 1
                                       /\ c.origin = "native_agent" /\ c.policy = "bounded_context"
  <2> SUFFICES ASSUME NEW e \in Digests, NEW c, c = NativeConnector(e)
               PROVE  /\ c.child = "osaurus-native-teti" /\ c.limit = 1
                      /\ c.origin = "native_agent" /\ c.policy = "bounded_context"
    OBVIOUS
  <2>2. c.child = "osaurus-native-teti" /\ c.limit = 1
    BY <1>4
  <2>3. c.origin = "native_agent" /\ c.policy = "bounded_context"
    BY <1>4
  <2> QED BY <2>2, <2>3
<1> HIDE DEF Native
<1>7. \A c \in Products : c.limit \in {0, 1}
  <2> SUFFICES ASSUME NEW c \in Products PROVE c.limit \in {0, 1}
    OBVIOUS
  <2>1. CASE c = CodexConnector
    BY <1>1, <2>1
  <2>2. CASE c = CodexImageConnector
    BY <1>2, <2>2
  <2>3. CASE c = CodeBuddyConnector
    BY <1>3, <2>3
  <2>4. CASE Native(c)
    BY <1>6, <2>4
  <2> QED BY <1>5, <2>1, <2>2, <2>3, <2>4
<1>8. \A c \in Products :
        \/ c.child \in {"codex", "codebuddy"} /\ c.limit = 0 /\ c.origin = "default" /\ c.policy = "default"
        \/ /\ c.child = "osaurus-native-teti" /\ c.limit = 1 /\ c.origin = "native_agent"
           /\ c.policy = "bounded_context"
  BY <1>1, <1>2, <1>3, <1>5, <1>6
<1>9. \A c, d \in Products : c.child = d.child => c.limit = d.limit /\ c.origin = d.origin /\ c.policy = d.policy
  BY <1>8
<1> QED BY <1>7, <1>9 DEF originOf, workspacePolicyOf

(* Only finitely many Tasks run: each is one of Work.                       *)
LEMMA ActiveIsFinite ==
  ASSUME NEW A \in SUBSET Work
  PROVE  IsFiniteSet(A) /\ Cardinality(A) \in Nat
BY RegistryAssumption, FS_Subset, FS_CardinalityType

(* Fewer runs are within the limits that more were within.                   *)
LEMMA FewerRuns ==
  ASSUME RegistryInv, Active' \subseteq Active, \A u \in Active' : work'[u].by = work[u].by
  PROVE  WithinLimits'
<1>1. Active \in SUBSET Work
  BY DEF Active
<1>2. Cardinality(Active') <= Cardinality(Active)
  BY <1>1, ActiveIsFinite, FS_Subset
<1>3. Cardinality(Active') \in Nat /\ Cardinality(Active) \in Nat
  BY <1>1, ActiveIsFinite
<1>4. Cardinality(Active') <= HostLimit
  BY <1>2, <1>3, RegistryAssumption DEF RegistryInv, WithinLimits
<1>5. \A u \in Active' : Cardinality(ActiveFor(work[u].by.child)') <= LimitOf(work'[u].by)
  <2> SUFFICES ASSUME NEW u \in Active' PROVE Cardinality(ActiveFor(work[u].by.child)') <= LimitOf(work'[u].by)
    OBVIOUS
  <2>1. ActiveFor(work[u].by.child)' \in SUBSET ActiveFor(work[u].by.child)
    BY DEF ActiveFor
  <2>2. ActiveFor(work[u].by.child) \in SUBSET Work
    BY <1>1 DEF ActiveFor
  <2>3. /\ IsFiniteSet(ActiveFor(work[u].by.child))
        /\ Cardinality(ActiveFor(work[u].by.child)) \in Nat
    BY <2>2, ActiveIsFinite
  <2>4. Cardinality(ActiveFor(work[u].by.child)') <= Cardinality(ActiveFor(work[u].by.child))
    BY <2>1, <2>3, FS_Subset
  <2>5. Cardinality(ActiveFor(work[u].by.child)) <= LimitOf(work[u].by)
    BY DEF RegistryInv, WithinLimits
  <2>6. work'[u].by = work[u].by
    OBVIOUS
  <2>7. IsFiniteSet(ActiveFor(work[u].by.child)') /\ Cardinality(ActiveFor(work[u].by.child)') \in Nat
    BY <2>1, <2>3, FS_Subset, FS_CardinalityType
  <2>8. LimitOf(work[u].by) \in Nat
    <3>1. u \in Work
      BY DEF Active
    <3>2. work[u].by \in Products
      BY <3>1 DEF RegistryInv, RegistryTypes, IsWork
    <3> QED BY <3>2, ProductsAgree, RegistryAssumption DEF LimitOf
  <2> HIDE DEF RegistryInv
  <2> QED BY <2>3, <2>4, <2>5, <2>6, <2>7, <2>8
<1> QED BY <1>4, <1>5 DEF WithinLimits

(* A run may be added where the limits leave room for one on its connector.  *)
LEMMA OneMoreRun ==
  ASSUME RegistryInv, RegistryTypes', NEW t \in Work, NEW c \in Products, NEW A \in SUBSET Active, t \notin A,
         Active' = A \cup {t}, work'[t].by = c, \A u \in A : work'[u].by = work[u].by,
         MayStart(c, A)
  PROVE  WithinLimits'
<1>1. A \in SUBSET Work /\ Active \in SUBSET Work
  BY DEF Active
<1>2. IsFiniteSet(A) /\ Cardinality(A) \in Nat
  BY <1>1, ActiveIsFinite
<1>3. Cardinality(Active') <= HostLimit
  <2>1. Cardinality(A \cup {t}) = Cardinality(A) + 1
    BY <1>2, FS_AddElement
  <2>2. Cardinality(A) < HostLimit
    BY DEF MayStart
  <2> QED BY <1>2, <2>1, <2>2, RegistryAssumption
<1>4. ASSUME NEW u \in Active' PROVE Cardinality(ActiveFor(work[u].by.child)') <= LimitOf(work'[u].by)
  <2>1. PICK d \in Products : d = work'[u].by
    BY <1>1, <1>4 DEF RegistryTypes, IsWork
  <2> DEFINE Same == {v \in Active' : work'[v].by.child = d.child}
  <2> DEFINE Of == {v \in A : work[v].by.child = d.child}
  <2>2. ActiveFor(work[u].by.child)' = Same
    BY <2>1 DEF ActiveFor
  <2>3. IsFiniteSet(Of) /\ Cardinality(Of) \in Nat
    <3>1. Of \in SUBSET Work
      BY <1>1
    <3> QED BY <3>1, ActiveIsFinite
  <2>4. LimitOf(d) \in Nat
    BY <2>1, ProductsAgree, RegistryAssumption DEF LimitOf
  <2>5. CASE d.child = c.child
    <3>1. Same = Of \cup {t}
      BY <2>5
    <3>2. Cardinality(Of \cup {t}) = Cardinality(Of) + 1
      <4>1. t \notin Of
        OBVIOUS
      <4> HIDE DEF Of
      <4> QED BY <2>3, <4>1, FS_AddElement
    <3>3. Cardinality(Of) < LimitOf(c)
      BY <2>5 DEF MayStart
    <3>4. c.limit = d.limit
      BY <2>5, ProductsAgree
    <3>5. LimitOf(c) = LimitOf(d)
      BY <3>4 DEF LimitOf
    <3>6. Cardinality(Same) <= LimitOf(d)
      <4> HIDE DEF Of, Same
      <4> QED BY <2>3, <2>4, <3>1, <3>2, <3>3, <3>5
    <3> QED BY <2>1, <2>2, <3>6
  <2>6. CASE d.child # c.child
    <3>1. u \in A /\ work[u].by = d
      BY <1>4, <2>1, <2>6
    <3>2. Same = Of
      BY <2>6
    <3>3. Of \in SUBSET ActiveFor(d.child)
      BY DEF ActiveFor
    <3>4. Cardinality(ActiveFor(d.child)) <= LimitOf(d)
      BY <3>1 DEF RegistryInv, WithinLimits
    <3>5. IsFiniteSet(ActiveFor(d.child)) /\ Cardinality(ActiveFor(d.child)) \in Nat
      <4>1. ActiveFor(d.child) \in SUBSET Work
        BY <1>1 DEF ActiveFor
      <4> QED BY <4>1, ActiveIsFinite
    <3>6. Cardinality(Of) <= Cardinality(ActiveFor(d.child))
      <4> HIDE DEF Of
      <4> QED BY <3>3, <3>5, FS_Subset
    <3>7. Cardinality(Same) <= LimitOf(d)
      <4> HIDE DEF Of, Same
      <4> QED BY <2>3, <2>4, <3>2, <3>4, <3>5, <3>6
    <3> QED BY <2>1, <2>2, <3>7
  <2> QED BY <2>5, <2>6
<1> QED BY <1>3, <1>4 DEF WithinLimits

(* A Task that neither was nor becomes queued moves; it keeps its grant and  *)
(* its connector once it has used the one or runs on the other.              *)
LEMMA OneMoves ==
  ASSUME RegistryInv, NEW t \in Work, NEW w, IsWork(w), work' = [work EXCEPT ![t] = w],
         UNCHANGED <<clock, connectors, waiting, consumed>>,
         work[t].at # "waiting", w.at # "waiting",
         w.at \in Running \cup {"closing", "over"} => Used(t) /\ w.grant = work[t].grant,
         w.at \in {"preparing", "running"} => work[t].at \in {"preparing", "running"} /\ w.by = work[t].by,
         w.at \in Running \cup {"closing"} => t \in Active /\ w.by = work[t].by
  PROVE  RegistryInv'
<1>1. work'[t] = w /\ \A u \in Work : u # t => work'[u] = work[u]
  BY DEF RegistryInv, RegistryTypes
<1>2. RegistryTypes'
  BY DEF RegistryInv, RegistryTypes
<1>3. GrantsAreRemembered'
  <2> SUFFICES ASSUME NEW u \in Work, Used(u)', clock' <= work'[u].grant.expires
               PROVE \E g \in consumed' : g.task = u /\ g.expires = work'[u].grant.expires
    BY DEF GrantsAreRemembered
  <2>1. Used(u) /\ work'[u].grant = work[u].grant
    BY <1>1 DEF Used
  <2> QED BY <2>1 DEF RegistryInv, GrantsAreRemembered
<1>4. WorkIsOnACurrentConnector'
  BY <1>1 DEF RegistryInv, WorkIsOnACurrentConnector
<1>5. QueuedOnce'
  BY DEF RegistryInv, QueuedOnce
<1>6. Active' \subseteq Active /\ \A u \in Active' : work'[u].by = work[u].by
  BY <1>1 DEF Active
<1> QED BY <1>2, <1>3, <1>4, <1>5, <1>6, FewerRuns DEF RegistryInv

(* A Task's stage changes, and its grant and its connector stay.            *)
LEMMA AtBecomes ==
  ASSUME NEW r, IsWork(r), NEW a \in WorkStages, NEW w, w = [r EXCEPT !.at = a]
  PROVE  IsWork(w) /\ w.at = a /\ w.grant = r.grant /\ w.by = r.by
<1>1. w = [at |-> a, target |-> r.target, grant |-> r.grant, by |-> r.by]
  BY Zenon DEF IsWork
<1> QED BY <1>1 DEF IsWork

(* approve: a target, then a grant, or nothing; and what a run does between  *)
(* its start and its finally.                                                *)
LEMMA QuietStepsKeep ==
  ASSUME RegistryInv, NEW t \in Work,
         \/ Resolve(t) \/ createExecutionSpec(t) \/ RunEnds(t)
         \/ \E d \in 1 .. DeadlineLife : prepareExecution(t, clock + d)
  PROVE  RegistryInv'
<1>0. IsWork(work[t]) /\ clock \in Nat
  BY DEF RegistryInv, RegistryTypes
<1>1. ASSUME NEW a \in WorkStages, NEW tg, NEW w, w = [work[t] EXCEPT !.at = a, !.target = tg]
      PROVE  IsWork(w) /\ w.at = a /\ w.grant = work[t].grant /\ w.by = work[t].by
  <2>1. w = [at |-> a, target |-> tg, grant |-> work[t].grant, by |-> work[t].by]
    BY <1>0, <1>1, Zenon DEF IsWork
  <2> QED BY <1>0, <2>1 DEF IsWork
<1>2. ASSUME Resolve(t) PROVE RegistryInv'
  <2> DEFINE c == resolveTarget(wanted[t])
  <2>0. PICK tg : tg = [id |-> c.id, child |-> c.child]
    OBVIOUS
  <2>1. PICK w : w = [work[t] EXCEPT !.at = "resolved", !.target = tg]
    OBVIOUS
  <2>2. IsWork(w) /\ w.at = "resolved"
    <3>1. "resolved" \in WorkStages
      BY DEF WorkStages
    <3> QED BY <1>1, <2>1, <3>1
  <2>3. /\ work' = [work EXCEPT ![t] = w] /\ work[t].at = "requested"
        /\ UNCHANGED <<clock, connectors, waiting, consumed>>
    BY <1>2, <2>0, <2>1 DEF Resolve, WorkBecomes
  <2> QED BY <2>2, <2>3, OneMoves DEF Running
<1>3. ASSUME NEW a \in WorkStages, NEW w, w = [work[t] EXCEPT !.at = a]
      PROVE  IsWork(w) /\ w.at = a /\ w.grant = work[t].grant /\ w.by = work[t].by
  BY <1>0, <1>3, AtBecomes
<1>4. ASSUME createExecutionSpec(t) PROVE RegistryInv'
  <2>1. PICK a \in {"running", "closing"} : work' = [work EXCEPT ![t] = [work[t] EXCEPT !.at = a]]
    BY <1>4 DEF createExecutionSpec, WorkBecomes
  <2>2. PICK w : w = [work[t] EXCEPT !.at = a]
    OBVIOUS
  <2>3. IsWork(w) /\ w.at = a /\ w.grant = work[t].grant /\ w.by = work[t].by
    BY <1>3, <2>2 DEF WorkStages
  <2>4. work[t].at = "preparing" /\ UNCHANGED <<clock, connectors, waiting, consumed>>
    BY <1>4 DEF createExecutionSpec
  <2> QED BY <2>1, <2>2, <2>3, <2>4, OneMoves DEF Running, Active, Used
<1>5. ASSUME RunEnds(t) PROVE RegistryInv'
  <2>1. PICK w : w = [work[t] EXCEPT !.at = "closing"]
    OBVIOUS
  <2>2. IsWork(w) /\ w.at = "closing" /\ w.grant = work[t].grant /\ w.by = work[t].by
    BY <1>3, <2>1 DEF WorkStages
  <2>3. /\ work' = [work EXCEPT ![t] = w] /\ work[t].at \in {"running", "stopping"}
        /\ UNCHANGED <<clock, connectors, waiting, consumed>>
    BY <1>5, <2>1 DEF RunEnds, WorkBecomes
  <2> QED BY <2>2, <2>3, OneMoves DEF Running, Active, Used
<1>6. ASSUME NEW d \in 1 .. DeadlineLife, prepareExecution(t, clock + d) PROVE RegistryInv'
  <2>1. /\ work[t].at = "resolved" /\ UNCHANGED <<clock, connectors, waiting, consumed>>
        /\ \E w : /\ work' = [work EXCEPT ![t] = w]
                  /\ w \in {NoWork, [work[t] EXCEPT !.at = "granted", !.grant = Grant(clock + d)]}
    BY <1>6 DEF prepareExecution, WorkBecomes
  <2>2. PICK w : /\ work' = [work EXCEPT ![t] = w]
                 /\ w \in {NoWork, [work[t] EXCEPT !.at = "granted", !.grant = Grant(clock + d)]}
    BY <2>1
  <2>3. CASE w = NoWork
    <3>1. IsWork(w) /\ w.at = "requested"
      BY <2>3 DEF IsWork, NoWork, WorkStages, Products
    <3> QED BY <2>1, <2>2, <3>1, OneMoves DEF Running
  <2>4. CASE w = [work[t] EXCEPT !.at = "granted", !.grant = Grant(clock + d)]
    <3>1. w = [at |-> "granted", target |-> work[t].target, grant |-> Grant(clock + d), by |-> work[t].by]
      BY <1>0, <2>4, Zenon DEF IsWork
    <3>2. Grant(clock + d) \in [issued : Nat, expires : Nat, deadline : Nat]
      BY <1>0, RegistryAssumption DEF Grant
    <3>3. IsWork(w) /\ w.at = "granted"
      BY <1>0, <3>1, <3>2 DEF IsWork, WorkStages
    <3> QED BY <2>1, <2>2, <3>3, OneMoves DEF Running
  <2> QED BY <2>2, <2>3, <2>4
<1> QED BY <1>2, <1>4, <1>5, <1>6

(* Time passes, and connectors come.                                         *)
LEMMA TickAndRegisterKeep ==
  ASSUME RegistryInv, Tick \/ (\E cs \in SUBSET Products : registerAll(cs))
  PROVE  RegistryInv'
<1>1. /\ UNCHANGED <<work, waiting, consumed>> /\ connectors \subseteq connectors'
      /\ connectors' \in SUBSET Products /\ clock' \in Nat /\ clock <= clock'
  BY DEF Tick, registerAll, RegistryInv, RegistryTypes
<1>2. RegistryTypes'
  BY <1>1 DEF RegistryInv, RegistryTypes
<1>3. GrantsAreRemembered'
  <2> SUFFICES ASSUME NEW u \in Work, Used(u)', clock' <= work'[u].grant.expires
               PROVE \E g \in consumed' : g.task = u /\ g.expires = work'[u].grant.expires
    BY DEF GrantsAreRemembered
  <2>1. work[u].grant.expires \in Nat /\ clock \in Nat
    BY DEF RegistryInv, RegistryTypes, IsWork
  <2>2. Used(u) /\ clock <= work[u].grant.expires
    BY <1>1, <2>1 DEF Used
  <2> QED BY <1>1, <2>2 DEF RegistryInv, GrantsAreRemembered
<1>4. WorkIsOnACurrentConnector' /\ QueuedOnce'
  BY <1>1 DEF RegistryInv, WorkIsOnACurrentConnector, QueuedOnce
<1>5. Active' \subseteq Active /\ \A u \in Active' : work'[u].by = work[u].by
  BY <1>1 DEF Active
<1> QED BY <1>2, <1>3, <1>4, <1>5, FewerRuns DEF RegistryInv

(* Tasks that move keep their grants, and remain used when they were.        *)
LEMMA GrantsKeep ==
  ASSUME RegistryInv, UNCHANGED <<clock, consumed>>,
         \A u \in Work : work'[u].grant = work[u].grant /\ (Used(u)' => Used(u))
  PROVE  GrantsAreRemembered'
BY DEF RegistryInv, GrantsAreRemembered

(* The queue of the kernel without some Tasks.                               *)
LEMMA QueueWithout ==
  ASSUME RegistryInv, NEW gone, waiting' = Without(waiting, gone)
  PROVE  /\ waiting' \in Seq(Work)
         /\ \A x : (\E j \in DOMAIN waiting' : waiting'[j] = x)
                   <=> (x \notin gone /\ \E i \in DOMAIN waiting : waiting[i] = x)
         /\ QueuedOnce'
<1>1. waiting \in Seq(Work)
  BY DEF RegistryInv, RegistryTypes
<1>2. PICK q \in Seq(Work) : q = waiting
  BY <1>1
<1>3. PICK r : r = Without(q, gone)
  OBVIOUS
<1>4. r \in Seq(Work)
  BY <1>3, WithoutIsTheRest
<1>5. \A x : (\E j \in DOMAIN r : r[j] = x) <=> (x \notin gone /\ \E i \in DOMAIN q : q[i] = x)
  BY <1>3, WithoutIsTheRest
<1>6. (\A i, j \in DOMAIN q : q[i] = q[j] => i = j) => (\A i, j \in DOMAIN r : r[i] = r[j] => i = j)
  BY <1>3, WithoutIsTheRest
<1>7. waiting' = r
  BY <1>2, <1>3
<1>8. \A i, j \in DOMAIN q : q[i] = q[j] => i = j
  BY <1>2 DEF RegistryInv, QueuedOnce
<1> HIDE DEF RegistryInv
<1> QED BY <1>2, <1>4, <1>5, <1>6, <1>7, <1>8 DEF QueuedOnce

(* unregisterConnector cancels what waits for the connector and stops what   *)
(* runs on it, before another connector of the child takes its place.        *)
LEMMA UnregisterKeeps ==
  ASSUME RegistryInv, NEW id, work' = unregistered(id),
         waiting' = Without(waiting, {t \in Work : work[t].by.id = id}),
         UNCHANGED <<clock, consumed>>, connectors' \in SUBSET Products,
         \A c \in connectors : c.id # id => c \in connectors'
  PROVE  RegistryInv'
<1>1. ASSUME NEW u \in Work
      PROVE  /\ IsWork(work[u]) /\ IsWork(work'[u]) /\ work'[u].grant = work[u].grant /\ work'[u].by = work[u].by
             /\ work[u].by.id # id => work'[u].at = work[u].at
             /\ work[u].by.id = id =>
                  /\ work'[u].at \notin {"waiting", "preparing", "running"}
                  /\ work'[u].at # work[u].at => work[u].at \in Running \cup {"waiting"} /\ work'[u].at \in {"over", "stopping"}
                  /\ work'[u].at = "stopping" => work[u].at \in Running
  <2>1. IsWork(work[u])
    BY DEF RegistryInv, RegistryTypes
  <2>2. work'[u] = IF work[u].by.id # id THEN work[u]
                   ELSE IF work[u].at = "waiting" THEN [work[u] EXCEPT !.at = "over"]
                   ELSE IF work[u].at \in Running THEN [work[u] EXCEPT !.at = "stopping"]
                   ELSE work[u]
    BY Zenon DEF unregistered
  <2>3. "over" \in WorkStages /\ "stopping" \in WorkStages
    BY DEF WorkStages
  <2>4. CASE work[u].by.id # id
    BY <2>1, <2>2, <2>4
  <2>5. CASE work[u].by.id = id /\ work[u].at = "waiting"
    <3>1. work'[u] = [work[u] EXCEPT !.at = "over"]
      BY <2>2, <2>5, Zenon
    <3>2. IsWork(work'[u]) /\ work'[u].at = "over" /\ work'[u].grant = work[u].grant /\ work'[u].by = work[u].by
      BY <2>1, <2>3, <3>1, AtBecomes
    <3> QED BY <2>1, <2>5, <3>2 DEF Running
  <2>6. CASE work[u].by.id = id /\ work[u].at # "waiting" /\ work[u].at \in Running
    <3>1. work'[u] = [work[u] EXCEPT !.at = "stopping"]
      BY <2>2, <2>6, Zenon
    <3>2. IsWork(work'[u]) /\ work'[u].at = "stopping" /\ work'[u].grant = work[u].grant /\ work'[u].by = work[u].by
      BY <2>1, <2>3, <3>1, AtBecomes
    <3> QED BY <2>1, <2>6, <3>2 DEF Running
  <2>7. CASE work[u].by.id = id /\ work[u].at # "waiting" /\ work[u].at \notin Running
    <3>1. work'[u] = work[u]
      BY <2>2, <2>7, Zenon
    <3> QED BY <2>1, <2>7, <3>1 DEF Running
  <2> QED BY <2>4, <2>5, <2>6, <2>7
<1>2. /\ waiting' \in Seq(Work)
      /\ \A x : (\E j \in DOMAIN waiting' : waiting'[j] = x)
                <=> (x \notin {t \in Work : work[t].by.id = id} /\ \E i \in DOMAIN waiting : waiting[i] = x)
      /\ QueuedOnce'
  <2>1. PICK gone : gone = {t \in Work : work[t].by.id = id}
    OBVIOUS
  <2> HIDE DEF RegistryInv
  <2> QED BY <2>1, QueueWithout
<1>3. RegistryTypes'
  <2>1. DOMAIN work' = Work /\ work' = [t \in Work |-> work'[t]]
    BY DEF unregistered
  <2>2. clock' \in Nat
    BY DEF RegistryInv, RegistryTypes
  <2> QED BY <1>1, <1>2, <2>1, <2>2 DEF RegistryTypes
<1>4. GrantsAreRemembered'
  <2>1. \A u \in Work : Used(u)' => Used(u)
    BY <1>1 DEF Used, Running
  <2> QED BY <1>1, <2>1, GrantsKeep
<1>5. WorkIsOnACurrentConnector'
  <2>1. \A u \in Work : work'[u].at \in {"waiting", "preparing", "running"} => work'[u].by \in connectors'
    BY <1>1 DEF RegistryInv, WorkIsOnACurrentConnector
  <2>2. \A u \in Work : work'[u].at = "waiting" <=> work[u].at = "waiting" /\ work[u].by.id # id
    BY <1>1
  <2>3. \A u \in Work : work[u].at = "waiting" <=> \E i \in DOMAIN waiting : waiting[i] = u
    BY DEF RegistryInv, WorkIsOnACurrentConnector
  <2>4. \A u \in Work : work'[u].at = "waiting" <=> \E i \in DOMAIN waiting' : waiting'[i] = u
    BY <1>2, <2>2, <2>3
  <2> QED BY <2>1, <2>4 DEF WorkIsOnACurrentConnector
<1>6. Active' \subseteq Active /\ \A u \in Active' : work'[u].by = work[u].by
  BY <1>1 DEF Active, Running
<1> QED BY <1>2, <1>3, <1>4, <1>5, <1>6, FewerRuns DEF RegistryInv

(* The Osaurus loop replaces one configuration by another, or by none.       *)
LEMMA QualifyNativeKeeps ==
  ASSUME RegistryInv, NEW d \in Digests \cup {0}, QualifyNative(d)
  PROVE  RegistryInv'
<1> DEFINE id == NativeConnector(0).id
<1> DEFINE new == {NativeConnector(v) : v \in {d} \ {0}}
<1>1. connectors' = (connectors \ Natives) \cup new /\ UNCHANGED <<clock, consumed>>
  BY DEF QualifyNative
<1>2. connectors' \in SUBSET Products
  <2>1. new \in SUBSET Products
    BY DEF Products
  <2>2. connectors \in SUBSET Products
    BY DEF RegistryInv, RegistryTypes
  <2> QED BY <1>1, <2>1, <2>2
<1>3. \A c \in connectors : c.id # id => c \in connectors'
  BY <1>1 DEF Natives
<1>4. CASE Natives = {}
  <2>1. UNCHANGED <<work, waiting>> /\ connectors \subseteq connectors'
    BY <1>1, <1>4 DEF QualifyNative
  <2>2. RegistryTypes'
    BY <1>1, <1>2, <2>1 DEF RegistryInv, RegistryTypes
  <2>3. GrantsAreRemembered'
    BY <1>1, <2>1, GrantsKeep DEF Used
  <2>4. WorkIsOnACurrentConnector' /\ QueuedOnce'
    BY <2>1 DEF RegistryInv, WorkIsOnACurrentConnector, QueuedOnce
  <2>5. Active' \subseteq Active /\ \A u \in Active' : work'[u].by = work[u].by
    BY <2>1 DEF Active
  <2> QED BY <2>2, <2>3, <2>4, <2>5, FewerRuns DEF RegistryInv
<1>5. CASE Natives # {}
  <2>1. /\ work' = unregistered(id)
        /\ waiting' = Without(waiting, {t \in Work : work[t].by.id = id})
    BY <1>5 DEF QualifyNative
  <2> HIDE DEF id, new
  <2> QED BY <1>1, <1>2, <1>3, <2>1, UnregisterKeeps
<1> QED BY <1>4, <1>5

(* cancel: what waits leaves the queue, what runs is told to stop.           *)
LEMMA CancelKeeps ==
  ASSUME RegistryInv, NEW t \in Work, Cancel(t)
  PROVE  RegistryInv'
<1>1. PICK a \in {"over", "stopping"} :
        /\ work' = [work EXCEPT ![t] = [work[t] EXCEPT !.at = a]]
        /\ a = IF work[t].at = "waiting" THEN "over" ELSE "stopping"
  BY Zenon DEF Cancel, WorkBecomes
<1>2. PICK w : w = [work[t] EXCEPT !.at = a]
  OBVIOUS
<1>3. IsWork(w) /\ w.at = a /\ w.grant = work[t].grant /\ w.by = work[t].by
  <2>1. IsWork(work[t])
    BY DEF RegistryInv, RegistryTypes
  <2>2. a \in WorkStages
    BY DEF WorkStages
  <2> QED BY <1>2, <2>1, <2>2, AtBecomes
<1>4. work[t].at \in {"waiting", "preparing", "running"} /\ UNCHANGED <<clock, connectors, consumed>>
      /\ waiting' = Without(waiting, {t})
  BY DEF Cancel
<1>5. work'[t] = w /\ (\A u \in Work : u # t => work'[u] = work[u]) /\ DOMAIN work' = Work
      /\ work' = [u \in Work |-> work'[u]]
  BY <1>1, <1>2 DEF RegistryInv, RegistryTypes
<1>6. /\ waiting' \in Seq(Work)
      /\ \A x : (\E j \in DOMAIN waiting' : waiting'[j] = x) <=> (x # t /\ \E i \in DOMAIN waiting : waiting[i] = x)
      /\ QueuedOnce'
  <2>1. PICK gone : gone = {t}
    OBVIOUS
  <2>2. waiting' = Without(waiting, gone)
    BY <1>4, <2>1
  <2> HIDE DEF RegistryInv
  <2>3. /\ waiting' \in Seq(Work)
        /\ \A x : (\E j \in DOMAIN waiting' : waiting'[j] = x) <=> (x \notin gone /\ \E i \in DOMAIN waiting : waiting[i] = x)
        /\ QueuedOnce'
    BY <2>2, QueueWithout
  <2>4. \A x : x \notin gone <=> x # t
    BY <2>1
  <2> QED BY <2>3, <2>4
<1>7. RegistryTypes'
  BY <1>3, <1>4, <1>5, <1>6 DEF RegistryInv, RegistryTypes
<1>8. GrantsAreRemembered'
  <2>1. Used(t)
    BY <1>4 DEF Used, Running
  <2> QED BY <1>3, <1>4, <1>5, <2>1, GrantsKeep DEF Used
<1>9. WorkIsOnACurrentConnector'
  <2>1. \A u \in Work : work'[u].at \in {"waiting", "preparing", "running"} => u # t /\ work'[u] = work[u]
    BY <1>3, <1>5
  <2>2. \A u \in Work : work'[u].at \in {"waiting", "preparing", "running"} => work'[u].by \in connectors'
    BY <1>4, <2>1 DEF RegistryInv, WorkIsOnACurrentConnector
  <2>3. \A u \in Work : work[u].at = "waiting" <=> \E i \in DOMAIN waiting : waiting[i] = u
    BY DEF RegistryInv, WorkIsOnACurrentConnector
  <2>4. \A u \in Work : work'[u].at = "waiting" <=> u # t /\ work[u].at = "waiting"
    BY <1>5, <2>1
  <2>5. \A u \in Work : work'[u].at = "waiting" <=> \E i \in DOMAIN waiting' : waiting'[i] = u
    BY <1>6, <2>3, <2>4
  <2> QED BY <2>2, <2>5 DEF WorkIsOnACurrentConnector
<1>10. Active' \subseteq Active /\ \A u \in Active' : work'[u].by = work[u].by
  <2>1. work[t].at = "waiting" => t \notin Active'
    BY <1>1, <1>3, <1>5 DEF Active, Running
  <2>2. work[t].at # "waiting" => t \in Active
    BY <1>4 DEF Active, Running
  <2> QED BY <1>3, <1>5, <2>1, <2>2 DEF Active
<1> QED BY <1>6, <1>7, <1>8, <1>9, <1>10, FewerRuns DEF RegistryInv

(* What is used up is remembered, and what is remembered still counts.       *)
LEMMA GrantIsUsedUp ==
  ASSUME RegistryInv, NEW t \in Work,
         consumed' = Remembered \cup {[task |-> t, expires |-> work[t].grant.expires]},
         clock' = clock, \A u \in Work : work'[u].grant = work[u].grant,
         \A u \in Work : u # t => work'[u].at = work[u].at
  PROVE  GrantsAreRemembered'
<1> SUFFICES ASSUME NEW u \in Work, Used(u)', clock' <= work'[u].grant.expires
             PROVE \E g \in consumed' : g.task = u /\ g.expires = work'[u].grant.expires
  BY DEF GrantsAreRemembered
<1>1. CASE u = t
  <2>1. PICK g : g = [task |-> t, expires |-> work[t].grant.expires]
    OBVIOUS
  <2>2. g \in consumed' /\ g.task = t /\ g.expires = work[t].grant.expires
    BY <2>1
  <2> QED BY <1>1, <2>2
<1>2. CASE u # t
  <2>1. Used(u) /\ clock <= work[u].grant.expires
    BY <1>2 DEF Used
  <2>2. PICK g \in consumed : g.task = u /\ g.expires = work[u].grant.expires
    BY <2>1 DEF RegistryInv, GrantsAreRemembered
  <2>3. g \in Remembered
    BY <2>1, <2>2 DEF RegistryInv, RegistryTypes, IsWork, Remembered
  <2> QED BY <2>2, <2>3
<1> QED BY <1>1, <1>2

(* execute: the Task starts, joins the queue, or is refused.                 *)
LEMMA ExecuteKeeps ==
  ASSUME RegistryInv, NEW t \in Work, execute(t)
  PROVE  RegistryInv'
<1> DEFINE found == {c \in connectors : c.id = work[t].target.id}
<1>1. PICK c : c = CHOOSE d \in found : TRUE
  OBVIOUS
<1>2. IsWork(work[t]) /\ work[t].at = "granted" /\ UNCHANGED <<clock, connectors>>
  BY DEF execute, RegistryInv, RegistryTypes
<1>3. \/ /\ work' = [work EXCEPT ![t] = [work[t] EXCEPT !.at = "refused"]]
         /\ UNCHANGED <<waiting, consumed>>
      \/ /\ found # {}
         /\ consumed' = Remembered \cup {[task |-> t, expires |-> work[t].grant.expires]}
         /\ \/ /\ MayStart(c, Active) /\ UNCHANGED waiting
               /\ work' = [work EXCEPT ![t] = [work[t] EXCEPT !.at = "preparing", !.by = c]]
            \/ /\ waiting' = Append(waiting, t)
               /\ work' = [work EXCEPT ![t] = [work[t] EXCEPT !.at = "waiting", !.by = c]]
  BY <1>1, Zenon DEF execute, WorkBecomes
<1>4. CASE /\ work' = [work EXCEPT ![t] = [work[t] EXCEPT !.at = "refused"]]
           /\ UNCHANGED <<waiting, consumed>>
  <2>1. PICK w : w = [work[t] EXCEPT !.at = "refused"]
    OBVIOUS
  <2>2. "refused" \in WorkStages
    BY DEF WorkStages
  <2>3. IsWork(w) /\ w.at = "refused"
    BY <1>2, <2>1, <2>2, AtBecomes
  <2>4. work' = [work EXCEPT ![t] = w] /\ UNCHANGED <<clock, connectors, waiting, consumed>>
    BY <1>2, <1>4, <2>1
  <2> QED BY <1>2, <2>3, <2>4, OneMoves DEF Running
<1>5. ASSUME found # {}, NEW a \in {"preparing", "waiting"},
             work' = [work EXCEPT ![t] = [work[t] EXCEPT !.at = a, !.by = c]],
             consumed' = Remembered \cup {[task |-> t, expires |-> work[t].grant.expires]}
      PROVE  /\ c \in connectors /\ c \in Products /\ work'[t].at = a /\ work'[t].by = c
             /\ \A u \in Work : u # t => work'[u] = work[u]
             /\ DOMAIN work' = Work /\ work' = [u \in Work |-> work'[u]]
             /\ \A u \in Work : IsWork(work'[u])
             /\ GrantsAreRemembered'
  <2>1. PICK w : w = [work[t] EXCEPT !.at = a, !.by = c]
    OBVIOUS
  <2>2. w = [at |-> a, target |-> work[t].target, grant |-> work[t].grant, by |-> c]
    BY <1>2, <2>1, Zenon DEF IsWork
  <2>3. c \in connectors /\ c \in Products
    <3>1. c \in found
      BY <1>1, <1>5
    <3> QED BY <3>1 DEF RegistryInv, RegistryTypes
  <2>4. IsWork(w) /\ w.at = a /\ w.by = c /\ w.grant = work[t].grant
    BY <1>2, <2>2, <2>3 DEF IsWork, WorkStages
  <2>5. /\ work'[t] = w /\ (\A u \in Work : u # t => work'[u] = work[u])
        /\ DOMAIN work' = Work /\ work' = [u \in Work |-> work'[u]]
    BY <1>5, <2>1 DEF RegistryInv, RegistryTypes
  <2>6. \A u \in Work : IsWork(work'[u])
    BY <2>4, <2>5 DEF RegistryInv, RegistryTypes
  <2>7. GrantsAreRemembered'
    BY <1>2, <1>5, <2>4, <2>5, GrantIsUsedUp
  <2> QED BY <2>3, <2>4, <2>5, <2>6, <2>7
<1>6. ASSUME found # {}, MayStart(c, Active), UNCHANGED waiting,
             work' = [work EXCEPT ![t] = [work[t] EXCEPT !.at = "preparing", !.by = c]],
             consumed' = Remembered \cup {[task |-> t, expires |-> work[t].grant.expires]}
      PROVE  RegistryInv'
  <2>1. /\ c \in connectors /\ c \in Products /\ work'[t].at = "preparing" /\ work'[t].by = c
        /\ \A u \in Work : u # t => work'[u] = work[u]
        /\ DOMAIN work' = Work /\ work' = [u \in Work |-> work'[u]]
        /\ \A u \in Work : IsWork(work'[u])
        /\ GrantsAreRemembered'
    BY <1>5, <1>6
  <2>2. RegistryTypes'
    BY <1>2, <1>6, <2>1 DEF RegistryInv, RegistryTypes
  <2>3. WorkIsOnACurrentConnector'
    BY <1>2, <1>6, <2>1 DEF RegistryInv, WorkIsOnACurrentConnector
  <2>4. QueuedOnce'
    BY <1>6 DEF RegistryInv, QueuedOnce
  <2>5. Active' = Active \cup {t} /\ t \notin Active
    BY <1>2, <2>1 DEF Active, Running
  <2>6. WithinLimits'
    <3>1. \A u \in Active : work'[u].by = work[u].by
      BY <2>1, <2>5 DEF Active
    <3> QED BY <1>6, <2>1, <2>2, <2>5, <3>1, OneMoreRun
  <2> QED BY <2>1, <2>2, <2>3, <2>4, <2>6 DEF RegistryInv
<1>7. ASSUME found # {}, waiting' = Append(waiting, t),
             work' = [work EXCEPT ![t] = [work[t] EXCEPT !.at = "waiting", !.by = c]],
             consumed' = Remembered \cup {[task |-> t, expires |-> work[t].grant.expires]}
      PROVE  RegistryInv'
  <2>1. /\ c \in connectors /\ c \in Products /\ work'[t].at = "waiting" /\ work'[t].by = c
        /\ \A u \in Work : u # t => work'[u] = work[u]
        /\ DOMAIN work' = Work /\ work' = [u \in Work |-> work'[u]]
        /\ \A u \in Work : IsWork(work'[u])
        /\ GrantsAreRemembered'
    BY <1>5, <1>7
  <2>2. PICK n \in Nat : n = Len(waiting)
    BY DEF RegistryInv, RegistryTypes
  <2>3. /\ waiting' \in Seq(Work) /\ DOMAIN waiting = 1 .. n /\ DOMAIN waiting' = 1 .. n + 1
        /\ waiting'[n + 1] = t /\ \A i \in 1 .. n : waiting'[i] = waiting[i]
    BY <1>7, <2>2, AppendProperties DEF RegistryInv, RegistryTypes
  <2>4. RegistryTypes'
    BY <1>2, <2>1, <2>3 DEF RegistryInv, RegistryTypes
  <2>5. \A u \in Work : work[u].at = "waiting" <=> \E i \in DOMAIN waiting : waiting[i] = u
    BY DEF RegistryInv, WorkIsOnACurrentConnector
  <2>6. ~\E i \in DOMAIN waiting : waiting[i] = t
    BY <1>2, <2>5
  <2>7. \A u : (\E i \in DOMAIN waiting' : waiting'[i] = u)
               <=> (u = t \/ \E i \in DOMAIN waiting : waiting[i] = u)
    <3>1. \A i \in 1 .. n + 1 : i = n + 1 \/ i \in 1 .. n
      OBVIOUS
    <3>2. n + 1 \in 1 .. n + 1 /\ \A i \in 1 .. n : i \in 1 .. n + 1
      OBVIOUS
    <3> QED BY <2>3, <3>1, <3>2
  <2>8. WorkIsOnACurrentConnector'
    <3>1. \A u \in Work : work'[u].at \in {"waiting", "preparing", "running"} => work'[u].by \in connectors'
      BY <1>2, <2>1 DEF RegistryInv, WorkIsOnACurrentConnector
    <3>2. \A u \in Work : work'[u].at = "waiting" <=> \E i \in DOMAIN waiting' : waiting'[i] = u
      BY <2>1, <2>5, <2>7
    <3> QED BY <3>1, <3>2 DEF WorkIsOnACurrentConnector
  <2>9. QueuedOnce'
    <3> SUFFICES ASSUME NEW i \in 1 .. n + 1, NEW j \in 1 .. n + 1, waiting'[i] = waiting'[j] PROVE i = j
      BY <2>3 DEF QueuedOnce
    <3>1. (i = n + 1 \/ i \in 1 .. n) /\ (j = n + 1 \/ j \in 1 .. n)
      OBVIOUS
    <3>2. i \in 1 .. n /\ j \in 1 .. n => i = j
      BY <2>3 DEF RegistryInv, QueuedOnce
    <3> QED BY <2>3, <2>6, <3>1, <3>2
  <2>10. Active' \subseteq Active /\ \A u \in Active' : work'[u].by = work[u].by
    BY <2>1 DEF Active, Running
  <2> QED BY <2>1, <2>4, <2>8, <2>9, <2>10, FewerRuns DEF RegistryInv
<1> QED BY <1>3, <1>4, <1>6, <1>7

(* The finally of a run: its place goes to the Task that has waited longest. *)
LEMMA DrainKeeps ==
  ASSUME RegistryInv, NEW t \in Work, drainQueues(t)
  PROVE  RegistryInv'
<1> DEFINE rest == Active \ {t}
<1>0. work[t].at = "closing" /\ UNCHANGED <<clock, connectors, consumed>> /\ t \in Active
      /\ "over" \in WorkStages /\ "preparing" \in WorkStages
  BY DEF drainQueues, Active, WorkStages
<1>1. PICK next : /\ next = IF waiting # <<>> /\ MayStart(work[Head(waiting)].by, rest) THEN {Head(waiting)} ELSE {}
                  /\ work' = [u \in Work |-> IF u = t THEN [work[u] EXCEPT !.at = "over"]
                                             ELSE IF u \in next THEN [work[u] EXCEPT !.at = "preparing"] ELSE work[u]]
                  /\ waiting' = IF next = {} THEN waiting ELSE Tail(waiting)
  BY Zenon DEF drainQueues
<1>2. \A u \in Work : IsWork(work[u])
  BY DEF RegistryInv, RegistryTypes
<1>3. \A u \in Work : work[u].at = "waiting" <=> \E i \in DOMAIN waiting : waiting[i] = u
  BY DEF RegistryInv, WorkIsOnACurrentConnector
<1>4. /\ IsWork(work'[t]) /\ work'[t].at = "over" /\ work'[t].grant = work[t].grant /\ work'[t].by = work[t].by
  <2>1. PICK w : w = [work[t] EXCEPT !.at = "over"]
    OBVIOUS
  <2>2. work'[t] = w
    BY <1>1, <2>1, Zenon
  <2> QED BY <1>0, <1>2, <2>1, <2>2, AtBecomes
<1>5. ASSUME NEW u \in Work, u # t, u \notin next PROVE work'[u] = work[u]
  BY <1>1, <1>5, Zenon
<1>6. ASSUME NEW u \in Work, u # t, u \in next
      PROVE IsWork(work'[u]) /\ work'[u].at = "preparing" /\ work'[u].grant = work[u].grant /\ work'[u].by = work[u].by
  <2>1. PICK w : w = [work[u] EXCEPT !.at = "preparing"]
    OBVIOUS
  <2>2. work'[u] = w
    BY <1>1, <1>6, <2>1, Zenon
  <2> QED BY <1>0, <1>2, <2>1, <2>2, AtBecomes
<1>7. \A u \in Work : IsWork(work'[u]) /\ work'[u].grant = work[u].grant /\ work'[u].by = work[u].by
  BY <1>2, <1>4, <1>5, <1>6
<1>8. DOMAIN work' = Work /\ work' = [u \in Work |-> work'[u]]
  BY <1>1
<1>9. PICK n \in Nat : n = Len(waiting)
  BY DEF RegistryInv, RegistryTypes
<1>10. waiting \in Seq(Work) /\ DOMAIN waiting = 1 .. n
  BY <1>9 DEF RegistryInv, RegistryTypes
<1>11. CASE next = {}
  <2>1. waiting' = waiting /\ \A u \in Work : u # t => work'[u] = work[u]
    BY <1>1, <1>5, <1>11
  <2>2. RegistryTypes'
    BY <1>0, <1>7, <1>8, <2>1 DEF RegistryInv, RegistryTypes
  <2>3. GrantsAreRemembered'
    BY <1>0, <1>7, <2>1, GrantsKeep DEF Used
  <2>4. WorkIsOnACurrentConnector'
    BY <1>0, <1>4, <2>1 DEF RegistryInv, WorkIsOnACurrentConnector
  <2>5. QueuedOnce'
    BY <2>1 DEF RegistryInv, QueuedOnce
  <2>6. Active' \subseteq Active /\ \A u \in Active' : work'[u].by = work[u].by
    BY <1>0, <2>1, <1>7 DEF Active
  <2> QED BY <2>2, <2>3, <2>4, <2>5, <2>6, FewerRuns DEF RegistryInv
<1>12. CASE next # {}
  <2>1. PICK h : h = Head(waiting)
    OBVIOUS
  <2>2. next = {h} /\ waiting # <<>> /\ MayStart(work[h].by, rest) /\ waiting' = Tail(waiting)
    BY <1>1, <1>12, <2>1
  <2>3. /\ n >= 1 /\ waiting[1] = h /\ h \in Work /\ waiting' \in Seq(Work) /\ DOMAIN waiting' = 1 .. n - 1
        /\ \A i \in 1 .. n - 1 : waiting'[i] = waiting[i + 1]
    BY <1>9, <1>10, <2>1, <2>2, HeadTailProperties
  <2>4. work[h].at = "waiting" /\ h # t /\ h \notin Active
    <3>1. 1 \in 1 .. n
      BY <2>3
    <3>2. work[h].at = "waiting"
      BY <1>3, <1>10, <2>3, <3>1
    <3> QED BY <1>0, <3>2 DEF Active, Running
  <2>5. /\ work'[h].at = "preparing" /\ work'[t].at = "over"
        /\ \A u \in Work : u # t /\ u # h => work'[u] = work[u]
    BY <1>4, <1>5, <1>6, <2>2, <2>3, <2>4
  <2>6. \A i, j \in 1 .. n : waiting[i] = waiting[j] => i = j
    BY <1>10 DEF RegistryInv, QueuedOnce
  <2>7. RegistryTypes'
    BY <1>0, <1>7, <1>8, <2>3 DEF RegistryInv, RegistryTypes
  <2>8. GrantsAreRemembered'
    <3>1. \A u \in Work : Used(u)' => Used(u)
      BY <1>0, <2>4, <2>5 DEF Used, Running
    <3> QED BY <1>0, <1>7, <3>1, GrantsKeep
  <2>9. \A u : (\E i \in DOMAIN waiting' : waiting'[i] = u)
               <=> (u # h /\ \E i \in DOMAIN waiting : waiting[i] = u)
    <3>1. ASSUME NEW i \in 1 .. n - 1
          PROVE waiting'[i] # h /\ \E j \in 1 .. n : waiting[j] = waiting'[i]
      <4>1. i + 1 \in 1 .. n /\ i + 1 # 1 /\ 1 \in 1 .. n
        BY <2>3
      <4> QED BY <2>3, <2>6, <4>1
    <3>2. ASSUME NEW j \in 1 .. n, waiting[j] # h
          PROVE \E i \in 1 .. n - 1 : waiting'[i] = waiting[j]
      <4>1. j # 1
        BY <2>3, <3>2
      <4>2. PICK i \in Int : i = j - 1
        OBVIOUS
      <4>3. i \in 1 .. n - 1 /\ i + 1 = j
        BY <4>1, <4>2
      <4> QED BY <2>3, <4>3
    <3>3. \A u : (\E i \in 1 .. n - 1 : waiting'[i] = u) => (u # h /\ \E i \in 1 .. n : waiting[i] = u)
      BY <3>1
    <3>4. \A u : (u # h /\ \E i \in 1 .. n : waiting[i] = u) => (\E i \in 1 .. n - 1 : waiting'[i] = u)
      BY <3>2
    <3>5. DOMAIN waiting' = 1 .. n - 1 /\ DOMAIN waiting = 1 .. n
      BY <1>10, <2>3
    <3> QED BY <3>3, <3>4, <3>5
  <2>10. WorkIsOnACurrentConnector'
    <3>1. \A u \in Work : work'[u].at = "waiting" <=> work[u].at = "waiting" /\ u # h
      BY <1>0, <2>4, <2>5
    <3>2. \A u \in Work : work'[u].at = "waiting" <=> \E i \in DOMAIN waiting' : waiting'[i] = u
      BY <1>3, <2>9, <3>1
    <3>3. \A u \in Work : work[u].at \in {"waiting", "preparing", "running"} => work[u].by \in connectors
      BY DEF RegistryInv, WorkIsOnACurrentConnector
    <3>4. \A u \in Work : work'[u].at \in {"waiting", "preparing", "running"}
                           => work[u].at \in {"waiting", "preparing", "running"}
      BY <2>4, <2>5
    <3>5. \A u \in Work : work'[u].at \in {"waiting", "preparing", "running"} => work'[u].by \in connectors'
      BY <1>0, <1>7, <3>3, <3>4
    <3> QED BY <3>2, <3>5 DEF WorkIsOnACurrentConnector
  <2>11. QueuedOnce'
    <3> SUFFICES ASSUME NEW i \in 1 .. n - 1, NEW j \in 1 .. n - 1, waiting'[i] = waiting'[j] PROVE i = j
      BY <2>3 DEF QueuedOnce
    <3>1. i + 1 \in 1 .. n /\ j + 1 \in 1 .. n
      OBVIOUS
    <3>2. i + 1 = j + 1
      BY <2>3, <2>6, <3>1
    <3> QED BY <3>2
  <2>12. WithinLimits'
    <3>1. Active' = rest \cup {h} /\ h \notin rest
      BY <1>0, <2>3, <2>4, <2>5 DEF Active, Running
    <3>2. rest \in SUBSET Active /\ \A u \in rest : work'[u].by = work[u].by
      BY <1>7 DEF Active
    <3>3. work'[h].by = work[h].by /\ work[h].by \in Products
      BY <1>2, <1>7, <2>3 DEF IsWork
    <3> HIDE DEF rest
    <3> QED BY <2>2, <2>3, <2>7, <3>1, <3>2, <3>3, OneMoreRun
  <2> QED BY <2>7, <2>8, <2>10, <2>11, <2>12 DEF RegistryInv
<1> QED BY <1>11, <1>12

(* No Task is known at first.                                               *)
LEMMA RegistryBegins == RegistryInit => RegistryInv
<1> SUFFICES ASSUME RegistryInit PROVE RegistryInv
  OBVIOUS
<1>1. IsWork(NoWork) /\ NoWork.at = "requested"
  BY DEF IsWork, NoWork, WorkStages, Products
<1>2. \A t \in Work : work[t] = NoWork
  BY DEF RegistryInit
<1>3. RegistryTypes
  BY <1>1, <1>2 DEF RegistryInit, RegistryTypes
<1>4. Active = {}
  BY <1>1, <1>2 DEF Active, Running
<1>5. WithinLimits
  BY <1>4, FS_EmptySet, RegistryAssumption DEF WithinLimits
<1>6. GrantsAreRemembered /\ WorkIsOnACurrentConnector /\ QueuedOnce
  BY <1>1, <1>2 DEF GrantsAreRemembered, Used, Running, WorkIsOnACurrentConnector, QueuedOnce, RegistryInit
<1> QED BY <1>3, <1>5, <1>6 DEF RegistryInv

(* Every step of the kernel and of what it serves keeps the invariant.       *)
LEMMA RegistryStep == RegistryInv /\ [RegistryNext]_registryVars => RegistryInv'
<1> SUFFICES ASSUME RegistryInv, [RegistryNext]_registryVars PROVE RegistryInv'
  OBVIOUS
<1>1. CASE UNCHANGED registryVars
  <2>1. RegistryTypes' /\ GrantsAreRemembered' /\ WorkIsOnACurrentConnector' /\ QueuedOnce'
    BY <1>1 DEF registryVars, RegistryInv, RegistryTypes, GrantsAreRemembered, Used, WorkIsOnACurrentConnector,
                QueuedOnce
  <2>2. Active' \subseteq Active /\ \A u \in Active' : work'[u].by = work[u].by
    BY <1>1 DEF registryVars, Active
  <2> QED BY <2>1, <2>2, FewerRuns DEF RegistryInv
<1>2. CASE QualifyCodex \/ QualifyCodeBuddy
  <2>1. {CodexConnector, CodexImageConnector} \in SUBSET Products /\ {CodeBuddyConnector} \in SUBSET Products
    BY DEF Products
  <2>2. \E cs \in SUBSET Products : registerAll(cs)
    BY <1>2, <2>1 DEF QualifyCodex, QualifyCodeBuddy
  <2> QED BY <2>2, TickAndRegisterKeep
<1> QED BY <1>1, <1>2, TickAndRegisterKeep, QualifyNativeKeeps, QuietStepsKeep, ExecuteKeeps, CancelKeeps,
           DrainKeeps DEF RegistryNext

(* Registering, executing, cancelling and draining keep the invariant.      *)
THEOREM RegistryInvariance == RegistrySpec => []RegistryInv
BY RegistryBegins, RegistryStep, PTL DEF RegistrySpec

(* For any Tasks, connectors, limits and times: a grant is used once, even   *)
(* when the kernel forgets expired ones; what runs is on a connector that is *)
(* registered, or is being stopped; the queue is what waits; and neither the *)
(* host's limit nor a child's is passed (kernel.ts, execute, drainQueues,    *)
(* unregisterConnector; agent-core.ts, validateExecutionAuthority).          *)
THEOREM WorkIsAlwaysAuthorized == RegistrySpec => []WorkIsAuthorized
<1>1. RegistryInv => WorkIsAuthorized
  <2> SUFFICES ASSUME RegistryInv PROVE WorkIsAuthorized
    OBVIOUS
  <2>1. GrantsAreSingleUse
    BY DEF RegistryInv, GrantsAreRemembered, Used, GrantsAreSingleUse
  <2>2. ChildAgrees(connectors)
    BY ProductsAgree DEF RegistryInv, RegistryTypes, ChildAgrees
  <2> QED BY <2>1, <2>2 DEF RegistryInv, WithinLimits, ChildrenAreConsistent, WorkIsAuthorized
<1> QED BY <1>1, RegistryInvariance, PTL
------------------------------------------------------------------------------
(* Background work (RuntimeJobs, CodexUsage, AgentDiscovery)                 *)

JobStages == {"idle", "scheduled", "check", "run"}

(* A job that leaves its timer or its run is given the other while the host  *)
(* runs, and neither any more when it stops; the release job has no          *)
(* condition to check, so it is only scheduled after it ended.               *)
JobsInv ==
  /\ policy = [version |-> policy.version, requires |-> policy.requires, status |-> policy.status]
  /\ hostState \in {"new", "running", "stopping", "stopped"}
  /\ job \in [Jobs -> JobStages]
  /\ hostState = "new" => \A j \in Jobs : job[j] = "idle"
  /\ hostState = "running" => \A j \in Jobs : job[j] # "idle"
  /\ hostState = "stopping" => \A j \in Jobs : job[j] # "scheduled"
  /\ hostState = "stopped" => \A j \in Jobs : job[j] = "idle"
  /\ "release" \in Jobs => job["release"] # "check"
  /\ UpdateRequiredStopsWork

UsageInv == "stage" \in DOMAIN usageCall /\ UsageKeepsRefreshing

(* A caller of setAgentPathOverride that reads, writes or waits for a scan   *)
(* is the first of the chain; what it read is still the file.  The scan it   *)
(* waits for, and every later one, reads the file with its override.         *)
OneCallerWrites ==
  \A c \in Overriders :
    /\ caller[c].at \in {"read", "joined", "scanning"} => First(c)
    /\ caller[c].at = "read" => caller[c].file = overrides

Wrote(c) == caller[c].at \in {"joined", "scanning", "done"}

(* The scan that c waits for, when it waits for one, is over.                *)
ScanIsOver(c) == scan.n > caller[c].scan \/ scan.at = "none"

OverrideIsReadBy(c) ==
  /\ Wrote(c) => c \in overrides /\ caller[c].scan <= scan.n
  /\ Wrote(c) /\ scan.at = "observe" /\ (scan.n > caller[c].scan \/ caller[c].at # "joined")
       => c \in scan.catalog \/ ~scan.read
  /\ caller[c].at = "done" \/ (caller[c].at = "scanning" /\ ScanIsOver(c))
       => c \in observed.catalog \/ ~observed.read

OverrideIsRead == \A c \in Overriders : OverrideIsReadBy(c)

ScanTypes ==
  /\ chain \in Seq(Overriders)
  /\ scan = [n |-> scan.n, at |-> scan.at, catalog |-> scan.catalog, read |-> scan.read]
  /\ scan.n \in Nat /\ scan.at \in {"none", "load", "observe"}
  /\ observed = [revision |-> observed.revision, state |-> observed.state, catalog |-> observed.catalog,
                 read |-> observed.read, agent |-> observed.agent]
  /\ observed.state = "discovering" <=> scan.at # "none"
  /\ caller = [c \in Overriders |-> caller[c]]
  /\ \A c \in Overriders :
       /\ caller[c] = [at |-> caller[c].at, scan |-> caller[c].scan, file |-> caller[c].file]
       /\ caller[c].scan \in Nat

DiscoveryInv == ScanTypes /\ OneCallerWrites /\ OverrideIsRead

(* A job whose run has ended is scheduled again, or idle in a host that stops*)
(* (the finally of runJob).                                                 *)
LEMMA SettledIs ==
  ASSUME JobsInv, NEW j \in Jobs
  PROVE  /\ Settled(j, job) \in [Jobs -> JobStages]
         /\ Settled(j, job)[j] = IF hostState = "running" THEN "scheduled" ELSE "idle"
         /\ \A k \in Jobs : k # j => Settled(j, job)[k] = job[k]
BY DEF JobsInv, JobStages, Settled

(* A started job runs, waits for its condition or is skipped; the release job*)
(* has no condition (execute).                                              *)
LEMMA BegunIs ==
  ASSUME NEW j \in Jobs
  PROVE  /\ Begin(j) \in {"run", "scheduled", "check"}
         /\ j = "release" => Begin(j) = "run"
BY DEF Begin, Ungated

(* runNow starts some of the named jobs and leaves the others alone.        *)
LEMMA RunNowIs ==
  ASSUME NEW S, NEW now \in [Jobs -> JobStages]
  PROVE  /\ RunNow(S, now) \in [Jobs -> JobStages]
         /\ \A k \in Jobs : RunNow(S, now)[k] = now[k]
                            \/ (k \in S /\ hostState = "running" /\ RunNow(S, now)[k] = Begin(k))
BY BegunIs DEF RunNow, JobStages

(* A job that ends, and what it has started at once.                         *)
LEMMA JobEndKeeps ==
  ASSUME JobsInv, NEW j \in Jobs, job[j] \in InFlight, j # "release",
         \/ job' = Settled(j, job)
         \/ \E S : "release" \notin S /\ job' = RunNow(S, Settled(j, job)),
         UNCHANGED <<hostState, policy, working>>
  PROVE  JobsInv'
<1>1. /\ Settled(j, job) \in [Jobs -> JobStages]
      /\ Settled(j, job)[j] = IF hostState = "running" THEN "scheduled" ELSE "idle"
      /\ \A k \in Jobs : k # j => Settled(j, job)[k] = job[k]
  BY SettledIs
<1>2. /\ job' \in [Jobs -> JobStages]
      /\ \A k \in Jobs : job'[k] = Settled(j, job)[k]
                         \/ (hostState = "running" /\ k # "release" /\ job'[k] \in {"run", "scheduled", "check"})
  <2>1. CASE job' = Settled(j, job)
    BY <1>1, <2>1
  <2>2. CASE \E S : "release" \notin S /\ job' = RunNow(S, Settled(j, job))
    <3>1. PICK S : "release" \notin S /\ job' = RunNow(S, Settled(j, job))
      BY <2>2
    <3>2. PICK now \in [Jobs -> JobStages] : now = Settled(j, job)
      BY <1>1
    <3>3. job' = RunNow(S, now)
      BY <3>1, <3>2
    <3> QED BY <3>1, <3>2, <3>3, RunNowIs, BegunIs
  <2> QED BY <2>1, <2>2
<1>3. "release" \in Jobs => job'["release"] = job["release"]
  BY <1>1, <1>2
<1>4. hostState \in {"running", "stopping"}
  BY DEF JobsInv, InFlight
<1>5. hostState = "running" => \A k \in Jobs : job'[k] # "idle"
  BY <1>1, <1>2 DEF JobsInv
<1>6. hostState = "stopping" => \A k \in Jobs : job'[k] # "scheduled"
  BY <1>1, <1>2 DEF JobsInv
<1>7. UpdateRequiredStopsWork'
  BY <1>3 DEF JobsInv, UpdateRequiredStopsWork
<1> QED BY <1>2, <1>3, <1>4, <1>5, <1>6, <1>7 DEF JobsInv

(* What leaves the jobs alone, or starts some at once.                       *)
LEMMA RunNowKeeps ==
  ASSUME JobsInv, job' = job \/ \E S : "release" \notin S /\ job' = RunNow(S, job),
         UNCHANGED <<hostState, policy, working>>
  PROVE  JobsInv'
<1>1. /\ job' \in [Jobs -> JobStages]
      /\ \A k \in Jobs : job'[k] = job[k]
                         \/ (hostState = "running" /\ k # "release" /\ job'[k] \in {"run", "scheduled", "check"})
  BY RunNowIs, BegunIs DEF JobsInv
<1>2. UpdateRequiredStopsWork'
  BY <1>1 DEF JobsInv, UpdateRequiredStopsWork
<1> QED BY <1>1, <1>2 DEF JobsInv

(* No job is scheduled before the host starts.                              *)
LEMMA JobsBegin == JobsInit => JobsInv
<1> SUFFICES ASSUME JobsInit PROVE JobsInv
  OBVIOUS
<1>1. policy = [version |-> policy.version, requires |-> policy.requires, status |-> policy.status]
  <2>1. PICK r : policy = [version |-> 0, requires |-> r, status |-> IF r THEN "update_required" ELSE "checking"]
    BY Zenon DEF JobsInit
  <2> QED BY <2>1
<1> QED BY <1>1 DEF JobsInit, JobsInv, JobStages, UpdateRequiredStopsWork

(* The end of a release check decides whether work goes on.                  *)
LEMMA ReleaseKeeps ==
  ASSUME JobsInv, ReleaseJobEnds
  PROVE  JobsInv'
<1>1. /\ Settled("release", job) \in [Jobs -> JobStages]
      /\ Settled("release", job)["release"] = IF hostState = "running" THEN "scheduled" ELSE "idle"
      /\ \A k \in Jobs : k # "release" => Settled("release", job)[k] = job[k]
  BY SettledIs DEF ReleaseJobEnds
<1>2. /\ policy' = [version |-> policy'.version, requires |-> policy'.requires, status |-> policy'.status]
      /\ policy'.requires => policy'.status = "update_required"
  <2>1. PICK v \in 0 .. MaxPolicy, requires \in BOOLEAN : policy' = Refreshed(v, requires)
    BY Zenon DEF ReleaseJobEnds
  <2>2. policy = [version |-> policy.version, requires |-> policy.requires, status |-> policy.status]
    BY DEF JobsInv
  <2>3. PICK b : b = IF v = policy.version THEN policy.requires ELSE requires
    OBVIOUS
  <2>4. CASE v >= policy.version
    <3>1. policy' = [version |-> v, requires |-> b, status |-> IF b THEN "update_required" ELSE "supported"]
      BY <2>1, <2>3, <2>4, Zenon DEF Refreshed
    <3> QED BY <3>1
  <2>5. CASE ~(v >= policy.version)
    <3>1. policy' = [policy EXCEPT !.status = IF policy.requires THEN "update_required"
                                              ELSE "temporarily_unavailable"]
      BY <2>1, <2>5, Zenon DEF Refreshed
    <3>2. PICK r, w : r = policy.requires /\ w = policy.version
      OBVIOUS
    <3>3. policy' = [version |-> w, requires |-> r,
                     status |-> IF r THEN "update_required" ELSE "temporarily_unavailable"]
      BY <2>2, <3>1, <3>2
    <3> QED BY <3>3
  <2> QED BY <2>4, <2>5
<1>3. policy'.status = "update_required" => ~working'.agent /\ ~working'.presence
  BY DEF ReleaseJobEnds
<1>4. UpdateRequiredStopsWork'
  BY <1>2, <1>3 DEF UpdateRequiredStopsWork
<1>5. job' = Settled("release", job) /\ hostState' = hostState /\ "release" \in Jobs /\ job["release"] = "run"
  BY DEF ReleaseJobEnds
<1> QED BY <1>1, <1>2, <1>4, <1>5 DEF JobsInv

(* Every step of the host, of its jobs and of those who call for them keeps *)
(* the invariant (start, stop, runJob, runNow).                             *)
LEMMA JobsStep == JobsInv /\ [JobsNext]_jobVars => JobsInv'
<1> SUFFICES ASSUME JobsInv, [JobsNext]_jobVars PROVE JobsInv'
  OBVIOUS
<1>1. CASE UNCHANGED jobVars
  BY <1>1, RunNowKeeps DEF jobVars
<1>2. CASE Start
  <2>1. \A j \in Jobs : job'[j] = Begin(j)
    BY <1>2 DEF Start
  <2>2. job' \in [Jobs -> JobStages] /\ hostState' = "running" /\ policy' = policy
    BY <1>2, BegunIs DEF Start, JobStages
  <2>3. (\A j \in Jobs : job'[j] # "idle") /\ ("release" \in Jobs => job'["release"] = "run")
    BY <2>1, BegunIs
  <2> QED BY <2>2, <2>3 DEF JobsInv, UpdateRequiredStopsWork
<1>3. CASE Stop
  <2>1. job' \in [Jobs -> JobStages] /\ (\A j \in Jobs : job'[j] # "scheduled" /\ (job'[j] = "check" => job[j] = "check"))
    BY <1>3 DEF Stop, JobsInv, JobStages
  <2> QED BY <1>3, <2>1 DEF Stop, JobsInv, UpdateRequiredStopsWork
<1>4. CASE Stopped
  BY <1>4 DEF Stopped, JobsInv, InFlight, JobStages, UpdateRequiredStopsWork
<1>5. CASE NotifyAccountAvailable
  <2>1. \E S : "release" \notin S /\ job' = RunNow(S, job)
    <3>1. "release" \notin (Jobs \cap {"identity", "peers", "poll", "codex", "profile"})
      OBVIOUS
    <3> QED BY <1>5, <3>1 DEF NotifyAccountAvailable
  <2> QED BY <1>5, <2>1, RunNowKeeps DEF NotifyAccountAvailable
<1>6. CASE UserPeerOperation \/ TaskOperation \/ \E p \in JobPeers : PeerChanges(p)
  BY <1>6, RunNowKeeps DEF UserPeerOperation, TaskOperation, PeerChanges
<1>7. ASSUME NEW j \in Jobs, TimerFires(j) PROVE JobsInv'
  <2>1. /\ job' \in [Jobs -> JobStages] /\ job'[j] = Begin(j) /\ (\A k \in Jobs : k # j => job'[k] = job[k])
        /\ hostState = "running" /\ UNCHANGED <<hostState, policy, working>>
    BY <1>7, BegunIs DEF TimerFires, JobsInv, JobStages
  <2>2. UpdateRequiredStopsWork'
    BY <2>1, BegunIs DEF JobsInv, UpdateRequiredStopsWork
  <2> QED BY <2>1, <2>2, BegunIs DEF JobsInv
<1>8. ASSUME NEW j \in Jobs, CheckAccount(j) PROVE JobsInv'
  <2>1. job[j] = "check" /\ j # "release" /\ UNCHANGED <<hostState, policy, working>>
    BY <1>8 DEF CheckAccount, JobsInv
  <2>2. CASE job' = [job EXCEPT ![j] = "run"]
    <3>1. job' \in [Jobs -> JobStages] /\ job'[j] = "run" /\ \A k \in Jobs : k # j => job'[k] = job[k]
      BY <2>2 DEF JobsInv, JobStages
    <3> QED BY <2>1, <3>1 DEF JobsInv, UpdateRequiredStopsWork
  <2>3. CASE job' = Settled(j, job)
    BY <2>1, <2>3, JobEndKeeps DEF InFlight
  <2> QED BY <1>8, <2>2, <2>3 DEF CheckAccount
<1>9. ASSUME NEW j \in Jobs, PeerJobEnds(j) PROVE JobsInv'
  BY <1>9, JobEndKeeps DEF PeerJobEnds, InFlight
<1>10. ASSUME NEW j \in Jobs, OtherJobEnds(j) PROVE JobsInv'
  <2>1. \E S : "release" \notin S /\ job' = RunNow(S, Settled(j, job))
    BY <1>10 DEF OtherJobEnds
  <2> QED BY <1>10, <2>1, JobEndKeeps DEF OtherJobEnds, InFlight
<1>11. ASSUME IdentityJobEnds, "identity" \in Jobs PROVE JobsInv'
  BY <1>11, JobEndKeeps DEF IdentityJobEnds, InFlight
<1>12. ASSUME PresenceJobEnds PROVE JobsInv'
  <2>1. \/ job' = Settled("presence", job)
        \/ \E S : "release" \notin S /\ job' = RunNow(S, Settled("presence", job))
    BY <1>12 DEF PresenceJobEnds
  <2> QED BY <1>12, <2>1, JobEndKeeps DEF PresenceJobEnds, InFlight
<1>13. ASSUME NEW j \in Jobs, AskForRun(j) PROVE JobsInv'
  <2>1. "release" \notin {j} /\ job' = RunNow({j}, job)
    BY <1>13 DEF AskForRun
  <2> QED BY <1>13, <2>1, RunNowKeeps DEF AskForRun
<1> QED
  BY <1>1, <1>2, <1>3, <1>4, <1>5, <1>6, <1>7, <1>8, <1>9, <1>10, <1>11, <1>12, <1>13, ReleaseKeeps
  DEF JobsNext, JobEnds

(* What a step of a refresh leaves the call with (SettlesWith, CallMovesTo). *)
LEMMA CallGoesOn ==
  ASSUME UsageInv, UNCHANGED <<usageActive, usageTimer>>,
         "stage" \in DOMAIN usageCall', usageCall'.stage # "none"
  PROVE  UsageInv'
BY DEF UsageInv, UsageKeepsRefreshing, NoUsageCall

(* The refresh is settled with whatever result it has (runRefresh).         *)
LEMMA CallSettles ==
  ASSUME UsageInv, NEW state, SettlesWith(state)
  PROVE  UsageInv'
<1>1. usageCall' = [stage |-> "settled", active |-> usageCall.active] /\ UNCHANGED <<usageActive, usageTimer>>
  BY DEF SettlesWith
<1>2. "stage" \in DOMAIN usageCall' /\ usageCall'.stage # "none"
  BY <1>1
<1> QED BY <1>1, <1>2, CallGoesOn

(* The request goes from one stage to the next (fetchUsage).                *)
LEMMA CallMoves ==
  ASSUME UsageInv, NEW s, s # "none", CallMovesTo([usageCall EXCEPT !.stage = s])
  PROVE  UsageInv'
<1>1. usageCall' = [usageCall EXCEPT !.stage = s] /\ UNCHANGED <<usageActive, usageTimer>>
  BY DEF CallMovesTo
<1>2. "stage" \in DOMAIN usageCall' /\ usageCall'.stage # "none"
  BY <1>1 DEF UsageInv
<1> QED BY <1>1, <1>2, CallGoesOn

(* A refresh begins (refreshNow).                                           *)
LEMMA CallBegins ==
  ASSUME BeginRefresh
  PROVE  UsageInv'
<1>1. usageCall' = [stage |-> "auth", active |-> usageActive]
  BY DEF BeginRefresh, NewUsageCall
<1>2. "stage" \in DOMAIN usageCall' /\ usageCall'.stage = "auth"
  BY <1>1
<1> QED BY <1>2 DEF UsageInv, UsageKeepsRefreshing, NoUsageCall

(* Whoever starts, stops or asks meanwhile, the next refresh is coming.      *)
LEMMA UsageStep == UsageInv /\ [UsageNext]_usageVars => UsageInv'
<1> SUFFICES ASSUME UsageInv, [UsageNext]_usageVars PROVE UsageInv'
  OBVIOUS
<1>1. CASE RefreshUsage
  BY <1>1, CallBegins DEF RefreshUsage
<1>2. CASE StartUsage
  <2>1. CASE CanRefresh /\ BeginRefresh
    BY <2>1, CallBegins
  <2>2. CASE usageCall # NoUsageCall /\ UNCHANGED <<usageTimer, usageCall, refreshCount>>
    BY <2>2 DEF UsageInv, UsageKeepsRefreshing
  <2> QED BY <1>2, <2>1, <2>2 DEF StartUsage
<1>3. CASE StopUsage
  BY <1>3 DEF StopUsage, UsageInv, UsageKeepsRefreshing
<1>4. CASE ReadAuth
  <2>1. CASE authFile.kind = "token"
    <3>1. PICK call : call = [stage |-> IF usageWindows THEN "resolve" ELSE "direct",
                              active |-> usageCall.active, auth |-> authFile]
      OBVIOUS
    <3>2. "stage" \in DOMAIN call /\ call.stage # "none"
      BY <3>1
    <3>3. usageCall' = call /\ UNCHANGED <<usageActive, usageTimer>>
      BY <1>4, <2>1, <3>1 DEF ReadAuth, CallMovesTo
    <3> QED BY <3>2, <3>3, CallGoesOn
  <2>2. CASE authFile.kind # "token"
    <3>1. \E state : SettlesWith(state)
      BY <1>4, <2>2 DEF ReadAuth
    <3> QED BY <3>1, CallSettles
  <2> QED BY <2>1, <2>2
<1>5. CASE ResolveProxy
  <2>1. \E s \in {"proxy", "direct"} : CallMovesTo([usageCall EXCEPT !.stage = s])
    BY <1>5 DEF ResolveProxy
  <2> QED BY <2>1, CallMoves
<1>6. CASE ProxyFails
  BY <1>6, CallMoves DEF ProxyFails
<1>7. CASE EndpointAnswers
  <2>1. CallMovesTo([usageCall EXCEPT !.stage = "body"]) \/ \E state : SettlesWith(state)
    BY <1>7 DEF EndpointAnswers, FailsWith
  <2> QED BY <2>1, CallMoves, CallSettles
<1>8. CASE BodyArrives \/ RequestTimesOut \/ NetworkFails
  <2>1. \E state : SettlesWith(state)
    BY <1>8 DEF BodyArrives, RequestTimesOut, NetworkFails, FailsWith
  <2> QED BY <2>1, CallSettles
<1>9. CASE RefreshEnds
  <2>1. usageCall' = [stage |-> "none"] /\ "stage" \in DOMAIN usageCall'
    BY <1>9 DEF RefreshEnds, NoUsageCall
  <2>2. usageActive' => usageTimer'
    BY <1>9, Zenon DEF RefreshEnds
  <2> QED BY <2>1, <2>2 DEF UsageInv, UsageKeepsRefreshing
<1>10. CASE AuthChanges \/ UsageClockTicks \/ UNCHANGED usageVars
  BY <1>10 DEF AuthChanges, UsageClockTicks, usageVars, UsageInv, UsageKeepsRefreshing
<1> QED BY <1>1, <1>2, <1>3, <1>4, <1>5, <1>6, <1>7, <1>8, <1>9, <1>10 DEF UsageNext

(* Nothing is read before the service is started.                           *)
LEMMA UsageBegins == UsageInit => UsageInv
BY DEF UsageInit, UsageInv, UsageKeepsRefreshing, NoUsageCall

(* A scan in flight is joined, or one starts (discover).                     *)
LEMMA ScanningIs ==
  ASSUME ScanTypes, scan' = Scanning, observed' = Discovering
  PROVE  /\ scan' = [n |-> scan'.n, at |-> scan'.at, catalog |-> scan'.catalog, read |-> scan'.read]
         /\ scan'.n \in Nat /\ scan'.at \in {"load", "observe"} /\ scan'.n = Joined
         /\ scan.at = "none" => scan'.n = scan.n + 1 /\ scan'.at = "load"
         /\ scan.at # "none" => scan' = scan
         /\ observed' = [revision |-> observed'.revision, state |-> observed'.state,
                         catalog |-> observed'.catalog, read |-> observed'.read, agent |-> observed'.agent]
         /\ observed'.state = "discovering"
         /\ observed'.catalog = observed.catalog /\ observed'.read = observed.read
<1>1. /\ scan.n \in Nat /\ scan.at \in {"none", "load", "observe"}
      /\ scan = [n |-> scan.n, at |-> scan.at, catalog |-> scan.catalog, read |-> scan.read]
      /\ observed = [revision |-> observed.revision, state |-> observed.state, catalog |-> observed.catalog,
                     read |-> observed.read, agent |-> observed.agent]
      /\ observed.state = "discovering" <=> scan.at # "none"
  BY DEF ScanTypes
<1>2. CASE scan.at = "none"
  <2>1. scan' = [n |-> scan.n + 1, at |-> "load", catalog |-> {}, read |-> TRUE] /\ Joined = scan.n + 1
    BY <1>2 DEF Scanning, Joined
  <2>2. observed' = [observed EXCEPT !.state = "discovering"]
    BY <1>2 DEF Discovering
  <2>3. observed' = [revision |-> observed.revision, state |-> "discovering", catalog |-> observed.catalog,
                     read |-> observed.read, agent |-> observed.agent]
    BY <1>1, <2>2
  <2> QED BY <1>1, <1>2, <2>1, <2>3
<1>3. CASE scan.at # "none"
  <2>1. scan' = scan /\ observed' = observed /\ Joined = scan.n
    BY <1>3 DEF Scanning, Discovering, Joined
  <2> QED BY <1>1, <1>3, <2>1
<1> QED BY <1>2, <1>3

(* A caller that is not acting keeps what it has read and waits for.         *)
LEMMA ScanningKeeps ==
  ASSUME ScanTypes, scan' = Scanning, observed' = Discovering, NEW c \in Overriders,
         OverrideIsReadBy(c), caller'[c] = caller[c], overrides \subseteq overrides'
  PROVE  OverrideIsReadBy(c)'
<1>1. scan.n \in Nat /\ caller[c].scan \in Nat
  BY DEF ScanTypes
<1>2. CASE scan.at = "none"
  <2>1. scan'.n = scan.n + 1 /\ scan'.at = "load"
    BY <1>2, ScanningIs
  <2> QED BY <1>1, <1>2, <2>1, ScanningIs DEF OverrideIsReadBy, Wrote, ScanIsOver
<1>3. CASE scan.at # "none"
  <2>1. scan' = scan
    BY <1>3, ScanningIs
  <2> QED BY <1>1, <1>3, <2>1, ScanningIs DEF OverrideIsReadBy, Wrote, ScanIsOver
<1> QED BY <1>2, <1>3

(* What an action's assignments to the fields of a caller make of it.        *)
LEMMA FieldsAssigned ==
  ASSUME NEW C, NEW f, f = [d \in C |-> f[d]], NEW c \in C, NEW a, NEW n, NEW r,
         f[c] = [at |-> f[c].at, scan |-> f[c].scan, file |-> f[c].file]
  PROVE  /\ LET g == [f EXCEPT ![c].at = a] IN
              /\ g = [d \in C |-> g[d]] /\ (\A d \in C : d # c => g[d] = f[d])
              /\ g[c] = [at |-> a, scan |-> f[c].scan, file |-> f[c].file]
         /\ LET g == [f EXCEPT ![c].at = a, ![c].scan = n] IN
              /\ g = [d \in C |-> g[d]] /\ (\A d \in C : d # c => g[d] = f[d])
              /\ g[c] = [at |-> a, scan |-> n, file |-> f[c].file]
         /\ LET g == [f EXCEPT ![c].at = a, ![c].file = r] IN
              /\ g = [d \in C |-> g[d]] /\ (\A d \in C : d # c => g[d] = f[d])
              /\ g[c] = [at |-> a, scan |-> f[c].scan, file |-> r]
<1>1. ASSUME NEW g, g = [f EXCEPT ![c].at = a]
      PROVE  /\ g = [d \in C |-> g[d]] /\ (\A d \in C : d # c => g[d] = f[d])
             /\ g[c] = [at |-> a, scan |-> f[c].scan, file |-> f[c].file]
  BY <1>1
<1>2. ASSUME NEW g, g = [f EXCEPT ![c].at = a, ![c].scan = n]
      PROVE  /\ g = [d \in C |-> g[d]] /\ (\A d \in C : d # c => g[d] = f[d])
             /\ g[c] = [at |-> a, scan |-> n, file |-> f[c].file]
  BY <1>2
<1>3. ASSUME NEW g, g = [f EXCEPT ![c].at = a, ![c].file = r]
      PROVE  /\ g = [d \in C |-> g[d]] /\ (\A d \in C : d # c => g[d] = f[d])
             /\ g[c] = [at |-> a, scan |-> f[c].scan, file |-> r]
  BY <1>3
<1> QED BY <1>1, <1>2, <1>3, Zenon

CallerBecomes(c, w) ==
  /\ caller' = [d \in Overriders |-> caller'[d]]
  /\ caller'[c] = w
  /\ \A d \in Overriders : d # c => caller'[d] = caller[d]

(* The assignments of each action of a caller.                               *)
LEMMA AtAssigned ==
  ASSUME ScanTypes, NEW c \in Overriders, NEW a, caller' = [caller EXCEPT ![c].at = a]
  PROVE  CallerBecomes(c, [at |-> a, scan |-> caller[c].scan, file |-> caller[c].file])
<1>1. PICK f, g : f = caller /\ g = caller'
  OBVIOUS
<1>2. f = [d \in Overriders |-> f[d]] /\ f[c] = [at |-> f[c].at, scan |-> f[c].scan, file |-> f[c].file]
  BY <1>1 DEF ScanTypes
<1> QED BY <1>1, <1>2, FieldsAssigned, Zenon DEF CallerBecomes

(* WriteConfig and SecondScan: the stage and the scan to wait for.          *)
LEMMA ScanAssigned ==
  ASSUME ScanTypes, NEW c \in Overriders, NEW a, NEW n, caller' = [caller EXCEPT ![c].at = a, ![c].scan = n]
  PROVE  CallerBecomes(c, [at |-> a, scan |-> n, file |-> caller[c].file])
<1>1. PICK f, g : f = caller /\ g = caller'
  OBVIOUS
<1>2. f = [d \in Overriders |-> f[d]] /\ f[c] = [at |-> f[c].at, scan |-> f[c].scan, file |-> f[c].file]
  BY <1>1 DEF ScanTypes
<1> QED BY <1>1, <1>2, FieldsAssigned, Zenon DEF CallerBecomes

(* ReadConfig: the stage and the file as it was read.                       *)
LEMMA FileAssigned ==
  ASSUME ScanTypes, NEW c \in Overriders, NEW a, NEW r, caller' = [caller EXCEPT ![c].at = a, ![c].file = r]
  PROVE  CallerBecomes(c, [at |-> a, scan |-> caller[c].scan, file |-> r])
<1>1. PICK f, g : f = caller /\ g = caller'
  OBVIOUS
<1>2. f = [d \in Overriders |-> f[d]] /\ f[c] = [at |-> f[c].at, scan |-> f[c].scan, file |-> f[c].file]
  BY <1>1 DEF ScanTypes
<1> QED BY <1>1, <1>2, FieldsAssigned, Zenon DEF CallerBecomes

(* A caller's step keeps the types of the callers.                           *)
LEMMA CallersKeep ==
  ASSUME ScanTypes, NEW c \in Overriders, NEW a, NEW n \in Nat, NEW r,
         CallerBecomes(c, [at |-> a, scan |-> n, file |-> r])
  PROVE  /\ caller' = [d \in Overriders |-> caller'[d]]
         /\ \A d \in Overriders :
              /\ caller'[d] = [at |-> caller'[d].at, scan |-> caller'[d].scan, file |-> caller'[d].file]
              /\ caller'[d].scan \in Nat
<1>1. ASSUME NEW d \in Overriders
      PROVE  caller'[d] = [at |-> caller'[d].at, scan |-> caller'[d].scan, file |-> caller'[d].file]
             /\ caller'[d].scan \in Nat
  <2>1. CASE d = c
    BY <2>1 DEF CallerBecomes
  <2>2. CASE d # c
    BY <2>2 DEF CallerBecomes, ScanTypes
  <2> QED BY <2>1, <2>2
<1> QED BY <1>1 DEF CallerBecomes

(* The first of the chain is the only one that can be at work on the file.   *)
LEMMA OneAtWork ==
  ASSUME OneCallerWrites, NEW c \in Overriders, First(c), NEW d \in Overriders, d # c
  PROVE  caller[d].at \notin {"read", "joined", "scanning"}
BY DEF OneCallerWrites, First

(* The chain gets longer at its end and shorter at its head.                 *)
LEMMA ChainMoves ==
  ASSUME ScanTypes
  PROVE  /\ \A c \in Overriders : /\ Append(chain, c) \in Seq(Overriders)
                                  /\ chain # <<>> => Head(Append(chain, c)) = Head(chain)
                                  /\ Append(chain, c) # <<>>
         /\ chain # <<>> => Tail(chain) \in Seq(Overriders)
<1>1. chain \in Seq(Overriders)
  BY DEF ScanTypes
<1>2. ASSUME NEW c \in Overriders
      PROVE  /\ Append(chain, c) \in Seq(Overriders) /\ Append(chain, c) # <<>>
             /\ chain # <<>> => Head(Append(chain, c)) = Head(chain)
  <2>1. PICK s : s = Append(chain, c)
    OBVIOUS
  <2>2. s \in Seq(Overriders) /\ Len(s) = Len(chain) + 1 /\ \A i \in 1 .. Len(chain) : s[i] = chain[i]
    BY <1>1, <2>1, AppendProperties
  <2>3. Len(chain) \in Nat /\ (chain # <<>> => Len(chain) >= 1)
    BY <1>1, EmptySeq, LenProperties
  <2>4. s # <<>> /\ (chain # <<>> => s[1] = chain[1])
    BY <2>2, <2>3, EmptySeq
  <2> QED BY <1>1, <2>1, <2>2, <2>4, HeadTailProperties
<1> QED BY <1>1, <1>2, HeadTailProperties

(* A caller that takes its turn, writes or is answered, while the others     *)
(* wait for theirs or have been answered.                                    *)
LEMMA TurnKeeps ==
  ASSUME DiscoveryInv, NEW c \in Overriders, First(c), ScanTypes',
         \A d \in Overriders : d # c => caller'[d] = caller[d],
         caller'[c].at \in {"read", "joined", "scanning"} => chain' = chain,
         caller'[c].at = "read" => caller'[c].file = overrides'
  PROVE  OneCallerWrites'
<1>1. \A d \in Overriders : caller'[d].at \in {"read", "joined", "scanning"} => d = c
  BY OneAtWork DEF DiscoveryInv
<1>2. ASSUME NEW d \in Overriders, caller'[d].at \in {"read", "joined", "scanning"} PROVE First(d)'
  <2>1. d = c /\ chain' = chain
    BY <1>1, <1>2
  <2> QED BY <2>1 DEF First
<1> QED BY <1>1, <1>2 DEF OneCallerWrites

(* No caller waits and no scan is in flight at first.                       *)
LEMMA DiscoveryBegins == DiscoveryInit => DiscoveryInv
<1> SUFFICES ASSUME DiscoveryInit PROVE DiscoveryInv
  OBVIOUS
<1>1. \A c \in Overriders : caller[c] = [at |-> "idle", scan |-> 0, file |-> {}]
  BY DEF DiscoveryInit
<1>2. ScanTypes
  BY <1>1, EmptySeq DEF DiscoveryInit, ScanTypes
<1> QED BY <1>1, <1>2 DEF DiscoveryInv, OneCallerWrites, OverrideIsRead, OverrideIsReadBy, Wrote

(* The steps of a scan (discover, runDiscovery, complete).                   *)
LEMMA ScanStepsKeep ==
  ASSUME DiscoveryInv, Discover \/ LoadCatalog \/ Complete \/ UNCHANGED discoveryVars
  PROVE  DiscoveryInv'
<1>1. /\ scan.n \in Nat /\ scan.at \in {"none", "load", "observe"}
      /\ scan = [n |-> scan.n, at |-> scan.at, catalog |-> scan.catalog, read |-> scan.read]
      /\ observed = [revision |-> observed.revision, state |-> observed.state, catalog |-> observed.catalog,
                     read |-> observed.read, agent |-> observed.agent]
      /\ \A c \in Overriders : caller[c].scan \in Nat
  BY DEF DiscoveryInv, ScanTypes
<1>2. UNCHANGED <<overrides, chain, caller>>
  BY DEF Discover, LoadCatalog, Complete, discoveryVars
<1>3. OneCallerWrites'
  BY <1>2 DEF DiscoveryInv, OneCallerWrites, First
<1>4. ScanTypes' /\ OverrideIsRead'
  <2>1. CASE Discover
    <3>1. scan' = Scanning /\ observed' = Discovering
      BY <2>1 DEF Discover
    <3>2. ScanTypes'
      BY <1>2, <3>1, ScanningIs DEF DiscoveryInv, ScanTypes
    <3>3. \A c \in Overriders : OverrideIsReadBy(c)'
      BY <1>2, <3>1, ScanningKeeps DEF DiscoveryInv, OverrideIsRead
    <3> QED BY <3>2, <3>3 DEF OverrideIsRead
  <2>2. CASE LoadCatalog
    <3>1. PICK ok \in BOOLEAN :
            scan' = [scan EXCEPT !.at = "observe", !.read = ok, !.catalog = IF ok THEN overrides ELSE {}]
      BY <2>2 DEF LoadCatalog
    <3>2. PICK catalog : catalog = IF ok THEN overrides ELSE {}
      OBVIOUS
    <3>3. scan' = [scan EXCEPT !.at = "observe", !.read = ok, !.catalog = catalog]
      BY <3>1, <3>2, Zenon
    <3>4. scan' = [n |-> scan.n, at |-> "observe", catalog |-> catalog, read |-> ok]
      BY <1>1, <3>3
    <3>5. scan.at = "load" /\ UNCHANGED observed
      BY <2>2 DEF LoadCatalog
    <3>6. ScanTypes'
      BY <1>1, <1>2, <3>4, <3>5 DEF DiscoveryInv, ScanTypes
    <3>7. ASSUME NEW c \in Overriders PROVE OverrideIsReadBy(c)'
      <4>1. OverrideIsReadBy(c)
        BY DEF DiscoveryInv, OverrideIsRead
      <4>2. scan'.n = scan.n /\ scan'.at = "observe" /\ (~scan'.read \/ scan'.catalog = overrides)
        BY <3>2, <3>4
      <4> QED BY <1>2, <3>5, <4>1, <4>2 DEF OverrideIsReadBy, Wrote, ScanIsOver
    <3> QED BY <3>6, <3>7 DEF OverrideIsRead
  <2>3. CASE Complete
    <3>1. scan.at = "observe" /\ scan' = [scan EXCEPT !.at = "none"]
      BY <2>3 DEF Complete
    <3>2. scan' = [n |-> scan.n, at |-> "none", catalog |-> scan.catalog, read |-> scan.read]
      BY <1>1, <3>1
    <3>3. \E n, v, a : observed' = [revision |-> n, catalog |-> scan.catalog, read |-> scan.read, state |-> v, agent |-> a]
                      /\ v \in {"degraded", "ready"}
      BY <2>3 DEF Complete
    <3>4. /\ observed' = [revision |-> observed'.revision, state |-> observed'.state, catalog |-> observed'.catalog,
                          read |-> observed'.read, agent |-> observed'.agent]
          /\ observed'.catalog = scan.catalog /\ observed'.read = scan.read /\ observed'.state # "discovering"
      BY <3>3
    <3>5. ScanTypes'
      BY <1>1, <1>2, <3>2, <3>4 DEF DiscoveryInv, ScanTypes
    <3>6. ASSUME NEW c \in Overriders PROVE OverrideIsReadBy(c)'
      <4>1. OverrideIsReadBy(c)
        BY DEF DiscoveryInv, OverrideIsRead
      <4>2. scan'.n = scan.n /\ scan'.at = "none"
        BY <3>2
      <4> QED BY <1>1, <1>2, <3>1, <3>4, <4>1, <4>2 DEF OverrideIsReadBy, Wrote, ScanIsOver
    <3> QED BY <3>5, <3>6 DEF OverrideIsRead
  <2>4. CASE UNCHANGED discoveryVars
    BY <2>4 DEF discoveryVars, DiscoveryInv, ScanTypes, OverrideIsRead, OverrideIsReadBy, Wrote, ScanIsOver
  <2> QED BY <2>1, <2>2, <2>3, <2>4
<1> QED BY <1>3, <1>4 DEF DiscoveryInv

(* A call arrives, and waits at the end of the chain.                        *)
LEMMA QueueKeeps ==
  ASSUME DiscoveryInv, NEW c \in Overriders, SetAgentPathOverride(c)
  PROVE  DiscoveryInv'
<1>1. ScanTypes
  BY DEF DiscoveryInv
<1>2. chain' = Append(chain, c) /\ UNCHANGED <<overrides, scan, observed>>
  BY DEF SetAgentPathOverride
<1>3. PICK n, r : n = caller[c].scan /\ r = caller[c].file
  OBVIOUS
<1>4. CallerBecomes(c, [at |-> "queued", scan |-> n, file |-> r]) /\ n \in Nat
  BY <1>1, <1>3, AtAssigned DEF SetAgentPathOverride, ScanTypes
<1>5. caller'[c].at = "queued" /\ \A d \in Overriders : d # c => caller'[d] = caller[d]
  BY <1>4 DEF CallerBecomes
<1>6. ScanTypes'
  BY <1>1, <1>2, <1>4, CallersKeep, ChainMoves DEF ScanTypes
<1>7. OneCallerWrites'
  <2> SUFFICES ASSUME NEW d \in Overriders, caller'[d].at \in {"read", "joined", "scanning"}
               PROVE  First(d)' /\ (caller'[d].at = "read" => caller'[d].file = overrides')
    BY DEF OneCallerWrites
  <2>1. d # c /\ caller'[d] = caller[d]
    BY <1>5
  <2>2. First(d) /\ (caller[d].at = "read" => caller[d].file = overrides)
    BY <2>1 DEF DiscoveryInv, OneCallerWrites
  <2> QED BY <1>1, <1>2, <2>1, <2>2, ChainMoves DEF First
<1>8. \A d \in Overriders : OverrideIsReadBy(d)'
  BY <1>2, <1>5 DEF DiscoveryInv, OverrideIsRead, OverrideIsReadBy, Wrote, ScanIsOver
<1> QED BY <1>6, <1>7, <1>8 DEF DiscoveryInv, OverrideIsRead

(* The caller whose turn it is reads the file.                               *)
LEMMA ReadKeeps ==
  ASSUME DiscoveryInv, NEW c \in Overriders, ReadConfig(c)
  PROVE  DiscoveryInv'
<1>1. ScanTypes
  BY DEF DiscoveryInv
<1>2. First(c) /\ UNCHANGED <<overrides, scan, observed>>
  BY DEF ReadConfig
<1>3. PICK n, r : n = caller[c].scan /\ r = caller[c].file
  OBVIOUS
<1>4. n \in Nat
  BY <1>1, <1>3 DEF ScanTypes
<1>5. \/ CallerBecomes(c, [at |-> "read", scan |-> n, file |-> overrides]) /\ chain' = chain
      \/ CallerBecomes(c, [at |-> "failed", scan |-> n, file |-> r]) /\ chain' = Tail(chain)
  BY <1>1, <1>3, AtAssigned, FileAssigned DEF ReadConfig
<1>6. ScanTypes'
  BY <1>1, <1>2, <1>4, <1>5, CallersKeep, ChainMoves DEF ScanTypes, First
<1>7. /\ \A d \in Overriders : d # c => caller'[d] = caller[d]
      /\ \/ caller'[c].at = "read" /\ caller'[c].file = overrides /\ chain' = chain
         \/ caller'[c].at = "failed"
  BY <1>5 DEF CallerBecomes
<1>8. OneCallerWrites'
  BY <1>2, <1>6, <1>7, TurnKeeps
<1>9. \A d \in Overriders : OverrideIsReadBy(d)'
  BY <1>2, <1>7 DEF DiscoveryInv, OverrideIsRead, OverrideIsReadBy, Wrote, ScanIsOver
<1> QED BY <1>6, <1>8, <1>9 DEF DiscoveryInv, OverrideIsRead

(* It writes it with its own override added, and joins or begins a scan.     *)
LEMMA WriteKeeps ==
  ASSUME DiscoveryInv, NEW c \in Overriders, WriteConfig(c)
  PROVE  DiscoveryInv'
<1>1. ScanTypes /\ caller[c].at = "read" /\ First(c)
  BY DEF DiscoveryInv, WriteConfig, OneCallerWrites
<1>2. scan' = Scanning /\ observed' = Discovering /\ UNCHANGED chain
  BY DEF WriteConfig
<1>3. overrides' = overrides \cup {c}
  BY DEF DiscoveryInv, WriteConfig, OneCallerWrites
<1>4. PICK a, f : a = (IF observed.state = "discovering" THEN "joined" ELSE "scanning") /\ f = caller[c].file
  OBVIOUS
<1>5. CallerBecomes(c, [at |-> a, scan |-> Joined, file |-> f])
  BY <1>1, <1>4, ScanAssigned DEF WriteConfig
<1>6. Joined \in Nat /\ scan'.n = Joined
  BY <1>1, <1>2, ScanningIs
<1>7. ScanTypes'
  <2>1. PICK n : n = Joined
    OBVIOUS
  <2>2. /\ caller' = [d \in Overriders |-> caller'[d]]
        /\ \A d \in Overriders :
             /\ caller'[d] = [at |-> caller'[d].at, scan |-> caller'[d].scan, file |-> caller'[d].file]
             /\ caller'[d].scan \in Nat
    BY <1>1, <1>5, <1>6, <2>1, CallersKeep
  <2> QED BY <1>1, <1>2, <2>2, ScanningIs DEF ScanTypes
<1>8. /\ \A d \in Overriders : d # c => caller'[d] = caller[d]
      /\ caller'[c].at = a /\ caller'[c].scan = scan'.n /\ a \in {"joined", "scanning"}
  BY <1>4, <1>5, <1>6 DEF CallerBecomes
<1>9. OneCallerWrites'
  BY <1>1, <1>2, <1>7, <1>8, TurnKeeps
<1>10. ASSUME NEW d \in Overriders PROVE OverrideIsReadBy(d)'
  <2>1. CASE d # c
    BY <1>1, <1>2, <1>3, <1>8, <2>1, ScanningKeeps DEF DiscoveryInv, OverrideIsRead
  <2>2. CASE d = c
    <3>1. a = "scanning" => scan'.at = "load"
      BY <1>1, <1>2, <1>4, ScanningIs DEF ScanTypes
    <3>2. scan'.n \in Nat /\ scan'.at # "none"
      BY <1>1, <1>2, ScanningIs
    <3> QED BY <1>3, <1>8, <2>2, <3>1, <3>2 DEF OverrideIsReadBy, Wrote, ScanIsOver
  <2> QED BY <2>1, <2>2
<1> QED BY <1>7, <1>9, <1>10 DEF DiscoveryInv, OverrideIsRead

(* A scan that may have read the file too early is followed by a second one. *)
LEMMA SecondScanKeeps ==
  ASSUME DiscoveryInv, NEW c \in Overriders, SecondScan(c)
  PROVE  DiscoveryInv'
<1>1. ScanTypes /\ caller[c].at = "joined" /\ First(c) /\ ScanIsOver(c)
  BY DEF DiscoveryInv, SecondScan, OneCallerWrites, ScanIsOver
<1>2. scan' = Scanning /\ observed' = Discovering /\ UNCHANGED <<overrides, chain>>
  BY DEF SecondScan
<1>3. PICK f : f = caller[c].file
  OBVIOUS
<1>4. CallerBecomes(c, [at |-> "scanning", scan |-> Joined, file |-> f])
  BY <1>1, <1>3, ScanAssigned DEF SecondScan
<1>5. Joined \in Nat /\ scan'.n = Joined
  BY <1>1, <1>2, ScanningIs
<1>6. ScanTypes'
  <2>1. PICK n : n = Joined
    OBVIOUS
  <2>2. /\ caller' = [d \in Overriders |-> caller'[d]]
        /\ \A d \in Overriders :
             /\ caller'[d] = [at |-> caller'[d].at, scan |-> caller'[d].scan, file |-> caller'[d].file]
             /\ caller'[d].scan \in Nat
    BY <1>1, <1>4, <1>5, <2>1, CallersKeep
  <2> QED BY <1>1, <1>2, <2>2, ScanningIs DEF ScanTypes
<1>7. /\ \A d \in Overriders : d # c => caller'[d] = caller[d]
      /\ caller'[c].at = "scanning" /\ caller'[c].scan = scan'.n
  BY <1>4, <1>5 DEF CallerBecomes
<1>8. OneCallerWrites'
  BY <1>1, <1>2, <1>6, <1>7, TurnKeeps
<1>9. ASSUME NEW d \in Overriders PROVE OverrideIsReadBy(d)'
  <2>1. CASE d # c
    BY <1>1, <1>2, <1>7, <2>1, ScanningKeeps DEF DiscoveryInv, OverrideIsRead
  <2>2. CASE d = c
    <3>1. scan'.n \in Nat /\ scan'.at # "none" /\ c \in overrides'
      BY <1>1, <1>2, ScanningIs DEF DiscoveryInv, OverrideIsRead, OverrideIsReadBy, Wrote
    <3>2. scan'.at = "observe" => c \in scan'.catalog \/ ~scan'.read
      <4>1. CASE scan.at = "none"
        BY <1>1, <1>2, <4>1, ScanningIs
      <4>2. CASE scan.at # "none"
        <5>1. scan' = scan /\ scan.n > caller[c].scan
          BY <1>1, <1>2, <4>2, ScanningIs DEF ScanIsOver
        <5> QED BY <1>1, <5>1 DEF DiscoveryInv, OverrideIsRead, OverrideIsReadBy, Wrote
      <4> QED BY <4>1, <4>2
    <3> QED BY <1>7, <2>2, <3>1, <3>2 DEF OverrideIsReadBy, Wrote, ScanIsOver
  <2> QED BY <2>1, <2>2
<1> QED BY <1>6, <1>8, <1>9 DEF DiscoveryInv, OverrideIsRead

(* The caller is answered, and the next one has its turn.                    *)
LEMMA FinishKeeps ==
  ASSUME DiscoveryInv, NEW c \in Overriders, Finish(c)
  PROVE  DiscoveryInv'
<1>1. ScanTypes /\ caller[c].at = "scanning" /\ First(c) /\ ScanIsOver(c)
  BY DEF DiscoveryInv, Finish, OneCallerWrites, ScanIsOver
<1>2. chain' = Tail(chain) /\ UNCHANGED <<overrides, scan, observed>>
  BY DEF Finish
<1>3. PICK n, r : n = caller[c].scan /\ r = caller[c].file
  OBVIOUS
<1>4. CallerBecomes(c, [at |-> "done", scan |-> n, file |-> r]) /\ n \in Nat
  BY <1>1, <1>3, AtAssigned DEF Finish, ScanTypes
<1>5. /\ \A d \in Overriders : d # c => caller'[d] = caller[d]
      /\ caller'[c].at = "done" /\ caller'[c].scan = caller[c].scan
  BY <1>3, <1>4 DEF CallerBecomes
<1>6. ScanTypes'
  BY <1>1, <1>2, <1>4, CallersKeep, ChainMoves DEF ScanTypes, First
<1>7. OneCallerWrites'
  BY <1>1, <1>5, <1>6, TurnKeeps
<1>8. ASSUME NEW d \in Overriders PROVE OverrideIsReadBy(d)'
  <2>1. OverrideIsReadBy(d)
    BY DEF DiscoveryInv, OverrideIsRead
  <2>2. CASE d # c
    BY <1>2, <1>5, <2>1, <2>2 DEF OverrideIsReadBy, Wrote, ScanIsOver
  <2>3. CASE d = c
    BY <1>1, <1>2, <1>5, <2>1, <2>3 DEF OverrideIsReadBy, Wrote, ScanIsOver
  <2> QED BY <2>2, <2>3
<1> QED BY <1>6, <1>7, <1>8 DEF DiscoveryInv, OverrideIsRead

(* Every step of the scans and of the callers keeps the invariant.           *)
LEMMA DiscoveryStep == DiscoveryInv /\ [DiscoveryNext]_discoveryVars => DiscoveryInv'
BY ScanStepsKeep, QueueKeeps, ReadKeeps, WriteKeeps, SecondScanKeeps, FinishKeeps DEF DiscoveryNext

(* The services share no state: a step of one is a step or a stutter of each *)
(* of the three.                                                             *)
LEMMA StepsAreOfOneService ==
  [NetworkNext]_<<focus, jobVars, netVars, httpVars, pubVars, presVars, accountVars, discoveryVars,
                  registryVars, profileVars, usageVars>>
    => [JobsNext]_jobVars /\ [UsageNext]_usageVars /\ [DiscoveryNext]_discoveryVars
<1> HIDE DEF jobVars, netVars, httpVars, pubVars, presVars, accountVars, discoveryVars, registryVars,
             profileVars, usageVars
<1> QED BY Zenon DEF NetworkNext, OnlyStep

(* For any jobs, peers, callers, answers and bounds: no job is lost while    *)
(* the host runs and none is left when it has stopped; a required update     *)
(* keeps the host agent and presence stopped; a started Codex reading always *)
(* has its next refresh; and the answer to a changed Agent path comes after  *)
(* a scan that read it (host.ts, runJob, runNow; codex-usage/service.ts,     *)
(* refreshNow; runtime/service.ts, setAgentPathOverride).                    *)
THEOREM WorkAlwaysGoesOn == NetworkSpec => []WorkGoesOn
<1>1. NetworkInit => JobsInv /\ UsageInv /\ DiscoveryInv
  BY JobsBegin, UsageBegins, DiscoveryBegins DEF NetworkInit
<1>2. JobsInv /\ UsageInv /\ DiscoveryInv
      /\ [NetworkNext]_<<focus, jobVars, netVars, httpVars, pubVars, presVars, accountVars, discoveryVars,
                         registryVars, profileVars, usageVars>>
        => (JobsInv /\ UsageInv /\ DiscoveryInv)'
  BY StepsAreOfOneService, JobsStep, UsageStep, DiscoveryStep
<1>3. JobsInv /\ UsageInv /\ DiscoveryInv => WorkGoesOn
  <2> SUFFICES ASSUME JobsInv, UsageInv, DiscoveryInv PROVE WorkGoesOn
    OBVIOUS
  <2>1. JobsFollowTheHost /\ UpdateRequiredStopsWork
    BY DEF JobsInv, JobsFollowTheHost
  <2>2. OverrideIsSeen
    BY DEF DiscoveryInv, OverrideIsRead, OverrideIsReadBy, Wrote, OverrideIsSeen
  <2> QED BY <2>1, <2>2 DEF UsageInv, WorkGoesOn
<1> QED BY <1>1, <1>2, <1>3, PTL DEF NetworkSpec
------------------------------------------------------------------------------
(* The published profile (ProfilePublication)                                *)

(* The stored write is the one being sent; once the Network has applied it,  *)
(* its value stands there unless another client wrote later.  The profile    *)
(* that a run has read is the present one, or a further call is coming.      *)
PubStages == {"begin", "read", "save", "resend", "send", "ended", "failed"}

PubTypes ==
  /\ pubCount.keys \in Nat /\ pubCount = [events |-> pubCount.events, keys |-> pubCount.keys]
  /\ pubServer.applied \subseteq 1 .. pubCount.keys
  /\ pubServer = [rev |-> pubServer.rev, value |-> pubServer.value, applied |-> pubServer.applied]
  /\ pubStore = NoProfileWrite \/ pubStore.key \in 1 .. pubCount.keys
  /\ pubRun.at \in PubStages
  /\ pubRun = [at |-> pubRun.at, desired |-> pubRun.desired, seen |-> pubRun.seen,
               write |-> pubRun.write, tries |-> pubRun.tries]

RunIsPresent ==
  pubRun.at \in {"read", "save", "resend", "send"} /\ ~pubDue /\ ~pubRerun => pubRun.desired = pubDesired

WriteIsStored ==
  /\ pubRun.at \in {"resend", "send"} => pubRun.write = pubStore /\ pubStore # NoProfileWrite
  /\ pubRun.at = "send" => pubRun.write.value = pubRun.desired

AppliedStands ==
  pubStore.key \in pubServer.applied => pubServer.value \in {pubStore.value, ForeignProfile}

PubInv == PubTypes /\ RunIsPresent /\ WriteIsStored /\ AppliedStands /\ PublishedProfileIsCurrent

(* A write that reaches the Network stands there, or another client's does.  *)
LEMMA ServerAppliedIs ==
  ASSUME PubInv, pubRun.at \in {"resend", "send"}, ServerApplies(pubRun.write)
  PROVE  /\ pubServer' = [rev |-> pubServer'.rev, value |-> pubServer'.value, applied |-> pubServer'.applied]
         /\ pubServer'.applied \subseteq 1 .. pubCount.keys
         /\ pubServer'.value \in {pubRun.write.value, ForeignProfile}
<1>1. pubRun.write = pubStore /\ pubStore.key \in 1 .. pubCount.keys
  BY DEF PubInv, WriteIsStored, PubTypes
<1>2. CASE pubRun.write.key \in pubServer.applied
  BY <1>1, <1>2 DEF ServerApplies, PubInv, PubTypes, AppliedStands
<1>3. CASE pubRun.write.key \notin pubServer.applied
  <2>1. PICK w : w = pubRun.write
    OBVIOUS
  <2>2. pubServer' = [rev |-> pubServer.rev + 1, value |-> w.value, applied |-> pubServer.applied \cup {w.key}]
    BY <1>3, <2>1 DEF ServerApplies
  <2> QED BY <1>1, <2>1, <2>2 DEF PubInv, PubTypes
<1> QED BY <1>2, <1>3

(* What the end of a run, or its next pass, leaves (ProfileDone, and a       *)
(* failure).                                                                 *)
LEMMA RunRests ==
  ASSUME NEW at \in {"begin", "ended", "failed"}, pubRun' = PubResting(at)
  PROVE  /\ pubRun'.at = at
         /\ pubRun' = [at |-> pubRun'.at, desired |-> pubRun'.desired, seen |-> pubRun'.seen,
                       write |-> pubRun'.write, tries |-> pubRun'.tries]
BY DEF PubResting

(* An answered write is no longer pending, and the run ends or begins anew.  *)
LEMMA PubEnds ==
  ASSUME PubInv, ProfileDone, UNCHANGED <<pubDesired, pubDue, pubCount>>,
         pubRun.at \in {"read", "resend", "send"},
         pubServer'.value \in {pubRun.desired, ForeignProfile},
         pubServer' = [rev |-> pubServer'.rev, value |-> pubServer'.value, applied |-> pubServer'.applied],
         pubServer'.applied \subseteq 1 .. pubCount.keys,
         \/ pubStore' = NoProfileWrite
         \/ pubStore' = pubStore /\ pubServer' = pubServer
  PROVE  PubInv'
<1>1. \/ pubRerun /\ pubRun' = PubResting("begin")
      \/ ~pubRerun /\ pubRerun' = pubRerun /\ pubRun' = PubResting("ended")
  BY DEF ProfileDone
<1>2. /\ pubRun' = [at |-> pubRun'.at, desired |-> pubRun'.desired, seen |-> pubRun'.seen,
                    write |-> pubRun'.write, tries |-> pubRun'.tries]
      /\ pubRun'.at = "begin" \/ (pubRun'.at = "ended" /\ ~pubRerun)
  BY <1>1, RunRests
<1>3. PubTypes'
  BY <1>2 DEF PubInv, PubTypes, PubStages, NoProfileWrite
<1>4. RunIsPresent' /\ WriteIsStored'
  BY <1>2 DEF RunIsPresent, WriteIsStored
<1>5. AppliedStands'
  BY <1>3 DEF PubInv, AppliedStands, NoProfileWrite, ForeignProfile
<1>6. PublishedProfileIsCurrent'
  BY <1>2 DEF PublishedProfileIsCurrent, PubInv, RunIsPresent, ForeignProfile
<1> QED BY <1>3, <1>4, <1>5, <1>6 DEF PubInv

(* A step that only moves the run between its awaits, or fails it.           *)
LEMMA PubMoves ==
  ASSUME PubInv, UNCHANGED <<pubDesired, pubDue, pubCount, pubRerun>>,
         pubServer' = [rev |-> pubServer'.rev, value |-> pubServer'.value, applied |-> pubServer'.applied],
         pubServer'.applied \subseteq 1 .. pubCount.keys,
         \/ pubStore' = NoProfileWrite
         \/ pubStore' = pubStore /\ pubServer' = pubServer
         \/ pubStore' = pubStore /\ pubServer'.value \in {pubStore.value, ForeignProfile},
         pubRun' = [at |-> pubRun'.at, desired |-> pubRun'.desired, seen |-> pubRun'.seen,
                    write |-> pubRun'.write, tries |-> pubRun'.tries],
         \/ pubRun'.at = "failed"
         \/ pubRun'.at \in {"read", "save"} /\ pubRun'.desired = pubRun.desired
            /\ pubRun.at \in {"read", "resend", "send"}
  PROVE  PubInv'
<1>1. PubTypes'
  BY DEF PubInv, PubTypes, PubStages, NoProfileWrite
<1>2. RunIsPresent' /\ WriteIsStored' /\ PublishedProfileIsCurrent'
  BY DEF PubInv, RunIsPresent, WriteIsStored, PublishedProfileIsCurrent
<1>3. AppliedStands'
  BY <1>1 DEF PubInv, PubTypes, AppliedStands, NoProfileWrite, ForeignProfile
<1> QED BY <1>1, <1>2, <1>3 DEF PubInv

(* The answers to a write: applied, or refused for its revision.             *)
LEMMA AnswersKeep ==
  ASSUME PubInv, ResendAnswered \/ WriteAnswered \/ WriteConflicts
  PROVE  PubInv'
<1>0. pubRun = [at |-> pubRun.at, desired |-> pubRun.desired, seen |-> pubRun.seen,
                write |-> pubRun.write, tries |-> pubRun.tries]
  BY DEF PubInv, PubTypes
<1>1. CASE ResendAnswered
  <2>1. pubRun.at = "resend" /\ ServerApplies(pubRun.write) /\ pubStore' = NoProfileWrite
        /\ UNCHANGED <<pubDesired, pubDue, pubCount>>
    BY <1>1 DEF ResendAnswered
  <2>2. CASE pubRun.write.value = pubRun.desired
    <3>1. ProfileDone
      BY <1>1, <2>2 DEF ResendAnswered
    <3> QED BY <2>1, <2>2, <3>1, ServerAppliedIs, PubEnds
  <2>3. CASE pubRun.write.value # pubRun.desired
    <3>1. pubRun' = [pubRun EXCEPT !.at = "read"] /\ UNCHANGED pubRerun
      BY <1>1, <2>3 DEF ResendAnswered
    <3>2. pubRun' = [at |-> "read", desired |-> pubRun.desired, seen |-> pubRun.seen,
                     write |-> pubRun.write, tries |-> pubRun.tries]
      BY <1>0, <3>1
    <3> QED BY <2>1, <3>1, <3>2, ServerAppliedIs, PubMoves
  <2> QED BY <2>2, <2>3
<1>2. CASE WriteAnswered
  <2>1. /\ pubRun.at = "send" /\ ServerApplies(pubRun.write) /\ pubStore' = NoProfileWrite /\ ProfileDone
        /\ UNCHANGED <<pubDesired, pubDue, pubCount>>
    BY <1>2 DEF WriteAnswered
  <2>2. pubRun.write.value = pubRun.desired
    BY <2>1 DEF PubInv, WriteIsStored
  <2> QED BY <2>1, <2>2, ServerAppliedIs, PubEnds
<1>3. CASE WriteConflicts
  <2>1. /\ pubRun.at \in {"resend", "send"} /\ pubStore' = NoProfileWrite
        /\ UNCHANGED <<pubDesired, pubDue, pubServer, pubRerun, pubCount>>
    BY <1>3 DEF WriteConflicts
  <2>2. \/ pubRun' = PubResting("failed")
        \/ \E t : pubRun' = [pubRun EXCEPT !.tries = t, !.at = "read"]
    BY <1>3 DEF WriteConflicts, ProfileFails
  <2>3. /\ pubRun' = [at |-> pubRun'.at, desired |-> pubRun'.desired, seen |-> pubRun'.seen,
                      write |-> pubRun'.write, tries |-> pubRun'.tries]
        /\ pubRun'.at = "failed" \/ (pubRun'.at = "read" /\ pubRun'.desired = pubRun.desired)
    <3>1. CASE pubRun' = PubResting("failed")
      BY <3>1, RunRests
    <3>2. CASE \E t : pubRun' = [pubRun EXCEPT !.tries = t, !.at = "read"]
      <4>1. PICK t : pubRun' = [pubRun EXCEPT !.tries = t, !.at = "read"]
        BY <3>2
      <4>2. pubRun' = [at |-> "read", desired |-> pubRun.desired, seen |-> pubRun.seen,
                       write |-> pubRun.write, tries |-> t]
        BY <1>0, <4>1
      <4> QED BY <4>2
    <3> QED BY <2>2, <3>1, <3>2
  <2>4. /\ pubServer = [rev |-> pubServer.rev, value |-> pubServer.value, applied |-> pubServer.applied]
        /\ pubServer.applied \subseteq 1 .. pubCount.keys
    BY DEF PubInv, PubTypes
  <2> QED BY <2>1, <2>3, <2>4, PubMoves
<1> QED BY <1>1, <1>2, <1>3

(* The steps before a write: the call, the reads, the write saved.           *)
LEMMA BeforeWriteKeeps ==
  ASSUME PubInv, ProfileSynchronize \/ ProfileBegins \/ ReadProfile \/ SaveWrite \/ PubSendFails
  PROVE  PubInv'
<1>0. /\ pubRun = [at |-> pubRun.at, desired |-> pubRun.desired, seen |-> pubRun.seen,
                   write |-> pubRun.write, tries |-> pubRun.tries]
      /\ pubServer = [rev |-> pubServer.rev, value |-> pubServer.value, applied |-> pubServer.applied]
      /\ pubServer.applied \subseteq 1 .. pubCount.keys
  BY DEF PubInv, PubTypes
<1>1. CASE ProfileSynchronize
  <2>1. /\ pubDue' = FALSE /\ pubDue /\ UNCHANGED <<pubDesired, pubServer, pubStore, pubCount>>
        /\ \/ PubInFlight /\ pubRerun' = TRUE /\ pubRun' = pubRun
           \/ ~PubInFlight /\ pubRun' = PubResting("begin")
    BY <1>1 DEF ProfileSynchronize
  <2>2. CASE PubInFlight /\ pubRerun' = TRUE /\ pubRun' = pubRun
    BY <2>1, <2>2 DEF PubInFlight, PubInv, PubTypes, RunIsPresent, WriteIsStored, AppliedStands,
                      PublishedProfileIsCurrent, ForeignProfile
  <2>3. CASE ~PubInFlight /\ pubRun' = PubResting("begin")
    <3>1. /\ pubRun'.at = "begin"
          /\ pubRun' = [at |-> pubRun'.at, desired |-> pubRun'.desired, seen |-> pubRun'.seen,
                        write |-> pubRun'.write, tries |-> pubRun'.tries]
      BY <2>3, RunRests
    <3> QED BY <2>1, <3>1 DEF PubInv, PubTypes, PubStages, RunIsPresent, WriteIsStored, AppliedStands,
                              PublishedProfileIsCurrent, ForeignProfile
  <2> QED BY <2>1, <2>2, <2>3
<1>2. CASE ProfileBegins
  <2>1. UNCHANGED <<pubDesired, pubDue, pubServer, pubStore, pubRerun, pubCount>>
    BY <1>2 DEF ProfileBegins
  <2>2. CASE ProfileFails
    <3>1. /\ pubRun'.at = "failed"
          /\ pubRun' = [at |-> pubRun'.at, desired |-> pubRun'.desired, seen |-> pubRun'.seen,
                        write |-> pubRun'.write, tries |-> pubRun'.tries]
      BY <2>2, RunRests DEF ProfileFails
    <3> QED BY <1>0, <2>1, <3>1, PubMoves
  <2>3. CASE ~ProfileFails
    <3>1. PICK a : a = IF pubStore = NoProfileWrite THEN "read" ELSE "resend"
      OBVIOUS
    <3>2. pubRun' = [pubRun EXCEPT !.desired = pubDesired, !.write = pubStore, !.at = a]
      BY <1>2, <2>3, <3>1 DEF ProfileBegins
    <3>3. pubRun' = [at |-> a, desired |-> pubDesired, seen |-> pubRun.seen,
                     write |-> pubStore, tries |-> pubRun.tries]
      BY <1>0, <3>2
    <3> QED BY <2>1, <3>1, <3>3 DEF PubInv, PubTypes, PubStages, RunIsPresent, WriteIsStored, AppliedStands,
                                    PublishedProfileIsCurrent, ForeignProfile
  <2> QED BY <2>2, <2>3
<1>3. CASE ReadProfile
  <2>1. pubRun.at = "read" /\ UNCHANGED <<pubDesired, pubDue, pubServer, pubStore, pubCount>>
    BY <1>3 DEF ReadProfile
  <2>2. CASE pubServer.value = pubRun.desired /\ ProfileDone
    BY <1>0, <2>1, <2>2, PubEnds
  <2>3. CASE pubRun' = [pubRun EXCEPT !.at = "save", !.seen = pubServer.rev] /\ UNCHANGED pubRerun
    <3>1. pubRun' = [at |-> "save", desired |-> pubRun.desired, seen |-> pubServer.rev,
                     write |-> pubRun.write, tries |-> pubRun.tries]
      BY <1>0, <2>3
    <3> QED BY <1>0, <2>1, <2>3, <3>1, PubMoves
  <2>4. CASE ProfileFails /\ UNCHANGED pubRerun
    <3>1. /\ pubRun'.at = "failed"
          /\ pubRun' = [at |-> pubRun'.at, desired |-> pubRun'.desired, seen |-> pubRun'.seen,
                        write |-> pubRun'.write, tries |-> pubRun'.tries]
      BY <2>4, RunRests DEF ProfileFails
    <3> QED BY <1>0, <2>1, <2>4, <3>1, PubMoves
  <2> QED BY <1>3, <2>2, <2>3, <2>4 DEF ReadProfile
<1>4. CASE SaveWrite
  <2>1. PICK n \in Nat : n = pubCount.keys + 1
    BY DEF PubInv, PubTypes
  <2>2. pubCount' = [events |-> pubCount.events, keys |-> n]
    <3>1. pubCount' = [pubCount EXCEPT !.keys = n]
      BY <1>4, <2>1 DEF SaveWrite
    <3> QED BY <3>1 DEF PubInv, PubTypes
  <2>3. /\ pubStore' = [key |-> n, rev |-> pubRun.seen, value |-> pubRun.desired]
        /\ pubRun.at = "save" /\ UNCHANGED <<pubDesired, pubDue, pubServer, pubRerun>>
    BY <1>4, <2>1 DEF SaveWrite
  <2>4. PICK w : w = pubStore'
    OBVIOUS
  <2>5. pubRun' = [pubRun EXCEPT !.at = "send", !.write = w]
    BY <1>4, <2>4 DEF SaveWrite
  <2>6. pubRun' = [at |-> "send", desired |-> pubRun.desired, seen |-> pubRun.seen,
                   write |-> w, tries |-> pubRun.tries]
    BY <1>0, <2>5
  <2>7. n \notin pubServer.applied
    BY <1>0, <2>1 DEF PubInv, PubTypes
  <2>8. w.key = n /\ w.value = pubRun.desired /\ w = pubStore' /\ n # 0
    BY <2>1, <2>3, <2>4 DEF PubInv, PubTypes
  <2>9. /\ pubRun'.at = "send" /\ pubRun'.write = w /\ pubRun'.desired = pubRun.desired
        /\ pubRun' = [at |-> pubRun'.at, desired |-> pubRun'.desired, seen |-> pubRun'.seen,
                      write |-> pubRun'.write, tries |-> pubRun'.tries]
    BY <2>6
  <2>10. pubCount'.keys = n /\ pubCount' = [events |-> pubCount'.events, keys |-> pubCount'.keys]
    BY <2>2
  <2>11. PubTypes'
    BY <1>0, <2>1, <2>3, <2>8, <2>9, <2>10 DEF PubInv, PubTypes, PubStages
  <2>12. WriteIsStored' /\ RunIsPresent' /\ AppliedStands'
    BY <1>0, <2>3, <2>7, <2>8, <2>9 DEF PubInv, RunIsPresent, WriteIsStored, AppliedStands, NoProfileWrite
  <2> QED BY <2>9, <2>11, <2>12 DEF PubInv, PublishedProfileIsCurrent
<1>5. CASE PubSendFails
  <2>1. /\ pubRun.at \in {"resend", "send"} /\ UNCHANGED <<pubDesired, pubDue, pubStore, pubRerun, pubCount>>
        /\ UNCHANGED pubServer \/ ServerApplies(pubRun.write)
    BY <1>5 DEF PubSendFails
  <2>2. /\ pubRun'.at = "failed"
        /\ pubRun' = [at |-> pubRun'.at, desired |-> pubRun'.desired, seen |-> pubRun'.seen,
                      write |-> pubRun'.write, tries |-> pubRun'.tries]
    BY <1>5, RunRests DEF PubSendFails, ProfileFails
  <2>3. pubRun.write = pubStore
    BY <2>1 DEF PubInv, WriteIsStored
  <2> QED BY <1>0, <2>1, <2>2, <2>3, ServerAppliedIs, PubMoves
<1> QED BY <1>1, <1>2, <1>3, <1>4, <1>5

(* The local profile, another client and the process change meanwhile.       *)
LEMMA AroundPubKeeps ==
  ASSUME PubInv, LocalProfileChange \/ ForeignWrite \/ ProfileRetry \/ ProfileRestart \/ UNCHANGED pubVars
  PROVE  PubInv'
<1>1. CASE LocalProfileChange \/ ForeignWrite \/ ProfileRestart
  <2>1. PICK e : pubCount' = [pubCount EXCEPT !.events = e]
    BY <1>1 DEF LocalProfileChange, ForeignWrite, ProfileRestart, PubEvent
  <2>2. pubCount' = [events |-> e, keys |-> pubCount.keys] /\ pubCount'.keys = pubCount.keys
    BY <2>1 DEF PubInv, PubTypes
  <2>3. CASE LocalProfileChange
    BY <2>2, <2>3 DEF LocalProfileChange, PubInv, PubTypes, RunIsPresent, WriteIsStored, AppliedStands,
                      PublishedProfileIsCurrent, ForeignProfile
  <2>4. CASE ForeignWrite
    <3>1. PICK r : pubServer' = [pubServer EXCEPT !.rev = r, !.value = ForeignProfile]
      BY <2>4 DEF ForeignWrite
    <3>2. pubServer' = [rev |-> r, value |-> ForeignProfile, applied |-> pubServer.applied]
      BY <3>1 DEF PubInv, PubTypes
    <3> QED BY <2>2, <2>4, <3>2 DEF ForeignWrite, PubInv, PubTypes, RunIsPresent, WriteIsStored, AppliedStands,
                                    PublishedProfileIsCurrent, ForeignProfile
  <2>5. CASE ProfileRestart
    <3>1. /\ pubRun'.at = "failed"
          /\ pubRun' = [at |-> pubRun'.at, desired |-> pubRun'.desired, seen |-> pubRun'.seen,
                        write |-> pubRun'.write, tries |-> pubRun'.tries]
      BY <2>5, RunRests DEF ProfileRestart
    <3> QED BY <2>2, <2>5, <3>1 DEF ProfileRestart, PubInv, PubTypes, PubStages, RunIsPresent, WriteIsStored,
                                    AppliedStands, PublishedProfileIsCurrent, ForeignProfile
  <2> QED BY <1>1, <2>3, <2>4, <2>5
<1>2. CASE ProfileRetry \/ UNCHANGED pubVars
  BY <1>2 DEF ProfileRetry, pubVars, PubInv, PubTypes, RunIsPresent, WriteIsStored, AppliedStands,
              PublishedProfileIsCurrent, ForeignProfile
<1> QED BY <1>1, <1>2

(* Nothing is published and nothing has failed before the first run.         *)
LEMMA PubBegins == PubInit => PubInv
<1> SUFFICES ASSUME PubInit PROVE PubInv
  OBVIOUS
<1>1. pubRun = [at |-> "failed", desired |-> 0, seen |-> 0, write |-> NoProfileWrite, tries |-> 0]
  BY DEF PubInit, PubResting
<1> QED BY <1>1 DEF PubInit, PubInv, PubTypes, PubStages, RunIsPresent, WriteIsStored, AppliedStands,
                    NoProfileWrite, PublishedProfileIsCurrent

(* Every step of the publication keeps the invariant.                        *)
LEMMA PubStep == PubInv /\ [PubNext]_pubVars => PubInv'
BY AnswersKeep, BeforeWriteKeeps, AroundPubKeeps DEF PubNext

------------------------------------------------------------------------------
(* Presence (PresenceReports)                                                *)

(* The newest report is the one in flight or the one the timer will repeat;  *)
(* every other is older, wherever it is.                                     *)
Elsewhere == presWire \cup {presService}

PresTypes ==
  /\ presNext \in Nat \ {0}
  /\ presFlight = [stage |-> presFlight.stage, report |-> presFlight.report, aborted |-> presFlight.aborted]
  /\ presFlight.stage \in {"none", "auth", "sent", "reading", "stale"}
  /\ presHost = [active |-> presHost.active, sleeping |-> presHost.sleeping, foreground |-> presHost.foreground,
                 panel |-> presHost.panel, collaborating |-> presHost.collaborating]
  /\ {presHost.active, presHost.sleeping, presFlight.aborted, presAgain} \subseteq BOOLEAN
  /\ presTimer.kind = "same" \/ presTimer \in {NoTimer, NewReportDue}
  /\ \A r \in Elsewhere : r.seq \in Nat

NewestIsKnown ==
  /\ InTheAir => presFlight.report.seq = presNext - 1
  /\ presTimer.kind = "same" => presTimer.report.seq = presNext - 1
  /\ \A r \in Elsewhere :
       /\ r.seq < presNext
       /\ r.seq = presNext - 1 => /\ InTheAir => r = presFlight.report
                                  /\ presTimer.kind = "same" => r = presTimer.report

FlightIsPresent ==
  /\ InTheAir /\ Reporting(presHost) /\ ~presAgain =>
       presFlight.report.mode = PresenceMode(presHost) /\ ~presFlight.aborted
  /\ presFlight.stage = "reading" => presService = presFlight.report
  /\ presTimer # NoTimer => ~InTheAir /\ Reporting(presHost)
  /\ presTimer.kind = "same" => presTimer.report.mode = PresenceMode(presHost)

ReportStands ==
  Reporting(presHost) /\ ~InTheAir =>
    /\ presTimer # NoTimer
    /\ presState = "online" => presService.seq = presNext - 1 /\ presService.mode = PresenceMode(presHost)

PresInv == PresTypes /\ NewestIsKnown /\ FlightIsPresent /\ ReportStands

(* An attempt at a report with a new number: no other report has it.         *)
LEMMA NewReportKeeps ==
  ASSUME PresInv, presTimer' = NoTimer, StartAttempt(NewReport(presHost')), presNext' = presNext + 1,
         presAgain' \in BOOLEAN, presWire' = presWire, presService' = presService,
         presHost' = [active |-> presHost'.active, sleeping |-> presHost'.sleeping,
                      foreground |-> presHost'.foreground, panel |-> presHost'.panel,
                      collaborating |-> presHost'.collaborating],
         {presHost'.active, presHost'.sleeping} \subseteq BOOLEAN
  PROVE  PresInv'
<1>1. PICK r : r = NewReport(presHost')
  OBVIOUS
<1>2. r.seq = presNext /\ r.mode = PresenceMode(presHost')
  BY <1>1 DEF NewReport
<1>3. presFlight' = [stage |-> "auth", report |-> r, aborted |-> FALSE]
  BY <1>1 DEF StartAttempt
<1>4. /\ presFlight'.stage = "auth" /\ presFlight'.report = r /\ presFlight'.aborted = FALSE
      /\ presFlight' = [stage |-> presFlight'.stage, report |-> presFlight'.report, aborted |-> presFlight'.aborted]
  BY <1>3
<1>5. presTimer'.kind = "none"
  BY DEF NoTimer
<1>6. Elsewhere' = Elsewhere /\ presNext \in Nat \ {0} /\ presNext' \in Nat \ {0} /\ presNext' - 1 = presNext
  BY DEF Elsewhere, PresInv, PresTypes
<1>7. \A e \in Elsewhere : e.seq \in Nat /\ e.seq < presNext
  BY DEF PresInv, PresTypes, NewestIsKnown
<1>8. PresTypes'
  BY <1>4, <1>6, <1>7 DEF PresTypes, NoTimer
<1>9. NewestIsKnown'
  BY <1>2, <1>4, <1>5, <1>6, <1>7 DEF NewestIsKnown
<1>10. FlightIsPresent' /\ ReportStands'
  BY <1>2, <1>4, <1>5 DEF FlightIsPresent, ReportStands, InTheAir
<1> QED BY <1>8, <1>9, <1>10 DEF PresInv

(* The end of an attempt: a timer is set unless another report starts or     *)
(* nothing is reported; "online" only after the service has the report.      *)
LEMMA AttemptEndsKeeps ==
  ASSUME PresInv, InTheAir, NEW state, NEW timer, AttemptEnds(state, timer), presWire' = presWire,
         timer \in {NoTimer, NewReportDue, SameReportDue(presFlight.report)},
         Reporting(presHost) /\ ~presAgain => timer # NoTimer,
         Reporting(presHost) /\ ~presAgain /\ state = "online" => presFlight.stage = "reading"
  PROVE  PresInv'
<1>1. /\ presHost' = presHost /\ presService' = presService
      /\ presTimer' = IF Reporting(presHost) /\ ~presAgain THEN timer ELSE NoTimer
      /\ presState' = IF presStopping THEN "stopped" ELSE state
      /\ presAgain' = (presAgain /\ ~(presAgain /\ Reporting(presHost)))
  BY DEF AttemptEnds
<1>2. presHost = [active |-> presHost.active, sleeping |-> presHost.sleeping,
                  foreground |-> presHost.foreground, panel |-> presHost.panel,
                  collaborating |-> presHost.collaborating]
      /\ {presHost.active, presHost.sleeping} \subseteq BOOLEAN /\ presAgain \in BOOLEAN
  BY DEF PresInv, PresTypes
<1>3. CASE presAgain /\ Reporting(presHost)
  <2>1. StartAttempt(NewReport(presHost')) /\ presNext' = presNext + 1 /\ presTimer' = NoTimer
    BY <1>1, <1>3 DEF AttemptEnds
  <2> QED BY <1>1, <1>2, <2>1, NewReportKeeps
<1>4. CASE ~(presAgain /\ Reporting(presHost))
  <2>1. presFlight' = NoFlight /\ presNext' = presNext
    BY <1>4 DEF AttemptEnds
  <2>2. /\ presFlight' = [stage |-> presFlight'.stage, report |-> presFlight'.report, aborted |-> presFlight'.aborted]
        /\ presFlight'.stage = "none" /\ presFlight'.aborted = FALSE
    BY <2>1 DEF NoFlight
  <2>3. Elsewhere' = Elsewhere
    BY <1>1 DEF Elsewhere
  <2>4. presAgain' \in BOOLEAN
    BY <1>1, <1>2
  <2>5. \/ presTimer' = NoTimer /\ presTimer'.kind = "none"
        \/ presTimer' = NewReportDue /\ presTimer'.kind = "new"
        \/ /\ presTimer'.kind = "same" /\ presTimer'.report = presFlight.report
           /\ Reporting(presHost) /\ ~presAgain
    BY <1>1 DEF NoTimer, NewReportDue, SameReportDue
  <2>6. presTimer' # NoTimer => Reporting(presHost) /\ ~presAgain
    BY <1>1
  <2>7. PresTypes'
    BY <1>1, <2>1, <2>2, <2>3, <2>4, <2>5 DEF PresInv, PresTypes
  <2>8. NewestIsKnown'
    BY <1>1, <2>1, <2>2, <2>3, <2>5 DEF PresInv, NewestIsKnown, InTheAir
  <2>9. FlightIsPresent'
    BY <1>1, <2>2, <2>5, <2>6 DEF PresInv, FlightIsPresent, InTheAir
  <2>10. ReportStands'
    <3> SUFFICES ASSUME Reporting(presHost)
                 PROVE  /\ presTimer' # NoTimer
                        /\ presState' = "online" =>
                             presService.seq = presNext - 1 /\ presService.mode = PresenceMode(presHost)
      BY <1>1, <2>1 DEF ReportStands
    <3>1. ~presAgain
      BY <1>4
    <3>2. presTimer' # NoTimer
      BY <1>1, <3>1
    <3>3. presState' = "online" => presFlight.stage = "reading"
      BY <1>1, <3>1
    <3>4. presFlight.stage = "reading" => presService = presFlight.report
      BY DEF PresInv, FlightIsPresent
    <3>5. presFlight.report.mode = PresenceMode(presHost) /\ presFlight.report.seq = presNext - 1
      BY <3>1 DEF PresInv, FlightIsPresent, NewestIsKnown
    <3> QED BY <3>2, <3>3, <3>4, <3>5
  <2> QED BY <2>7, <2>8, <2>9, <2>10 DEF PresInv
<1> QED BY <1>3, <1>4

(* The same for an attempt that failed: the timer is set when its report is  *)
(* still the one to make.                                                    *)
LEMMA AttemptFailsKeeps ==
  ASSUME PresInv, InTheAir, NEW timer, AttemptFails(timer), presWire' = presWire,
         timer \in {NoTimer, NewReportDue, SameReportDue(presFlight.report)},
         ~presFlight.aborted => timer # NoTimer
  PROVE  PresInv'
<1>1. Reporting(presHost) /\ ~presAgain => ~presFlight.aborted
  BY DEF PresInv, FlightIsPresent
<1>2. CASE presFlight.aborted \/ ~Reporting(presHost)
  <2>1. AttemptEnds(presState, NoTimer)
    BY <1>2 DEF AttemptFails
  <2> QED BY <1>1, <1>2, <2>1, AttemptEndsKeeps
<1>3. CASE ~(presFlight.aborted \/ ~Reporting(presHost))
  <2>1. AttemptEnds("unavailable", timer)
    BY <1>3 DEF AttemptFails
  <2> QED BY <1>3, <2>1, AttemptEndsKeeps
<1> QED BY <1>2, <1>3

(* The ends of an attempt.                                                   *)
LEMMA AttemptsEndKeep ==
  ASSUME PresInv, AttemptSucceeds \/ AttemptIsStale \/ AttemptGoesWrong \/ AttemptIsAborted
  PROVE  PresInv'
<1>1. /\ NewReportDue # NoTimer
      /\ SameReportDue(presFlight.report) # NoTimer
  BY DEF NewReportDue, NoTimer, SameReportDue
<1>2. CASE AttemptSucceeds
  <2>1. InTheAir /\ AttemptEnds("online", NewReportDue) /\ presWire' = presWire /\ presFlight.stage = "reading"
    BY <1>2 DEF AttemptSucceeds, InTheAir
  <2> QED BY <1>1, <2>1, AttemptEndsKeeps
<1>3. CASE AttemptIsStale
  <2>1. InTheAir /\ AttemptFails(NewReportDue) /\ presWire' = presWire
    BY <1>3 DEF AttemptIsStale, InTheAir
  <2> QED BY <1>1, <2>1, AttemptFailsKeeps
<1>4. CASE AttemptGoesWrong
  <2>1. InTheAir /\ AttemptFails(SameReportDue(presFlight.report)) /\ presWire' = presWire
    BY <1>4 DEF AttemptGoesWrong, InTheAir
  <2> QED BY <1>1, <2>1, AttemptFailsKeeps
<1>5. CASE AttemptIsAborted
  <2>1. InTheAir /\ AttemptFails(NoTimer) /\ presWire' = presWire /\ presFlight.aborted
    BY <1>5 DEF AttemptIsAborted, InTheAir
  <2> QED BY <2>1, AttemptFailsKeeps
<1> QED BY <1>2, <1>3, <1>4, <1>5

(* A report leaves, and reaches the service.                                 *)
LEMMA ReportTravels ==
  ASSUME PresInv, AttemptSent \/ \E report \in presWire : ServiceHolds(report)
  PROVE  PresInv'
<1>1. CASE AttemptSent
  <2>1. presFlight.stage = "auth" /\ InTheAir
    BY <1>1 DEF AttemptSent, InTheAir
  <2>2. CASE presFlight.aborted
    <3>1. AttemptEnds(presState, NoTimer) /\ presWire' = presWire
      BY <1>1, <2>2 DEF AttemptSent
    <3>2. ~(Reporting(presHost) /\ ~presAgain)
      BY <2>1, <2>2 DEF PresInv, FlightIsPresent
    <3> QED BY <2>1, <3>1, <3>2, AttemptEndsKeeps
  <2>3. CASE ~presFlight.aborted
    <3>1. /\ presFlight' = [presFlight EXCEPT !.stage = "sent"]
          /\ presWire' = presWire \cup {presFlight.report}
          /\ UNCHANGED <<presHost, presAgain, presTimer, presState, presNext, presStopping, presService>>
      BY <1>1, <2>3 DEF AttemptSent
    <3>2. presFlight' = [stage |-> "sent", report |-> presFlight.report, aborted |-> presFlight.aborted]
      BY <3>1 DEF PresInv, PresTypes
    <3>3. presFlight'.stage = "sent" /\ presFlight'.report = presFlight.report
          /\ presFlight'.aborted = presFlight.aborted
          /\ presFlight' = [stage |-> presFlight'.stage, report |-> presFlight'.report, aborted |-> presFlight'.aborted]
      BY <3>2
    <3>4. Elsewhere' = Elsewhere \cup {presFlight.report}
      BY <3>1 DEF Elsewhere
    <3>5. presFlight.report.seq = presNext - 1 /\ presNext \in Nat \ {0} /\ presTimer.kind # "same"
      BY <2>1 DEF PresInv, PresTypes, NewestIsKnown, FlightIsPresent, NoTimer
    <3>6. PresTypes'
      BY <3>1, <3>3, <3>4, <3>5 DEF PresInv, PresTypes
    <3>7. NewestIsKnown'
      BY <2>1, <3>1, <3>3, <3>4, <3>5 DEF PresInv, NewestIsKnown, InTheAir
    <3>8. FlightIsPresent' /\ ReportStands'
      BY <2>1, <3>1, <3>3 DEF PresInv, FlightIsPresent, ReportStands, InTheAir
    <3> QED BY <3>6, <3>7, <3>8 DEF PresInv
  <2> QED BY <2>2, <2>3
<1>2. ASSUME NEW report \in presWire, ServiceHolds(report) PROVE PresInv'
  <2>1. /\ presWire' = presWire \ {report}
        /\ presService' = IF report.seq > presService.seq THEN report ELSE presService
        /\ UNCHANGED <<presHost, presAgain, presTimer, presState, presNext, presStopping>>
    BY <1>2 DEF ServiceHolds
  <2>2. PICK answer \in {"reading", "stale"} :
          /\ \/ report.seq = presService.seq
             \/ (answer = "reading") = (report.seq > presService.seq)
          /\ presFlight' = IF presFlight.stage = "sent" /\ presFlight.report = report
                             THEN [presFlight EXCEPT !.stage = answer]
                             ELSE presFlight
    BY <1>2 DEF ServiceHolds
  <2>3. report \in Elsewhere /\ presService \in Elsewhere /\ Elsewhere' \subseteq Elsewhere
    BY <2>1 DEF Elsewhere
  <2>4. /\ presNext \in Nat \ {0} /\ report.seq \in Nat /\ presService.seq \in Nat
        /\ report.seq < presNext /\ presService.seq < presNext
    BY <2>3 DEF PresInv, PresTypes, NewestIsKnown
  <2>5. presService.seq = presNext - 1 => presService' = presService
    BY <2>1, <2>4
  <2>6. PICK s : /\ presFlight' = [stage |-> s, report |-> presFlight.report, aborted |-> presFlight.aborted]
                 /\ \/ s = presFlight.stage
                    \/ presFlight.stage = "sent" /\ presFlight.report = report /\ s = answer
    <3>1. CASE presFlight.stage = "sent" /\ presFlight.report = report
      BY <2>2, <3>1 DEF PresInv, PresTypes
    <3>2. CASE ~(presFlight.stage = "sent" /\ presFlight.report = report)
      BY <2>2, <3>2 DEF PresInv, PresTypes
    <3> QED BY <3>1, <3>2
  <2>7. /\ presFlight'.stage = s /\ presFlight'.report = presFlight.report
        /\ presFlight'.aborted = presFlight.aborted
        /\ presFlight' = [stage |-> presFlight'.stage, report |-> presFlight'.report, aborted |-> presFlight'.aborted]
        /\ s = "none" <=> presFlight.stage = "none"
        /\ s \in {"none", "auth", "sent", "reading", "stale"}
    BY <2>2, <2>6 DEF PresInv, PresTypes
  <2>8. PresTypes'
    BY <2>1, <2>3, <2>7 DEF PresInv, PresTypes
  <2>9. NewestIsKnown'
    BY <2>1, <2>3, <2>7 DEF PresInv, NewestIsKnown, InTheAir
  <2>10. s = "reading" => presService' = presFlight.report
    <3> SUFFICES ASSUME s = "reading" PROVE presService' = presFlight.report
      OBVIOUS
    <3>1. InTheAir
      BY <2>7 DEF InTheAir
    <3>2. presFlight.report.seq = presNext - 1
      BY <3>1 DEF PresInv, NewestIsKnown
    <3>3. CASE presFlight.stage = "reading"
      BY <2>5, <3>2, <3>3 DEF PresInv, FlightIsPresent
    <3>4. CASE presFlight.report = report /\ s = answer
      <4>1. CASE report.seq > presService.seq
        BY <2>1, <3>4, <4>1
      <4>2. CASE report.seq = presService.seq
        <5>1. presService = presFlight.report
          BY <2>3, <3>1, <3>2, <3>4, <4>2 DEF PresInv, NewestIsKnown
        <5> QED BY <2>5, <3>2, <5>1
      <4> QED BY <2>2, <3>4, <4>1, <4>2
    <3> QED BY <2>6, <3>3, <3>4
  <2>11. FlightIsPresent'
    BY <2>1, <2>7, <2>10 DEF PresInv, FlightIsPresent, InTheAir
  <2>12. ReportStands'
    BY <2>1, <2>5, <2>7 DEF PresInv, ReportStands, InTheAir
  <2> QED BY <2>8, <2>9, <2>11, <2>12 DEF PresInv
<1> QED BY <1>1, <1>2

(* A record of the host's state keeps its form.                              *)
HostForm(h) ==
  /\ h = [active |-> h.active, sleeping |-> h.sleeping, foreground |-> h.foreground,
          panel |-> h.panel, collaborating |-> h.collaborating]
  /\ {h.active, h.sleeping} \subseteq BOOLEAN

(* The host's situation changes, and the report in flight is overtaken.      *)
LEMMA HostChanges ==
  ASSUME NEW h, HostForm(h), NEW b \in BOOLEAN
  PROVE  /\ HostForm([h EXCEPT !.active = b]) /\ [h EXCEPT !.active = b].active = b
         /\ [h EXCEPT !.active = b].sleeping = h.sleeping
         /\ HostForm([h EXCEPT !.sleeping = b]) /\ [h EXCEPT !.sleeping = b].sleeping = b
         /\ [h EXCEPT !.sleeping = b].active = h.active
<1>1. PICK a, s, f, p, c : h = [active |-> a, sleeping |-> s, foreground |-> f, panel |-> p, collaborating |-> c]
  BY DEF HostForm
<1>2. a \in BOOLEAN /\ s \in BOOLEAN
  BY <1>1 DEF HostForm
<1>3. [h EXCEPT !.active = b] = [active |-> b, sleeping |-> s, foreground |-> f, panel |-> p, collaborating |-> c]
  BY <1>1
<1>4. [h EXCEPT !.sleeping = b] = [active |-> a, sleeping |-> b, foreground |-> f, panel |-> p, collaborating |-> c]
  BY <1>1
<1> QED BY <1>1, <1>2, <1>3, <1>4 DEF HostForm

(* A signal leaves alone whether the host reports.                           *)
LEMMA SignalChanges ==
  ASSUME NEW h, HostForm(h), NEW signal \in {"foreground", "panel", "collaborating"}
  PROVE  /\ HostForm([h EXCEPT ![signal] = ~@])
         /\ Reporting([h EXCEPT ![signal] = ~@]) = Reporting(h)
<1>1. PICK a, s, f, p, c : h = [active |-> a, sleeping |-> s, foreground |-> f, panel |-> p, collaborating |-> c]
  BY DEF HostForm
<1>2. a \in BOOLEAN /\ s \in BOOLEAN
  BY <1>1 DEF HostForm
<1>3. \E x, y, z : [h EXCEPT ![signal] = ~@] =
                     [active |-> a, sleeping |-> s, foreground |-> x, panel |-> y, collaborating |-> z]
  <2>1. CASE signal = "foreground"
    <3>1. [h EXCEPT ![signal] = ~@] = [active |-> a, sleeping |-> s, foreground |-> ~f, panel |-> p, collaborating |-> c]
      BY <1>1, <2>1
    <3> QED BY <3>1
  <2>2. CASE signal = "panel"
    <3>1. [h EXCEPT ![signal] = ~@] = [active |-> a, sleeping |-> s, foreground |-> f, panel |-> ~p, collaborating |-> c]
      BY <1>1, <2>2
    <3> QED BY <3>1
  <2>3. CASE signal = "collaborating"
    <3>1. [h EXCEPT ![signal] = ~@] = [active |-> a, sleeping |-> s, foreground |-> f, panel |-> p, collaborating |-> ~c]
      BY <1>1, <2>3
    <3> QED BY <3>1
  <2> QED BY <2>1, <2>2, <2>3
<1>4. PICK x, y, z : [h EXCEPT ![signal] = ~@] =
                       [active |-> a, sleeping |-> s, foreground |-> x, panel |-> y, collaborating |-> z]
  BY <1>3
<1> QED BY <1>1, <1>2, <1>4 DEF HostForm, Reporting

(* An immediate report: a new attempt, or a word to the one in flight.       *)
LEMMA RequestKeeps ==
  ASSUME PresInv, HostForm(presHost'), RequestImmediate(presHost'), presWire' = presWire, presService' = presService
  PROVE  PresInv'
<1>1. presTimer' = NoTimer /\ presTimer'.kind = "none" /\ presAgain \in BOOLEAN
  BY DEF RequestImmediate, NoTimer, PresInv, PresTypes
<1>2. CASE InTheAir
  <2>1. presAgain' = TRUE /\ presFlight' = presFlight /\ presNext' = presNext
    BY <1>2 DEF RequestImmediate
  <2>2. Elsewhere' = Elsewhere /\ InTheAir'
    BY <1>2, <2>1 DEF Elsewhere, InTheAir
  <2>3. PresTypes'
    BY <1>1, <2>1, <2>2 DEF PresInv, PresTypes, HostForm
  <2>4. NewestIsKnown'
    BY <1>1, <1>2, <2>1, <2>2 DEF PresInv, NewestIsKnown
  <2>5. FlightIsPresent' /\ ReportStands'
    BY <1>1, <1>2, <2>1, <2>2 DEF PresInv, FlightIsPresent, ReportStands
  <2> QED BY <2>3, <2>4, <2>5 DEF PresInv
<1>3. CASE ~InTheAir
  <2>1. StartAttempt(NewReport(presHost')) /\ presNext' = presNext + 1 /\ presAgain' = presAgain
    BY <1>3 DEF RequestImmediate
  <2> QED BY <1>1, <2>1, NewReportKeeps DEF HostForm
<1> QED BY <1>2, <1>3

(* The host changes and nothing is reported for it: it does not report at    *)
(* all, or goes on with the same mode.                                       *)
LEMMA QuietHostKeeps ==
  ASSUME PresInv, HostForm(presHost'), presWire' = presWire, presService' = presService,
         UNCHANGED <<presTimer, presAgain, presFlight, presNext>>,
         \/ ~Reporting(presHost') /\ (presTimer # NoTimer => Reporting(presHost'))
         \/ /\ PresenceMode(presHost') = PresenceMode(presHost)
            /\ Reporting(presHost') = Reporting(presHost)
            /\ presState' = "online" => presState = "online"
  PROVE  PresInv'
<1>1. Elsewhere' = Elsewhere /\ InTheAir' = InTheAir
  BY DEF Elsewhere, InTheAir
<1>2. PresTypes' /\ NewestIsKnown'
  BY <1>1 DEF PresInv, PresTypes, NewestIsKnown, HostForm
<1>3. NoTimer.kind # "same"
  BY DEF NoTimer
<1>4. FlightIsPresent' /\ ReportStands'
  BY <1>1, <1>3 DEF PresInv, FlightIsPresent, ReportStands
<1> QED BY <1>2, <1>4 DEF PresInv

(* A stopped or sleeping host gives up its timer and its attempt.            *)
LEMMA PresenceEndsKeep ==
  ASSUME PresInv, HostForm(presHost'), ~Reporting(presHost'), presWire' = presWire, presService' = presService,
         presNext' = presNext, presAgain' = FALSE, presTimer' = NoTimer,
         presFlight' = [presFlight EXCEPT !.aborted = InTheAir]
  PROVE  PresInv'
<1>1. presFlight' = [stage |-> presFlight.stage, report |-> presFlight.report, aborted |-> InTheAir]
  BY DEF PresInv, PresTypes
<1>2. /\ presFlight'.stage = presFlight.stage /\ presFlight'.report = presFlight.report
      /\ presFlight'.aborted = InTheAir
      /\ presFlight' = [stage |-> presFlight'.stage, report |-> presFlight'.report, aborted |-> presFlight'.aborted]
  BY <1>1
<1>3. Elsewhere' = Elsewhere /\ InTheAir' = InTheAir /\ presTimer'.kind = "none" /\ InTheAir \in BOOLEAN
  BY <1>2 DEF Elsewhere, InTheAir, NoTimer
<1>4. PresTypes'
  BY <1>2, <1>3 DEF PresInv, PresTypes, HostForm
<1>5. NewestIsKnown' /\ FlightIsPresent' /\ ReportStands'
  BY <1>2, <1>3 DEF PresInv, NewestIsKnown, FlightIsPresent, ReportStands
<1> QED BY <1>4, <1>5 DEF PresInv

(* What the host does.                                                       *)
LEMMA HostStepsKeep ==
  ASSUME PresInv,
         \/ StartPresence \/ StopPresence \/ SleepPresence \/ WakePresence
         \/ \E signal \in {"foreground", "panel", "collaborating"} : PresenceSignal(signal)
         \/ ReportStateChange
  PROVE  PresInv'
<1>0. HostForm(presHost) /\ (presTimer # NoTimer => Reporting(presHost))
  BY DEF PresInv, PresTypes, HostForm, FlightIsPresent
<1>1. CASE StartPresence
  <2>1. presHost' = [presHost EXCEPT !.active = TRUE] /\ presWire' = presWire /\ presService' = presService
        /\ ~presHost.active
    BY <1>1 DEF StartPresence
  <2>2. HostForm(presHost') /\ presHost'.sleeping = presHost.sleeping /\ presTimer = NoTimer
    BY <1>0, <2>1, HostChanges DEF Reporting
  <2>3. CASE presHost.sleeping
    <3>1. UNCHANGED <<presTimer, presAgain, presFlight, presNext>> /\ ~Reporting(presHost')
      BY <1>1, <2>2, <2>3 DEF StartPresence, Reporting
    <3> QED BY <2>1, <2>2, <3>1, QuietHostKeeps
  <2>4. CASE ~presHost.sleeping
    <3>1. RequestImmediate(presHost')
      BY <1>1, <2>4 DEF StartPresence
    <3> QED BY <2>1, <2>2, <3>1, RequestKeeps
  <2> QED BY <2>3, <2>4
<1>2. CASE StopPresence
  <2>1. /\ presHost' = [presHost EXCEPT !.active = FALSE]
        /\ presWire' = presWire /\ presService' = presService /\ presNext' = presNext /\ presAgain' = FALSE
        /\ presTimer' = NoTimer /\ presFlight' = [presFlight EXCEPT !.aborted = InTheAir]
    BY <1>2 DEF StopPresence
  <2>2. HostForm(presHost') /\ ~Reporting(presHost')
    BY <1>0, <2>1, HostChanges DEF Reporting
  <2> QED BY <2>1, <2>2, PresenceEndsKeep
<1>3. CASE SleepPresence
  <2>1. /\ presHost' = [presHost EXCEPT !.sleeping = TRUE]
        /\ presWire' = presWire /\ presService' = presService /\ presNext' = presNext /\ presAgain' = FALSE
        /\ presTimer' = NoTimer /\ presFlight' = [presFlight EXCEPT !.aborted = InTheAir]
    BY <1>3 DEF SleepPresence
  <2>2. HostForm(presHost') /\ ~Reporting(presHost')
    BY <1>0, <2>1, HostChanges DEF Reporting
  <2> QED BY <2>1, <2>2, PresenceEndsKeep
<1>4. CASE WakePresence
  <2>1. presHost' = [presHost EXCEPT !.sleeping = FALSE] /\ presWire' = presWire /\ presService' = presService
        /\ presHost.sleeping
    BY <1>4 DEF WakePresence
  <2>2. HostForm(presHost') /\ presHost'.active = presHost.active /\ presTimer = NoTimer
    BY <1>0, <2>1, HostChanges DEF Reporting
  <2>3. CASE ~presHost.active
    <3>1. UNCHANGED <<presTimer, presAgain, presFlight, presNext>> /\ ~Reporting(presHost')
      BY <1>4, <2>2, <2>3 DEF WakePresence, Reporting
    <3> QED BY <2>1, <2>2, <3>1, QuietHostKeeps
  <2>4. CASE presHost.active
    <3>1. RequestImmediate(presHost')
      BY <1>4, <2>4 DEF WakePresence
    <3> QED BY <2>1, <2>2, <3>1, RequestKeeps
  <2> QED BY <2>3, <2>4
<1>5. ASSUME NEW signal \in {"foreground", "panel", "collaborating"}, PresenceSignal(signal)
      PROVE  PresInv'
  <2>1. /\ presHost' = [presHost EXCEPT ![signal] = ~@] /\ presWire' = presWire /\ presService' = presService
        /\ presState' = "online" => presState = "online"
    BY <1>5 DEF PresenceSignal
  <2>2. HostForm(presHost') /\ Reporting(presHost') = Reporting(presHost)
    <3>1. PICK h : h = presHost
      OBVIOUS
    <3>2. HostForm(h)
      BY <1>0, <3>1
    <3>3. HostForm([h EXCEPT ![signal] = ~@]) /\ Reporting([h EXCEPT ![signal] = ~@]) = Reporting(h)
      BY <3>2, SignalChanges
    <3> QED BY <2>1, <3>1, <3>3
  <2>3. CASE PresenceMode(presHost') # PresenceMode(presHost) /\ Reporting(presHost')
    <3>1. RequestImmediate(presHost')
      BY <1>5, <2>1, <2>3 DEF PresenceSignal
    <3> QED BY <2>1, <2>2, <3>1, RequestKeeps
  <2>4. CASE ~(PresenceMode(presHost') # PresenceMode(presHost) /\ Reporting(presHost'))
    <3>1. UNCHANGED <<presTimer, presAgain, presFlight, presNext>>
      BY <1>5, <2>1, <2>4 DEF PresenceSignal
    <3>2. CASE ~Reporting(presHost')
      <4>1. presTimer = NoTimer
        BY <1>0, <2>2, <3>2
      <4> QED BY <2>1, <2>2, <3>1, <3>2, <4>1, QuietHostKeeps
    <3>3. CASE PresenceMode(presHost') = PresenceMode(presHost)
      BY <2>1, <2>2, <3>1, <3>3, QuietHostKeeps
    <3> QED BY <2>4, <3>2, <3>3
  <2> QED BY <2>3, <2>4
<1>6. CASE ReportStateChange
  <2>1. RequestImmediate(presHost') /\ presHost' = presHost /\ presWire' = presWire /\ presService' = presService
    BY <1>6 DEF ReportStateChange
  <2> QED BY <1>0, <2>1, RequestKeeps
<1> QED BY <1>1, <1>2, <1>3, <1>4, <1>5, <1>6

(* The timer makes a new report, or repeats the last.                        *)
LEMMA PresenceTimerKeeps == ASSUME PresInv, PresenceTimer PROVE PresInv'
<1>1. /\ presTimer # NoTimer /\ presTimer' = NoTimer
      /\ UNCHANGED <<presHost, presAgain, presWire, presService>>
  BY DEF PresenceTimer
<1>2. presAgain' \in BOOLEAN /\ HostForm(presHost') /\ ~InTheAir
  BY <1>1 DEF PresInv, PresTypes, FlightIsPresent, HostForm
<1>3. CASE presTimer = NewReportDue
  <2>1. StartAttempt(NewReport(presHost')) /\ presNext' = presNext + 1
    BY <1>1, <1>3 DEF PresenceTimer
  <2> QED BY <1>1, <1>2, <2>1, NewReportKeeps DEF HostForm
<1>4. CASE presTimer # NewReportDue
  <2>1. StartAttempt(presTimer.report) /\ presNext' = presNext /\ presTimer.kind = "same"
    BY <1>1, <1>4 DEF PresenceTimer, PresInv, PresTypes
  <2>2. presFlight' = [stage |-> "auth", report |-> presTimer.report, aborted |-> FALSE]
    BY <2>1 DEF StartAttempt
  <2>3. /\ presFlight'.stage = "auth" /\ presFlight'.report = presTimer.report /\ presFlight'.aborted = FALSE
        /\ presFlight' = [stage |-> presFlight'.stage, report |-> presFlight'.report, aborted |-> presFlight'.aborted]
        /\ InTheAir'
    BY <2>2 DEF InTheAir
  <2>4. Elsewhere' = Elsewhere /\ presTimer'.kind = "none"
    BY <1>1 DEF Elsewhere, NoTimer
  <2>5. PresTypes'
    BY <1>1, <2>1, <2>3, <2>4 DEF PresInv, PresTypes
  <2>6. NewestIsKnown'
    BY <1>1, <2>1, <2>3, <2>4 DEF PresInv, NewestIsKnown
  <2>7. FlightIsPresent' /\ ReportStands'
    BY <1>1, <2>1, <2>3, <2>4 DEF PresInv, FlightIsPresent, ReportStands
  <2> QED BY <2>5, <2>6, <2>7 DEF PresInv
<1> QED BY <1>3, <1>4

(* Nothing has been reported at the start.                                   *)
LEMMA PresenceBegins == PresenceInit => PresInv
<1> SUFFICES ASSUME PresenceInit PROVE PresInv
  OBVIOUS
<1>1. /\ presHost = [active |-> FALSE, sleeping |-> FALSE, foreground |-> TRUE, panel |-> FALSE, collaborating |-> FALSE]
      /\ presFlight = [stage |-> "none", report |-> [seq |-> 0, mode |-> "online"], aborted |-> FALSE]
      /\ presTimer = [kind |-> "none", report |-> [seq |-> 0, mode |-> "online"]]
      /\ presTimer = NoTimer /\ presAgain = FALSE /\ presNext = 1
  BY DEF PresenceInit, NoFlight, NoReport, NoTimer
<1>2. ~InTheAir /\ ~Reporting(presHost) /\ presTimer.kind = "none" /\ presFlight.stage = "none"
  BY <1>1 DEF InTheAir, Reporting
<1>3. \A r \in Elsewhere : r.seq = 0
  BY DEF PresenceInit, Elsewhere, NoReport
<1>4. PresTypes
  <2>1. /\ presHost = [active |-> presHost.active, sleeping |-> presHost.sleeping,
                       foreground |-> presHost.foreground, panel |-> presHost.panel,
                       collaborating |-> presHost.collaborating]
        /\ presFlight = [stage |-> presFlight.stage, report |-> presFlight.report, aborted |-> presFlight.aborted]
        /\ presFlight.stage = "none" /\ presHost.active = FALSE /\ presHost.sleeping = FALSE
        /\ presFlight.aborted = FALSE
    BY <1>1
  <2>2. presTimer = NoTimer /\ presAgain = FALSE /\ presNext = 1
    BY <1>1
  <2>3. presNext \in Nat \ {0} /\ \A r \in Elsewhere : r.seq \in Nat
    BY <1>3, <2>2
  <2>4. {presHost.active, presHost.sleeping, presFlight.aborted, presAgain} \subseteq BOOLEAN
    BY <2>1, <2>2
  <2> QED BY <2>1, <2>2, <2>3, <2>4 DEF PresTypes
<1>5. NewestIsKnown
  BY <1>1, <1>2, <1>3 DEF NewestIsKnown
<1>6. FlightIsPresent /\ ReportStands
  BY <1>1, <1>2 DEF FlightIsPresent, ReportStands
<1> QED BY <1>4, <1>5, <1>6 DEF PresInv

(* Every step of the scheduler and of the service keeps the invariant.       *)
LEMMA PresenceStep == PresInv /\ [PresenceNext]_presVars => PresInv'
<1> SUFFICES ASSUME PresInv, [PresenceNext]_presVars PROVE PresInv'
  OBVIOUS
<1>1. CASE UNCHANGED presVars
  BY <1>1 DEF presVars, PresInv, PresTypes, NewestIsKnown, FlightIsPresent, ReportStands, Elsewhere, InTheAir
<1>2. CASE PresenceNext
  <2>1. \/ \/ StartPresence \/ StopPresence \/ SleepPresence \/ WakePresence
           \/ \E signal \in {"foreground", "panel", "collaborating"} : PresenceSignal(signal)
           \/ ReportStateChange
        \/ PresenceTimer
        \/ AttemptSent \/ \E report \in presWire : ServiceHolds(report)
        \/ AttemptSucceeds \/ AttemptIsStale \/ AttemptGoesWrong \/ AttemptIsAborted
    BY <1>2 DEF PresenceNext
  <2> QED BY <2>1, HostStepsKeep, PresenceTimerKeeps, ReportTravels, AttemptsEndKeep
<1> QED BY <1>1, <1>2

------------------------------------------------------------------------------
(* The one account (AccountCreation)                                         *)

(* A creation has a Chatmail account of its own from the moment it is added, *)
(* and its marker is unsafe until the account is in the file.  One that died *)
(* is followed by no other one that adds.                                    *)
BeforeAdded == {"off", "check", "relay", "marker", "add"}
Unsaved == {"configure", "cleanup", "identity_created", "persisting", "save"}
Saved == {"persisted", "complete", "register"}

AccountTypes ==
  /\ launch = [state |-> launch.state, account |-> launch.account, call |-> launch.call]
  /\ accountFile = [cm |-> accountFile.cm, final |-> accountFile.final]
  /\ accountFile # NoAccount => accountFile.cm # 0
  /\ creation = [at |-> creation.at, cm |-> creation.cm]
  /\ creation.at \in BeforeAdded \cup Unsaved \cup Saved
  /\ launchCount = [added |-> launchCount.added, starts |-> launchCount.starts,
                    died |-> launchCount.died, torn |-> launchCount.torn]
  /\ launchCount.added \in Nat
  /\ launchCount.torn \in BOOLEAN
  /\ 0 \notin chatmail

CreationIsKnown ==
  /\ creation.at \in BeforeAdded => creation.cm = 0
  /\ creation.at \in Unsaved \cup Saved => creation.cm = launchCount.added /\ creation.cm # 0
  /\ creation.at \in Unsaved \cup {"add"} => isUnsafeIncompleteMarker
  /\ creation.at \in Saved => accountFile.cm = creation.cm
  /\ accountFile # NoAccount => creation.at \in {"off", "check"} \cup Saved

TheDeadStand ==
  ~launchCount.torn /\ launchCount.died # {} =>
    /\ \A cm \in launchCount.died : launchCount.added = cm
    /\ creation.at \in BeforeAdded \ {"add"}
    /\ accountFile # NoAccount \/ isUnsafeIncompleteMarker

LaunchIsTrue ==
  /\ launch.state \in {"ready", "idle"} =>
       launch.call = "none" /\ accountFile.cm = launch.account.cm /\ accountFile.cm # 0
  /\ launch.call = "verify" => launch.account.cm # 0

AccountInv == AccountTypes /\ CreationIsKnown /\ TheDeadStand /\ LaunchIsTrue

(* The window moves while the sidecar does not.                              *)
LEMMA LaunchKeeps ==
  ASSUME AccountInv, NEW state, NEW acc, NEW call, LaunchShows(state, acc, call), SidecarSame,
         state \in {"ready", "idle"} => call = "none" /\ accountFile.cm = acc.cm /\ accountFile.cm # 0,
         call # "verify"
  PROVE  AccountInv'
<1>1. launch' = [state |-> state, account |-> acc, call |-> call]
  BY DEF LaunchShows
<1>2. /\ launch'.state = state /\ launch'.account = acc /\ launch'.call = call
      /\ launch' = [state |-> launch'.state, account |-> launch'.account, call |-> launch'.call]
  BY <1>1
<1> QED BY <1>2 DEF SidecarSame, AccountInv, AccountTypes, CreationIsKnown, TheDeadStand, LaunchIsTrue,
                    isUnsafeIncompleteMarker

(* The states, calls and answers of the window.                              *)
LEMMA WindowKeeps ==
  ASSUME AccountInv,
         \/ LaunchInitialize \/ InitialLoad \/ ShowNaming \/ SubmitInvalidName \/ CreateTimesOut
         \/ VerifyLoadedAccount \/ tryLoadPersistedAccountAfterFailure \/ RetryNetworkIdentity \/ CollapseToIdle
  PROVE  AccountInv'
<1>0. /\ accountFile # NoAccount => accountFile.cm # 0
      /\ launch.call = "verify" => launch.account.cm # 0
      /\ launch.state = "ready" => accountFile.cm = launch.account.cm /\ accountFile.cm # 0
  BY DEF AccountInv, AccountTypes, LaunchIsTrue
<1>1. CASE LaunchInitialize
  BY <1>1, LaunchKeeps DEF LaunchInitialize
<1>2. CASE InitialLoad
  <2>1. CASE accountFile # NoAccount /\ LaunchShows("idle", accountFile, "none")
    BY <1>0, <1>2, <2>1, LaunchKeeps DEF InitialLoad
  <2>2. CASE LaunchShows("welcome", NoAccount, "none")
    BY <1>2, <2>2, LaunchKeeps DEF InitialLoad
  <2>3. ASSUME NEW state \in {"recoverable_error", "fatal_error"}, LaunchShows(state, NoAccount, "none")
        PROVE  AccountInv'
    BY <1>2, <2>3, LaunchKeeps DEF InitialLoad
  <2> QED BY <1>2, <2>1, <2>2, <2>3 DEF InitialLoad
<1>3. CASE ShowNaming
  BY <1>3, LaunchKeeps DEF ShowNaming
<1>4. CASE SubmitInvalidName
  BY <1>4, LaunchKeeps DEF SubmitInvalidName
<1>5. CASE CreateTimesOut
  BY <1>5, LaunchKeeps DEF CreateTimesOut
<1>6. CASE VerifyLoadedAccount
  <2>1. SidecarSame /\ launch.call = "verify"
    BY <1>6 DEF VerifyLoadedAccount
  <2>2. CASE accountFile = launch.account /\ LaunchShows("ready", accountFile, "none")
    BY <1>0, <2>1, <2>2, LaunchKeeps
  <2>3. CASE LaunchShows("fatal_error", accountFile, "none")
    BY <2>1, <2>3, LaunchKeeps
  <2>4. CASE LaunchShows("creating_identity", NoAccount, "recover")
    BY <2>1, <2>4, LaunchKeeps
  <2> QED BY <1>6, <2>2, <2>3, <2>4 DEF VerifyLoadedAccount
<1>7. CASE tryLoadPersistedAccountAfterFailure
  <2>1. SidecarSame
    BY <1>7 DEF tryLoadPersistedAccountAfterFailure
  <2>2. CASE accountFile # NoAccount /\ LaunchShows("ready", accountFile, "none")
    BY <1>0, <2>1, <2>2, LaunchKeeps
  <2>3. ASSUME NEW state \in {"recoverable_error", "fatal_error"}, LaunchShows(state, NoAccount, "none")
        PROVE  AccountInv'
    BY <2>1, <2>3, LaunchKeeps
  <2> QED BY <1>7, <2>2, <2>3 DEF tryLoadPersistedAccountAfterFailure
<1>8. CASE RetryNetworkIdentity
  BY <1>8, LaunchKeeps DEF RetryNetworkIdentity
<1>9. CASE CollapseToIdle
  <2>1. launch.state = "ready"
    BY <1>9 DEF CollapseToIdle, LaunchMay, LegalIn
  <2> QED BY <1>0, <1>9, <2>1, LaunchKeeps DEF CollapseToIdle
<1> QED BY <1>1, <1>2, <1>3, <1>4, <1>5, <1>6, <1>7, <1>8, <1>9

(* The stored account gets its final id.                                     *)
LEMMA FinalId ==
  ASSUME AccountInv, accountFile # NoAccount, accountFile' = [accountFile EXCEPT !.final = TRUE]
  PROVE  /\ accountFile'.cm = accountFile.cm /\ accountFile' = [cm |-> accountFile'.cm, final |-> accountFile'.final]
         /\ accountFile' # NoAccount /\ accountFile.cm # 0
<1>1. accountFile' = [cm |-> accountFile.cm, final |-> TRUE]
  BY DEF AccountInv, AccountTypes
<1>2. accountFile'.cm = accountFile.cm /\ accountFile'.final = TRUE
      /\ accountFile' = [cm |-> accountFile'.cm, final |-> accountFile'.final]
  BY <1>1
<1>3. NoAccount.final = FALSE
  BY DEF NoAccount
<1>4. accountFile' # NoAccount
  BY <1>2, <1>3
<1> QED BY <1>2, <1>4 DEF AccountInv, AccountTypes

(* The network job gives the stored account its final id.                    *)
LEMMA NetworkJobKeeps == ASSUME AccountInv, NetworkJobCommits PROVE AccountInv'
<1>1. /\ accountFile'.cm = accountFile.cm /\ accountFile' = [cm |-> accountFile'.cm, final |-> accountFile'.final]
      /\ accountFile' # NoAccount /\ accountFile.cm # 0 /\ accountFile # NoAccount
      /\ UNCHANGED <<launch, marker, chatmail, creation, launchCount>>
  BY FinalId DEF NetworkJobCommits
<1> QED BY <1>1 DEF AccountInv, AccountTypes, CreationIsKnown, TheDeadStand, LaunchIsTrue, isUnsafeIncompleteMarker

(* The answer to a retried registration.                                     *)
LEMMA RetryAnsweredKeeps == ASSUME AccountInv, RetryAnswered PROVE AccountInv'
<1>1. UNCHANGED <<chatmail, creation, launchCount>> /\ launch.state = "synchronizing_network_identity"
  BY DEF RetryAnswered, LaunchMay, LegalIn
<1>2. CASE /\ accountFile # NoAccount
           /\ accountFile' = [accountFile EXCEPT !.final = TRUE]
           /\ marker' = "complete"
           /\ LaunchShows("ready", accountFile', "none")
  <2>1. /\ accountFile'.cm = accountFile.cm /\ accountFile' = [cm |-> accountFile'.cm, final |-> accountFile'.final]
        /\ accountFile' # NoAccount /\ accountFile.cm # 0
    BY <1>2, FinalId
  <2>2. PICK a : a = accountFile'
    OBVIOUS
  <2>3. launch' = [state |-> "ready", account |-> a, call |-> "none"]
    BY <1>2, <2>2 DEF LaunchShows
  <2>4. creation.at \notin Unsaved \cup {"add"}
    BY <1>2 DEF AccountInv, CreationIsKnown, Unsaved, Saved
  <2>5. /\ launch' = [state |-> launch'.state, account |-> launch'.account, call |-> launch'.call]
        /\ launch'.state = "ready" /\ launch'.account = a /\ launch'.call = "none"
    BY <2>3
  <2>6. accountFile # NoAccount /\ creation.at \notin Unsaved \cup {"add"}
    BY <1>2, <2>4
  <2>7. AccountTypes'
    BY <1>1, <2>1, <2>5 DEF AccountInv, AccountTypes
  <2>8. CreationIsKnown' /\ TheDeadStand'
    BY <1>1, <2>1, <2>6 DEF AccountInv, CreationIsKnown, TheDeadStand
  <2>9. LaunchIsTrue'
    BY <2>1, <2>2, <2>5 DEF LaunchIsTrue
  <2> QED BY <2>7, <2>8, <2>9 DEF AccountInv
<1>3. CASE LaunchShows("recoverable_error", launch.account, "none") /\ UNCHANGED <<accountFile, marker>>
  <2>1. SidecarSame
    BY <1>1, <1>3 DEF SidecarSame
  <2> QED BY <1>3, <2>1, LaunchKeeps
<1> QED BY <1>2, <1>3 DEF RetryAnswered

(* A creation starts, and goes on without touching a file.                   *)
LEMMA SubmitKeeps == ASSUME AccountInv, SubmitName PROVE AccountInv'
<1>1. /\ launch' = [state |-> "creating_identity", account |-> NoAccount, call |-> "create"]
      /\ UNCHANGED <<accountFile, marker, chatmail, launchCount>>
  BY DEF SubmitName, LaunchShows
<1>2. \/ creation.at = "off" /\ creation' = [at |-> "check", cm |-> 0]
      \/ creation' = creation
  BY DEF SubmitName, NoCreation
<1>3. /\ creation' = [at |-> creation'.at, cm |-> creation'.cm]
      /\ \/ creation.at = "off" /\ creation'.at = "check" /\ creation'.cm = 0
         \/ creation' = creation
  BY <1>2 DEF AccountInv, AccountTypes
<1> QED BY <1>1, <1>3 DEF AccountInv, AccountTypes, CreationIsKnown, TheDeadStand, LaunchIsTrue,
                          BeforeAdded, Unsaved, Saved, isUnsafeIncompleteMarker

(* A creation that fails leaves the files as they are, except that it may    *)
(* have marked its failure.                                                  *)
LEMMA CreationFails ==
  ASSUME AccountInv, CreationRejects, accountFile' = accountFile,
         launchCount' = [launchCount EXCEPT !.added = launchCount'.added], launchCount'.added \in Nat,
         launchCount'.added = launchCount.added \/ creation.at = "add", 0 \notin chatmail',
         \/ marker' = marker
         \/ creation.at \notin BeforeAdded \ {"add"} /\ accountFile = NoAccount
  PROVE  AccountInv'
<1>1. creation' = [at |-> "off", cm |-> 0]
  BY DEF CreationRejects, CreationAnswers, NoCreation
<1>2. creation'.at = "off" /\ creation'.cm = 0 /\ creation' = [at |-> creation'.at, cm |-> creation'.cm]
  BY <1>1
<1>3. PICK l : l = launch'
  OBVIOUS
<1>4. /\ l = [state |-> l.state, account |-> l.account, call |-> l.call]
      /\ \/ l = launch
         \/ launch.call = "create" /\ l.state = launch.state /\ l.call = "recover"
  <2>1. CASE launch.call = "create"
    <3>1. launch' = [launch EXCEPT !.call = "recover", !.account = NoAccount]
      BY <2>1 DEF CreationRejects, CreationAnswers
    <3>2. launch' = [state |-> launch.state, account |-> NoAccount, call |-> "recover"]
      BY <3>1 DEF AccountInv, AccountTypes
    <3> QED BY <1>3, <2>1, <3>2
  <2>2. CASE launch.call # "create"
    <3>1. launch' = launch
      BY <2>2 DEF CreationRejects, CreationAnswers
    <3> QED BY <1>3, <3>1 DEF AccountInv, AccountTypes
  <2> QED BY <2>1, <2>2
<1>5. launchCount' = [added |-> launchCount'.added, starts |-> launchCount.starts,
                      died |-> launchCount.died, torn |-> launchCount.torn]
  BY DEF AccountInv, AccountTypes
<1>6. launchCount'.died = launchCount.died /\ launchCount'.torn = launchCount.torn
      /\ launchCount' = [added |-> launchCount'.added, starts |-> launchCount'.starts,
                         died |-> launchCount'.died, torn |-> launchCount'.torn]
  BY <1>5
<1>7. AccountTypes'
  BY <1>2, <1>3, <1>4, <1>6 DEF AccountInv, AccountTypes, BeforeAdded
<1>8. CreationIsKnown'
  BY <1>2 DEF CreationIsKnown, BeforeAdded, Unsaved, Saved
<1>9. TheDeadStand'
  BY <1>2, <1>6 DEF AccountInv, TheDeadStand, BeforeAdded, isUnsafeIncompleteMarker
<1>10. LaunchIsTrue'
  BY <1>3, <1>4 DEF AccountInv, LaunchIsTrue
<1> QED BY <1>7, <1>8, <1>9, <1>10 DEF AccountInv

(* A creation goes on towards its account: nothing is saved yet.             *)
LEMMA CreationPrepares ==
  ASSUME AccountInv, NEW at, CreationGoes(at), UNCHANGED <<accountFile, chatmail, launchCount>>,
         \/ at \in {"relay", "marker"} /\ creation.at \in {"check", "relay"} /\ accountFile = NoAccount
            /\ marker' = marker
         \/ at = "add" /\ creation.at = "marker" /\ ~isUnsafeIncompleteMarker /\ isUnsafeIncompleteMarker'
         \/ at \in Unsaved /\ creation.at \in Unsaved /\ isUnsafeIncompleteMarker'
  PROVE  AccountInv'
<1>1. creation' = [at |-> at, cm |-> creation.cm] /\ launch' = launch
  BY DEF CreationGoes, AccountInv, AccountTypes
<1>2. creation'.at = at /\ creation'.cm = creation.cm /\ creation' = [at |-> creation'.at, cm |-> creation'.cm]
  BY <1>1
<1>3. AccountTypes' /\ LaunchIsTrue'
  BY <1>1, <1>2 DEF AccountInv, AccountTypes, LaunchIsTrue, BeforeAdded
<1>4. accountFile = NoAccount
  BY DEF AccountInv, CreationIsKnown, Saved, Unsaved
<1>5. CreationIsKnown'
  BY <1>2, <1>4 DEF AccountInv, CreationIsKnown, BeforeAdded, Unsaved, Saved
<1>6. TheDeadStand'
  <2>1. CASE at \in {"relay", "marker"} /\ creation.at \in {"check", "relay"} /\ marker' = marker
    BY <1>2, <1>4, <2>1 DEF AccountInv, TheDeadStand, BeforeAdded, isUnsafeIncompleteMarker
  <2>2. CASE at = "add" /\ creation.at = "marker" /\ ~isUnsafeIncompleteMarker
    BY <1>4, <2>2 DEF AccountInv, TheDeadStand
  <2>3. CASE at \in Unsaved /\ creation.at \in Unsaved
    BY <2>3 DEF AccountInv, TheDeadStand, BeforeAdded, Unsaved
  <2> QED BY <2>1, <2>2, <2>3
<1> QED BY <1>3, <1>5, <1>6 DEF AccountInv

(* A creation with its own account in the file.                              *)
LEMMA CreationFinishes ==
  ASSUME AccountInv, NEW at \in Saved, CreationGoes(at), UNCHANGED <<chatmail, launchCount>>,
         \/ creation.at = "save" /\ accountFile' = [cm |-> creation.cm, final |-> FALSE]
         \/ creation.at \in Saved /\ accountFile' = accountFile
  PROVE  AccountInv'
<1>1. creation' = [at |-> at, cm |-> creation.cm] /\ launch' = launch
  BY DEF CreationGoes, AccountInv, AccountTypes
<1>2. creation'.at = at /\ creation'.cm = creation.cm /\ creation' = [at |-> creation'.at, cm |-> creation'.cm]
  BY <1>1
<1>3. creation.cm # 0 /\ creation.cm = launchCount.added /\ creation.at \in Saved \cup Unsaved
  BY DEF AccountInv, CreationIsKnown, Saved, Unsaved
<1>4. accountFile'.cm = creation.cm /\ accountFile' = [cm |-> accountFile'.cm, final |-> accountFile'.final]
  <2>1. CASE creation.at = "save" /\ accountFile' = [cm |-> creation.cm, final |-> FALSE]
    BY <2>1
  <2>2. CASE creation.at \in Saved /\ accountFile' = accountFile
    BY <2>2 DEF AccountInv, AccountTypes, CreationIsKnown
  <2> QED BY <2>1, <2>2
<1>5. AccountTypes'
  BY <1>1, <1>2, <1>3, <1>4 DEF AccountInv, AccountTypes
<1>6. CreationIsKnown'
  BY <1>2, <1>3, <1>4 DEF CreationIsKnown, BeforeAdded, Unsaved, Saved
<1>7. TheDeadStand'
  BY <1>3 DEF AccountInv, TheDeadStand, BeforeAdded, Unsaved, Saved
<1>8. LaunchIsTrue'
  <2>1. launch.state \in {"ready", "idle"} => accountFile.cm # 0
    BY DEF AccountInv, LaunchIsTrue
  <2>2. creation.at = "save" => accountFile.cm = 0
    BY DEF AccountInv, CreationIsKnown, Saved, NoAccount
  <2>3. accountFile.cm = accountFile'.cm \/ creation.at = "save"
    OBVIOUS
  <2> QED BY <1>1, <1>3, <1>4, <2>1, <2>2, <2>3 DEF AccountInv, LaunchIsTrue
<1> QED BY <1>5, <1>6, <1>7, <1>8 DEF AccountInv

(* A failure, marked or not.                                                 *)
LEMMA CreationRejectsKeeps ==
  ASSUME AccountInv, CreationRejects, UNCHANGED <<accountFile, launchCount>>, 0 \notin chatmail',
         marker' = marker \/ creation.at \in Unsaved \cup {"add"}
  PROVE  AccountInv'
<1>1. PICK c : c = launchCount
  OBVIOUS
<1>2. c = [c EXCEPT !.added = c.added] /\ c.added \in Nat
  BY <1>1 DEF AccountInv, AccountTypes
<1>3. launchCount' = [launchCount EXCEPT !.added = launchCount'.added] /\ launchCount'.added \in Nat
      /\ launchCount'.added = launchCount.added
  BY <1>1, <1>2
<1>4. creation.at \in Unsaved \cup {"add"} => accountFile = NoAccount /\ creation.at \notin BeforeAdded \ {"add"}
  BY DEF AccountInv, CreationIsKnown, Unsaved, Saved, BeforeAdded
<1>5. accountFile' = accountFile
  OBVIOUS
<1> QED BY <1>3, <1>4, <1>5, CreationFails

(* A failure that is recorded in the marker, or cannot be.                   *)
LEMMA FailMarkedKeeps ==
  ASSUME AccountInv, FailMarked, UNCHANGED <<accountFile, launchCount>>, 0 \notin chatmail',
         creation.at \in Unsaved \cup {"add"}
  PROVE  AccountInv'
BY CreationRejectsKeeps DEF FailMarked

(* The stages before the first file.                                         *)
LEMMA EarlyStagesKeep ==
  ASSUME AccountInv, CheckExisting \/ selectProvisioningRelay \/ StartProvisioning
  PROVE  AccountInv'
<1>0. 0 \notin chatmail
  BY DEF AccountInv, AccountTypes
<1>1. CASE CheckExisting
  <2>1. creation.at = "check" /\ UNCHANGED <<accountFile, marker, chatmail, launchCount>>
    BY <1>1 DEF CheckExisting, CreationAt
  <2>2. CASE accountFile = NoAccount /\ CreationGoes("relay")
    BY <2>1, <2>2, CreationPrepares
  <2>3. CASE CreationRejects
    BY <1>0, <2>1, <2>3, CreationRejectsKeeps
  <2> QED BY <1>1, <2>2, <2>3 DEF CheckExisting
<1>2. CASE selectProvisioningRelay
  <2>1. creation.at = "relay" /\ UNCHANGED <<accountFile, marker, chatmail, launchCount>>
    BY <1>2 DEF selectProvisioningRelay, CreationAt
  <2>2. CASE CreationGoes("marker")
    <3>1. accountFile = NoAccount
      BY <2>1 DEF AccountInv, CreationIsKnown, Saved
    <3> QED BY <2>1, <2>2, <3>1, CreationPrepares
  <2>3. CASE CreationRejects
    BY <1>0, <2>1, <2>3, CreationRejectsKeeps
  <2> QED BY <1>2, <2>2, <2>3 DEF selectProvisioningRelay
<1>3. CASE StartProvisioning
  <2>1. creation.at = "marker" /\ UNCHANGED <<accountFile, chatmail, launchCount>>
    BY <1>3 DEF StartProvisioning, CreationAt
  <2>2. CASE ~isUnsafeIncompleteMarker /\ marker' = "provisioning" /\ CreationGoes("add")
    <3>1. isUnsafeIncompleteMarker'
      BY <2>2 DEF isUnsafeIncompleteMarker
    <3> QED BY <2>1, <2>2, <3>1, CreationPrepares
  <2>3. CASE CreationRejects /\ UNCHANGED marker
    BY <1>0, <2>1, <2>3, CreationRejectsKeeps
  <2> QED BY <1>3, <2>2, <2>3 DEF StartProvisioning
<1> QED BY <1>1, <1>2, <1>3

(* The Chatmail account is added, or may have been.                          *)
LEMMA AddAccountKeeps == ASSUME AccountInv, AddAccount PROVE AccountInv'
<1>1. PICK cm \in Nat \ {0} : cm = launchCount.added + 1
  BY DEF AccountInv, AccountTypes
<1>2. creation.at = "add" /\ accountFile' = accountFile /\ 0 \notin chatmail
  BY DEF AddAccount, CreationAt, AccountInv, AccountTypes
<1>3. CASE FailMarked /\ UNCHANGED <<chatmail, launchCount>>
  BY <1>2, <1>3, FailMarkedKeeps
<1>4. CASE chatmail' = chatmail \cup {cm} /\ launchCount' = [launchCount EXCEPT !.added = cm]
  <2>1. launchCount' = [added |-> cm, starts |-> launchCount.starts, died |-> launchCount.died,
                        torn |-> launchCount.torn]
    BY <1>4 DEF AccountInv, AccountTypes
  <2>2. /\ launchCount'.added = cm /\ launchCount'.died = launchCount.died /\ launchCount'.torn = launchCount.torn
        /\ launchCount' = [added |-> launchCount'.added, starts |-> launchCount'.starts,
                           died |-> launchCount'.died, torn |-> launchCount'.torn]
    BY <2>1
  <2>3. accountFile = NoAccount /\ 0 \notin chatmail'
    BY <1>2, <1>4 DEF AccountInv, CreationIsKnown, Saved
  <2>4. CASE FailMarked
    <3>1. launchCount' = [launchCount EXCEPT !.added = launchCount'.added] /\ launchCount'.added \in Nat
      BY <1>4, <2>2
    <3>2. creation.at \notin BeforeAdded \ {"add"} /\ CreationRejects
      BY <1>2, <2>4 DEF FailMarked
    <3> QED BY <1>2, <2>3, <3>1, <3>2, CreationFails
  <2>5. CASE creation' = [at |-> "configure", cm |-> cm] /\ UNCHANGED <<launch, marker>>
    <3>1. /\ creation'.at = "configure" /\ creation'.cm = cm
          /\ creation' = [at |-> creation'.at, cm |-> creation'.cm]
      BY <2>5
    <3>2. AccountTypes'
      BY <1>2, <2>2, <2>3, <2>5, <3>1 DEF AccountInv, AccountTypes, Unsaved
    <3>3. CreationIsKnown'
      BY <1>2, <2>2, <2>3, <2>5, <3>1
         DEF AccountInv, CreationIsKnown, BeforeAdded, Unsaved, Saved, isUnsafeIncompleteMarker
    <3>4. TheDeadStand' /\ LaunchIsTrue'
      BY <1>2, <2>2, <2>5 DEF AccountInv, TheDeadStand, LaunchIsTrue
    <3> QED BY <3>2, <3>3, <3>4 DEF AccountInv
  <2> QED BY <1>1, <1>2, <1>4, <2>4, <2>5 DEF AddAccount
<1> QED BY <1>1, <1>3, <1>4 DEF AddAccount

(* The stages of an added account, until it is in the file.                  *)
LEMMA MiddleStagesKeep ==
  ASSUME AccountInv, ConfigureIdentity \/ tryRemoveAccount \/ ReportCreationStage \/ SaveAccount
  PROVE  AccountInv'
<1>0. 0 \notin chatmail /\ (creation.at \in Unsaved => isUnsafeIncompleteMarker)
  BY DEF AccountInv, AccountTypes, CreationIsKnown
<1>1. CASE ConfigureIdentity
  <2>1. creation.at = "configure" /\ UNCHANGED <<accountFile, marker, chatmail, launchCount>>
    BY <1>1 DEF ConfigureIdentity, CreationAt
  <2>2. isUnsafeIncompleteMarker' /\ creation.at \in Unsaved
    BY <1>0, <2>1 DEF isUnsafeIncompleteMarker, Unsaved
  <2>3. CASE CreationGoes("identity_created")
    BY <2>1, <2>2, <2>3, CreationPrepares DEF Unsaved
  <2>4. CASE CreationGoes("cleanup")
    BY <2>1, <2>2, <2>4, CreationPrepares DEF Unsaved
  <2> QED BY <1>1, <2>3, <2>4 DEF ConfigureIdentity
<1>2. CASE tryRemoveAccount
  <2>1. creation.at \in Unsaved /\ UNCHANGED <<accountFile, launchCount>> /\ 0 \notin chatmail' /\ FailMarked
    BY <1>0, <1>2 DEF tryRemoveAccount, CreationAt, Unsaved
  <2> QED BY <2>1, FailMarkedKeeps
<1>3. CASE ReportCreationStage
  <2>1. PICK pair \in {<<"identity_created", "persisting">>, <<"persisting", "save">>} :
          /\ creation.at = pair[1]
          /\ \/ marker' = pair[1] /\ CreationGoes(pair[2])
             \/ FailMarked
          /\ UNCHANGED <<accountFile, chatmail, launchCount>>
    BY <1>3 DEF ReportCreationStage, CreationAt
  <2>2. PICK now, next : /\ pair[1] = now /\ pair[2] = next
                         /\ now \in {"identity_created", "persisting"} /\ next \in {"persisting", "save"}
    BY <2>1
  <2>3. now \in Unsaved /\ next \in Unsaved /\ creation.at = now
    BY <2>1, <2>2 DEF Unsaved
  <2>4. CASE FailMarked
    BY <1>0, <2>1, <2>3, <2>4, FailMarkedKeeps
  <2>5. CASE marker' = now /\ CreationGoes(next)
    <3>1. isUnsafeIncompleteMarker'
      BY <2>2, <2>5 DEF isUnsafeIncompleteMarker
    <3> QED BY <2>1, <2>3, <2>5, <3>1, CreationPrepares
  <2> QED BY <2>1, <2>2, <2>4, <2>5
<1>4. CASE SaveAccount
  <2>1. creation.at = "save" /\ UNCHANGED <<chatmail, launchCount>>
    BY <1>4 DEF SaveAccount, CreationAt
  <2>2. CASE accountFile' = [cm |-> creation.cm, final |-> FALSE] /\ CreationGoes("persisted")
    BY <2>1, <2>2, CreationFinishes DEF Saved
  <2>3. CASE FailMarked /\ UNCHANGED accountFile
    BY <1>0, <2>1, <2>3, FailMarkedKeeps DEF Unsaved
  <2> QED BY <1>4, <2>2, <2>3 DEF SaveAccount
<1> QED BY <1>1, <1>2, <1>3, <1>4

(* The marker of a saved account, and the answer.                            *)
LEMMA LastStagesKeep == ASSUME AccountInv, ReportSaved \/ RegisterAndAnswer PROVE AccountInv'
<1>1. CASE ReportSaved
  <2>1. UNCHANGED <<accountFile, chatmail, launchCount>>
    BY <1>1 DEF ReportSaved
  <2>2. CASE creation.at = "persisted" /\ CreationGoes("complete")
    BY <2>1, <2>2, CreationFinishes DEF Saved
  <2>3. CASE creation.at = "complete" /\ CreationGoes("register")
    BY <2>1, <2>3, CreationFinishes DEF Saved
  <2> QED BY <1>1, <2>2, <2>3 DEF ReportSaved, CreationAt
<1>2. CASE RegisterAndAnswer
  <2>1. creation.at = "register" /\ UNCHANGED <<chatmail, launchCount>>
    BY <1>2 DEF RegisterAndAnswer, CreationAt
  <2>2. accountFile.cm # 0 /\ accountFile # NoAccount
    BY <2>1 DEF AccountInv, CreationIsKnown, Saved, NoAccount
  <2>3. PICK a : a = accountFile'
    OBVIOUS
  <2>4. /\ a.cm = accountFile.cm /\ a = [cm |-> a.cm, final |-> a.final]
        /\ CreationAnswers("verify", a)
    <3>1. CASE accountFile' = [accountFile EXCEPT !.final = TRUE] /\ CreationAnswers("verify", accountFile')
      BY <2>2, <2>3, <3>1, FinalId
    <3>2. CASE CreationAnswers("verify", accountFile) /\ UNCHANGED <<accountFile, marker>>
      BY <2>3, <3>2 DEF AccountInv, AccountTypes
    <3> QED BY <1>2, <3>1, <3>2 DEF RegisterAndAnswer
  <2>5. a # NoAccount
    BY <2>2, <2>4 DEF NoAccount
  <2>6. creation' = [at |-> "off", cm |-> 0]
    BY <2>4 DEF CreationAnswers, NoCreation
  <2>7. /\ creation'.at = "off" /\ creation'.cm = 0 /\ creation' = [at |-> creation'.at, cm |-> creation'.cm]
    BY <2>6
  <2>8. PICK l : l = launch'
    OBVIOUS
  <2>9. /\ l = [state |-> l.state, account |-> l.account, call |-> l.call]
        /\ \/ l = launch
           \/ /\ launch.call = "create" /\ l.state = launch.state
              /\ l.call = "verify" /\ l.account = a
    <3>1. CASE launch.call = "create"
      <4>1. launch' = [launch EXCEPT !.call = "verify", !.account = a]
        BY <2>4, <3>1 DEF CreationAnswers
      <4>2. launch' = [state |-> launch.state, account |-> a, call |-> "verify"]
        BY <4>1 DEF AccountInv, AccountTypes
      <4> QED BY <2>8, <3>1, <4>2
    <3>2. CASE launch.call # "create"
      <4>1. launch' = launch
        BY <2>4, <3>2 DEF CreationAnswers
      <4> QED BY <2>8, <4>1 DEF AccountInv, AccountTypes
    <3> QED BY <3>1, <3>2
  <2>10. AccountTypes'
    BY <2>1, <2>2, <2>3, <2>4, <2>7, <2>8, <2>9 DEF AccountInv, AccountTypes, BeforeAdded
  <2>11. CreationIsKnown'
    BY <2>7 DEF CreationIsKnown, BeforeAdded, Unsaved, Saved
  <2>12. TheDeadStand'
    BY <2>1, <2>3, <2>5, <2>7 DEF AccountInv, TheDeadStand, BeforeAdded
  <2>13. LaunchIsTrue'
    BY <2>2, <2>3, <2>4, <2>8, <2>9 DEF AccountInv, LaunchIsTrue
  <2> QED BY <2>10, <2>11, <2>12, <2>13 DEF AccountInv
<1> QED BY <1>1, <1>2

(* The application starts again.                                             *)
LEMMA AccountRestartKeeps == ASSUME AccountInv, AccountRestart PROVE AccountInv'
<1>1. PICK torn \in BOOLEAN :
        /\ marker' = IF torn THEN "none" ELSE marker
        /\ launchCount' = [launchCount EXCEPT !.starts = @ + 1, !.torn = @ \/ torn,
                             !.died = @ \cup (chatmail \cap {creation.cm})]
  BY DEF AccountRestart
<1>2. PICK c : c = launchCount
  OBVIOUS
<1>3. PICK d : d = c.died \cup (chatmail \cap {creation.cm})
  OBVIOUS
<1>4. launchCount' = [added |-> c.added, starts |-> c.starts + 1, died |-> d, torn |-> c.torn \/ torn]
  BY <1>1, <1>2, <1>3 DEF AccountInv, AccountTypes
<1>5. /\ launchCount'.added = c.added /\ launchCount'.died = d /\ launchCount'.torn = (c.torn \/ torn)
      /\ launchCount' = [added |-> launchCount'.added, starts |-> launchCount'.starts,
                         died |-> launchCount'.died, torn |-> launchCount'.torn]
  BY <1>4
<1>6. creation' = [at |-> "off", cm |-> 0] /\ UNCHANGED <<accountFile, chatmail>>
      /\ launch' = [state |-> "booting", account |-> NoAccount, call |-> "none"]
  BY DEF AccountRestart, NoCreation
<1>7. /\ creation'.at = "off" /\ creation'.cm = 0 /\ creation' = [at |-> creation'.at, cm |-> creation'.cm]
      /\ launch'.state = "booting" /\ launch'.call = "none"
      /\ launch' = [state |-> launch'.state, account |-> launch'.account, call |-> launch'.call]
  BY <1>6
<1>8. AccountTypes'
  BY <1>2, <1>5, <1>6, <1>7 DEF AccountInv, AccountTypes, BeforeAdded
<1>9. CreationIsKnown' /\ LaunchIsTrue'
  BY <1>7 DEF CreationIsKnown, LaunchIsTrue, BeforeAdded, Unsaved, Saved
<1>10. TheDeadStand'
  <2> SUFFICES ASSUME ~launchCount'.torn, launchCount'.died # {}
               PROVE  /\ \A cm \in launchCount'.died : launchCount'.added = cm
                      /\ accountFile # NoAccount \/ isUnsafeIncompleteMarker'
    BY <1>6, <1>7 DEF TheDeadStand, BeforeAdded
  <2>1. ~c.torn /\ ~torn /\ marker' = marker /\ c.torn = launchCount.torn
    BY <1>1, <1>2, <1>5 DEF AccountInv, AccountTypes
  <2>2. isUnsafeIncompleteMarker' = isUnsafeIncompleteMarker
    BY <2>1 DEF isUnsafeIncompleteMarker
  <2>3. CASE creation.at \in BeforeAdded
    <3>1. d = launchCount.died
      BY <1>2, <1>3, <2>3 DEF AccountInv, AccountTypes, CreationIsKnown
    <3> QED BY <1>2, <1>5, <2>1, <2>2, <3>1 DEF AccountInv, TheDeadStand
  <2>4. CASE creation.at \in Unsaved \cup Saved
    <3>1. launchCount.died = {}
      BY <2>1, <2>4 DEF AccountInv, TheDeadStand, BeforeAdded, Unsaved, Saved
    <3>2. creation.cm = launchCount.added /\ creation.cm # 0
      BY <2>4 DEF AccountInv, CreationIsKnown
    <3>3. \A cm \in launchCount'.died : launchCount'.added = cm
      BY <1>2, <1>3, <1>5, <3>1, <3>2
    <3>4. creation.at \in Saved => accountFile # NoAccount
      BY <3>2 DEF AccountInv, CreationIsKnown, NoAccount
    <3>5. creation.at \in Unsaved => isUnsafeIncompleteMarker
      BY DEF AccountInv, CreationIsKnown
    <3> QED BY <2>2, <2>4, <3>3, <3>4, <3>5
  <2> QED BY <2>3, <2>4 DEF AccountInv, AccountTypes
<1> QED BY <1>8, <1>9, <1>10 DEF AccountInv

(* There is no account at first.                                             *)
LEMMA AccountBegins == AccountInit => AccountInv
<1> SUFFICES ASSUME AccountInit PROVE AccountInv
  OBVIOUS
<1>1. /\ launch = [state |-> "booting", account |-> NoAccount, call |-> "none"]
      /\ accountFile = [cm |-> 0, final |-> FALSE] /\ accountFile = NoAccount
      /\ creation = [at |-> "off", cm |-> 0]
      /\ launchCount = [added |-> 0, starts |-> 0, died |-> {}, torn |-> FALSE]
      /\ chatmail = {}
  BY DEF AccountInit, NoAccount, NoCreation
<1>2. /\ launch = [state |-> launch.state, account |-> launch.account, call |-> launch.call]
      /\ accountFile = [cm |-> accountFile.cm, final |-> accountFile.final]
      /\ creation = [at |-> creation.at, cm |-> creation.cm]
      /\ launchCount = [added |-> launchCount.added, starts |-> launchCount.starts,
                        died |-> launchCount.died, torn |-> launchCount.torn]
  BY <1>1
<1>3. /\ launch.state = "booting" /\ launch.call = "none" /\ creation.at = "off" /\ creation.cm = 0
      /\ launchCount.died = {} /\ launchCount.added = 0 /\ launchCount.torn = FALSE
      /\ accountFile = NoAccount /\ chatmail = {}
  BY <1>1
<1>4. AccountTypes
  <2>1. creation.at \in BeforeAdded \cup Unsaved \cup Saved
    BY <1>3 DEF BeforeAdded
  <2>2. launchCount.added \in Nat
    BY <1>3
  <2>3. launchCount.torn \in BOOLEAN
    BY <1>3
  <2>4. 0 \notin chatmail
    BY <1>3
  <2> QED BY <1>2, <1>3, <2>1, <2>2, <2>3, <2>4 DEF AccountTypes
<1>5. CreationIsKnown /\ TheDeadStand /\ LaunchIsTrue
  BY <1>3 DEF CreationIsKnown, TheDeadStand, LaunchIsTrue, BeforeAdded, Unsaved, Saved
<1> QED BY <1>4, <1>5 DEF AccountInv

(* Every step of the first launch keeps the invariant.                       *)
LEMMA AccountStep == AccountInv /\ [AccountNext]_accountVars => AccountInv'
<1> SUFFICES ASSUME AccountInv, [AccountNext]_accountVars PROVE AccountInv'
  OBVIOUS
<1>1. CASE UNCHANGED accountVars
  BY <1>1 DEF accountVars, AccountInv, AccountTypes, CreationIsKnown, TheDeadStand, LaunchIsTrue,
              isUnsafeIncompleteMarker
<1>2. CASE AccountNext
  BY <1>2, WindowKeeps, SubmitKeeps, RetryAnsweredKeeps, NetworkJobKeeps, EarlyStagesKeep, AddAccountKeeps,
     MiddleStagesKeep, LastStagesKeep, AccountRestartKeeps DEF AccountNext
<1> QED BY <1>1, <1>2

(* What the invariant says of the two claims about accounts.                 *)
LEMMA AccountAgrees == AccountInv => InterruptedCreationIsNotRepeated /\ ReadyAccountIsStored
<1> SUFFICES ASSUME AccountInv PROVE InterruptedCreationIsNotRepeated /\ ReadyAccountIsStored
  OBVIOUS
<1>1. InterruptedCreationIsNotRepeated
  BY DEF AccountInv, TheDeadStand, InterruptedCreationIsNotRepeated
<1>2. ReadyAccountIsStored
  BY DEF AccountInv, LaunchIsTrue, ReadyAccountIsStored
<1> QED BY <1>1, <1>2

------------------------------------------------------------------------------
(* The one identity (NetworkIdentity)                                        *)

(* One synchronization works at a time, on the account as it stands and, once *)
(* it holds a credential, on a saved one.  A credential that is not bound     *)
(* belongs to a pending account; an identity of the present stay is the one   *)
(* of the stored credential, and the account is active under no other.        *)
Deciding == {"compatible", "credentials", "discard", "rescope", "prepare", "fresh"}
Holding == {"ready", "send", "commit", "account", "relay", "relay_pending", "relay_adopt", "relay_save"}

IdentityTypes ==
  /\ netAccount = [id |-> netAccount.id, mode |-> netAccount.mode, state |-> netAccount.state,
                   env |-> netAccount.env, key |-> netAccount.key]
  /\ netAccount.state \in {"pending", "active"}
  /\ netCred = [key |-> netCred.key, env |-> netCred.env, id |-> netCred.id, pending |-> netCred.pending]
  /\ netCred.key \in Nat /\ netCred.id \in {0, netCred.key}
  /\ netServer = [identities |-> netServer.identities, bindings |-> netServer.bindings]
  /\ netSync = [at |-> netSync.at, account |-> netSync.account, cred |-> netSync.cred]
  /\ netSync.at \in {"idle"} \cup Deciding \cup Holding
  /\ netSync.cred = [key |-> netSync.cred.key, env |-> netSync.cred.env,
                     id |-> netSync.cred.id, pending |-> netSync.cred.pending]
  /\ netSigner.at = "check" => IsBound(netSigner.cred)
  /\ netCount = [keys |-> netCount.keys, starts |-> netCount.starts, stay |-> netCount.stay,
                 clobbered |-> netCount.clobbered]
  /\ netCount.keys \in Nat /\ netCount.stay \in Nat /\ netCount.clobbered \in BOOLEAN
  /\ \A i \in netServer.identities : i.key # 0 /\ i.stay \in Nat /\ i.stay <= netCount.stay

SyncHolds ==
  /\ netSync.at \in Deciding \cup {"ready", "send", "commit", "account"} => netSync.account = netAccount
  /\ netSync.at \in Holding => /\ netSync.cred.key \in Nat \ {0}
                               /\ netSync.cred.id \in {0, netSync.cred.key}
                               /\ netSync.cred.env = netEnv
  /\ netSync.at = "rescope" => netSync.cred.key \in Nat \ {0} /\ netSync.cred.id = 0

CredentialIsSaved ==
  /\ netSync.at \in {"prepare", "fresh"} => netCred.key = 0
  /\ netSync.at = "fresh" => netAccount.state = "pending"
  /\ (netSync.at \in {"rescope", "send"} \/ (netSync.at = "ready" /\ ~IsBound(netSync.cred))) =>
       /\ netSync.cred.id = 0 /\ netCred.id = 0
       /\ netCred.key = netSync.cred.key /\ netCred.key # 0
       /\ netSync.at # "rescope" => netCred.env = netEnv
  /\ netSync.at = "account" => netCred.key = 0 \/ IsBound(netCred)
  /\ netCred.key # 0 /\ ~IsBound(netCred) => netAccount.state = "pending"

OneIdentity ==
  /\ \A one, other \in netServer.identities : one.stay = other.stay => one = other
  /\ \A i \in netServer.identities : i.stay = netCount.stay =>
       /\ i.env = netEnv /\ netCred.env = netEnv /\ netCred.key = i.key
       /\ netSync.at \notin {"discard", "rescope", "prepare", "fresh"}
       /\ netSync.at \in Holding => netSync.cred.key = i.key
       /\ netAccount.state = "active" /\ netAccount.env = netEnv =>
            netAccount.key = i.key /\ netAccount.id = i.key

IdentityInv ==
  IdentityTypes /\ SyncHolds /\ (~netCount.clobbered => CredentialIsSaved /\ OneIdentity)

(* The synchronization moves on and the stored state stays as it is.          *)
LEMMA SyncMoves ==
  ASSUME IdentityInv, UNCHANGED <<netEnv, netAccount, netCred, netServer, netSigner, netCount>>,
         NEW to \in {"idle"} \cup Deciding \cup Holding, NEW acc, NEW c,
         netSync' = [at |-> to, account |-> acc, cred |-> c],
         c = [key |-> c.key, env |-> c.env, id |-> c.id, pending |-> c.pending],
         to \in Deciding \cup {"ready", "send", "commit", "account"} => acc = netAccount,
         to \in Holding => c.key \in Nat \ {0} /\ c.id \in {0, c.key} /\ c.env = netEnv,
         to = "rescope" => c.key \in Nat \ {0} /\ c.id = 0,
         ~netCount.clobbered =>
           /\ to \in {"prepare", "fresh"} => netCred.key = 0
           /\ to = "fresh" => netAccount.state = "pending"
           /\ (to \in {"rescope", "send"} \/ (to = "ready" /\ c.id = 0)) =>
                /\ c.id = 0 /\ netCred.id = 0 /\ netCred.key = c.key /\ netCred.key # 0
                /\ to # "rescope" => netCred.env = netEnv
           /\ to = "account" => netCred.key = 0 \/ netCred.id # 0
           /\ \A i \in netServer.identities : i.stay = netCount.stay =>
                /\ to \notin {"discard", "rescope", "prepare", "fresh"}
                /\ to \in Holding => c.key = i.key
  PROVE  IdentityInv'
<1>1. netSync'.at = to /\ netSync'.account = acc /\ netSync'.cred = c
      /\ netSync' = [at |-> netSync'.at, account |-> netSync'.account, cred |-> netSync'.cred]
  OBVIOUS
<1>2. IdentityTypes'
  BY <1>1 DEF IdentityInv, IdentityTypes, IsBound
<1>3. SyncHolds'
  BY <1>1 DEF SyncHolds
<1>4. ASSUME ~netCount'.clobbered PROVE CredentialIsSaved'
  BY <1>1, <1>4 DEF IdentityInv, CredentialIsSaved, IsBound
<1>5. ASSUME ~netCount'.clobbered PROVE OneIdentity'
  BY <1>1, <1>5 DEF IdentityInv, OneIdentity
<1> QED BY <1>2, <1>3, <1>4, <1>5 DEF IdentityInv

(* The same when it only goes to another stage, or ends.                      *)
LEMMA SyncStages ==
  ASSUME IdentityInv, UNCHANGED <<netEnv, netAccount, netCred, netServer, netSigner, netCount>>,
         NEW to \in {"idle"} \cup Deciding \cup Holding, SyncGoes(to) \/ (to = "idle" /\ SyncFails),
         \/ to = "idle"
         \/ to = "credentials" /\ netSync.at = "compatible"
         \/ to \in {"relay_pending", "relay_adopt", "relay_save"} /\ netSync.at \in Holding
         \/ to = "commit" /\ netSync.at \in {"ready", "send"}
  PROVE  IdentityInv'
<1>1. CASE to = "idle" /\ SyncFails
  <2>1. netSync' = [at |-> "idle", account |-> [id |-> 0], cred |-> NoCred]
    BY <1>1 DEF SyncFails, NetIdle
  <2>2. NoCred = [key |-> NoCred.key, env |-> NoCred.env, id |-> NoCred.id, pending |-> NoCred.pending]
    BY DEF NoCred
  <2> QED BY <1>1, <2>1, <2>2, SyncMoves DEF Deciding, Holding
<1>2. CASE SyncGoes(to)
  <2>1. netSync' = [at |-> to, account |-> netSync.account, cred |-> netSync.cred]
    BY <1>2 DEF SyncGoes, IdentityInv, IdentityTypes
  <2>2. netSync.cred = [key |-> netSync.cred.key, env |-> netSync.cred.env,
                        id |-> netSync.cred.id, pending |-> netSync.cred.pending]
    BY DEF IdentityInv, IdentityTypes
  <2>3. to \in Deciding \cup {"ready", "send", "commit", "account"} => netSync.account = netAccount
    BY DEF IdentityInv, SyncHolds, Deciding, Holding
  <2>4. to \in Holding => netSync.cred.key \in Nat \ {0} /\ netSync.cred.id \in {0, netSync.cred.key}
                          /\ netSync.cred.env = netEnv
    BY DEF IdentityInv, SyncHolds, Deciding, Holding
  <2>5. ~netCount.clobbered => \A i \in netServer.identities : 
                i.stay = netCount.stay /\ to \in Holding => netSync.cred.key = i.key
    BY DEF IdentityInv, OneIdentity, Deciding, Holding
  <2>6. to \notin {"discard", "rescope", "prepare", "fresh", "ready", "send", "account"}
    OBVIOUS
  <2> QED BY <2>1, <2>2, <2>3, <2>4, <2>5, <2>6, SyncMoves
<1> QED BY <1>1, <1>2

(* A synchronization begins.                                                  *)
LEMMA SyncBeginsKeeps == ASSUME IdentityInv, SyncBegins \/ RequireCompatible PROVE IdentityInv'
<1>1. CASE SyncBegins
  <2>1. netSync' = [at |-> "compatible", account |-> netAccount, cred |-> NoCred]
    BY <1>1 DEF SyncBegins
  <2>2. NoCred = [key |-> NoCred.key, env |-> NoCred.env, id |-> NoCred.id, pending |-> NoCred.pending]
    BY DEF NoCred
  <2>3. UNCHANGED <<netEnv, netAccount, netCred, netServer, netSigner, netCount>>
    BY <1>1 DEF SyncBegins
  <2> QED BY <2>1, <2>2, <2>3, SyncMoves DEF Deciding, Holding
<1>2. CASE RequireCompatible
  <2>1. netSync.at = "compatible" /\ (SyncGoes("credentials") \/ SyncFails)
        /\ UNCHANGED <<netEnv, netAccount, netCred, netServer, netSigner, netCount>>
    BY <1>2 DEF RequireCompatible, SyncAt
  <2>2. CASE SyncGoes("credentials")
    BY <2>1, <2>2, SyncStages DEF Deciding
  <2>3. CASE SyncFails
    BY <2>1, <2>3, SyncStages
  <2> QED BY <2>1, <2>2, <2>3
<1> QED BY <1>1, <1>2

(* What the credential file means.  While there is an identity of this stay   *)
(* its credential is read as ready.                                           *)
LEMMA VerdictIsSound ==
  ASSUME IdentityInv, netSync.account = netAccount,
         NEW verdict, verdict = CredentialVerdict(netCred, netSync.account)
  PROVE  /\ verdict \in {"missing", "prepare", "discard", "rescope", "ready"}
         /\ verdict \in {"missing", "prepare"} => netCred.key = 0
         /\ verdict = "rescope" => netCred.key # 0 /\ netCred.id = 0
         /\ verdict = "ready" => netCred.key # 0 /\ netCred.env = netEnv
         /\ ~netCount.clobbered => \A i \in netServer.identities : i.stay = netCount.stay => verdict = "ready"
<1> DEFINE bound == IsBound(netCred)
           scope == credentialScopeMatches(netCred)
           match == boundCredentialMatchesActiveBinding(netAccount, netCred)
<1>1. CASE netCred.key = 0
  <2>1. verdict \in {"missing", "prepare"}
    BY <1>1 DEF CredentialVerdict
  <2>2. ~netCount.clobbered => \A i \in netServer.identities : i.stay # netCount.stay
    BY <1>1 DEF IdentityInv, OneIdentity, IdentityTypes
  <2> QED BY <1>1, <2>1, <2>2
<1>2. CASE netCred.key # 0
  <2>1. verdict = IF bound /\ ~(scope /\ match) THEN "discard"
                  ELSE IF ~bound /\ ~scope THEN "rescope" ELSE "ready"
    BY <1>2 DEF CredentialVerdict
  <2>2. scope = (netCred.env = netEnv)
    BY DEF credentialScopeMatches
  <2>3. bound = (netCred.id # 0)
    BY DEF IsBound
  <2>4. ASSUME ~netCount.clobbered, NEW i \in netServer.identities, i.stay = netCount.stay
        PROVE  scope /\ (bound => match)
    <3>1. scope
      BY <2>2, <2>4 DEF IdentityInv, OneIdentity
    <3>2. ASSUME bound PROVE match
      <4>1. netCred.id = netCred.key /\ netCred.key = i.key
        BY <2>3, <2>4, <3>2 DEF IdentityInv, OneIdentity, IdentityTypes
      <4>2. netAccount.state = "active" /\ netAccount.env = netEnv => netAccount.key = i.key /\ netAccount.id = i.key
        BY <2>4 DEF IdentityInv, OneIdentity
      <4> QED BY <4>1, <4>2 DEF boundCredentialMatchesActiveBinding
    <3> QED BY <3>1, <3>2
  <2>5. ASSUME ~netCount.clobbered, NEW i \in netServer.identities, i.stay = netCount.stay PROVE verdict = "ready"
    <3>1. scope /\ (bound => match)
      BY <2>4, <2>5
    <3> HIDE DEF bound, scope, match
    <3> QED BY <2>1, <3>1
  <2> HIDE DEF bound, scope, match
  <2> QED BY <1>2, <2>1, <2>2, <2>3, <2>5
<1> QED BY <1>1, <1>2

(* The credential file is read.                                              *)
LEMMA LoadCredentialsKeeps == ASSUME IdentityInv, LoadCredentials PROVE IdentityInv'
<1>1. PICK verdict : verdict = CredentialVerdict(netCred, netSync.account)
  OBVIOUS
<1>2. /\ netSync.at = "credentials"
      /\ netSync' = IF verdict = "missing" THEN NetIdle ELSE [netSync EXCEPT !.at = verdict, !.cred = netCred]
      /\ UNCHANGED <<netEnv, netAccount, netCred, netServer, netSigner, netCount>>
  BY <1>1 DEF LoadCredentials, SyncAt
<1>3. netSync.account = netAccount
  BY <1>2 DEF IdentityInv, SyncHolds, Deciding
<1>4. /\ verdict \in {"missing", "prepare", "discard", "rescope", "ready"}
      /\ verdict \in {"missing", "prepare"} => netCred.key = 0
      /\ verdict = "rescope" => netCred.key # 0 /\ netCred.id = 0
      /\ verdict = "ready" => netCred.key # 0 /\ netCred.env = netEnv
      /\ ~netCount.clobbered => \A i \in netServer.identities : i.stay = netCount.stay => verdict = "ready"
  BY <1>1, <1>3, VerdictIsSound
<1>5. CASE verdict = "missing"
  BY <1>2, <1>5, SyncStages DEF SyncFails
<1>6. CASE verdict # "missing"
  <2>1. netSync' = [at |-> verdict, account |-> netAccount, cred |-> netCred]
    BY <1>2, <1>3, <1>6 DEF IdentityInv, IdentityTypes
  <2>2. netCred = [key |-> netCred.key, env |-> netCred.env, id |-> netCred.id, pending |-> netCred.pending]
        /\ netCred.key \in Nat /\ netCred.id \in {0, netCred.key}
    BY DEF IdentityInv, IdentityTypes
  <2>3. verdict \in Deciding \cup Holding /\ verdict \notin {"fresh", "send", "account"}
        /\ (verdict \in Holding => verdict = "ready")
    BY <1>4, <1>6 DEF Deciding, Holding
  <2>4. ~netCount.clobbered => \A i \in netServer.identities : i.stay = netCount.stay => netCred.key = i.key
    BY DEF IdentityInv, OneIdentity
  <2> QED BY <1>2, <1>4, <1>6, <2>1, <2>2, <2>3, <2>4, SyncMoves DEF Deciding, Holding
<1> QED BY <1>5, <1>6

(* A credential is written, removed or replaced, and the synchronization      *)
(* moves with it.                                                             *)
LEMMA CredentialMoves ==
  ASSUME IdentityInv, UNCHANGED <<netEnv, netAccount, netServer, netSigner>>,
         NEW n \in Nat, netCount' = [keys |-> n, starts |-> netCount.starts, stay |-> netCount.stay,
                                     clobbered |-> netCount.clobbered],
         NEW to \in Deciding \cup Holding, NEW c, NEW d,
         netSync' = [at |-> to, account |-> netSync.account, cred |-> c], netCred' = d,
         netSync.at \in Deciding \cup {"ready", "send", "commit"},
         c = [key |-> c.key, env |-> c.env, id |-> c.id, pending |-> c.pending],
         d = [key |-> d.key, env |-> d.env, id |-> d.id, pending |-> d.pending],
         d.key \in Nat, d.id \in {0, d.key},
         to \in Holding => c.key \in Nat \ {0} /\ c.id \in {0, c.key} /\ c.env = netEnv,
         to = "rescope" => c.key \in Nat \ {0} /\ c.id = 0,
         ~netCount.clobbered =>
           /\ to \in {"prepare", "fresh"} => d.key = 0
           /\ to = "fresh" => netAccount.state = "pending"
           /\ (to \in {"rescope", "send"} \/ (to = "ready" /\ c.id = 0)) =>
                /\ c.id = 0 /\ d.id = 0 /\ d.key = c.key /\ d.key # 0
                /\ to # "rescope" => d.env = netEnv
           /\ to = "account" => d.key = 0 \/ d.id # 0
           /\ d.key # 0 /\ d.id = 0 => netAccount.state = "pending"
           /\ \A i \in netServer.identities : i.stay = netCount.stay =>
                /\ to \notin {"discard", "rescope", "prepare", "fresh"}
                /\ d.env = netEnv /\ d.key = i.key
                /\ to \in Holding => c.key = i.key
  PROVE  IdentityInv'
<1>1. netSync'.at = to /\ netSync'.account = netSync.account /\ netSync'.cred = c
      /\ netSync' = [at |-> netSync'.at, account |-> netSync'.account, cred |-> netSync'.cred]
  OBVIOUS
<1>2. netCount'.keys = n /\ netCount'.stay = netCount.stay /\ netCount'.clobbered = netCount.clobbered
      /\ netCount' = [keys |-> netCount'.keys, starts |-> netCount'.starts, stay |-> netCount'.stay,
                      clobbered |-> netCount'.clobbered]
  OBVIOUS
<1>3. IdentityTypes'
  BY <1>1, <1>2 DEF IdentityInv, IdentityTypes, IsBound
<1>4. SyncHolds'
  BY <1>1 DEF IdentityInv, SyncHolds
<1>5. ASSUME ~netCount'.clobbered PROVE CredentialIsSaved'
  BY <1>1, <1>2, <1>5 DEF CredentialIsSaved, IsBound
<1>6. ASSUME ~netCount'.clobbered PROVE OneIdentity'
  BY <1>1, <1>2, <1>6 DEF IdentityInv, OneIdentity
<1> QED BY <1>3, <1>4, <1>5, <1>6 DEF IdentityInv

(* The count, when nothing of it changes, and the credential that is held.    *)
LEMMA IdentityShapes ==
  ASSUME IdentityInv
  PROVE  /\ netCount = [keys |-> netCount.keys, starts |-> netCount.starts, stay |-> netCount.stay,
                        clobbered |-> netCount.clobbered]
         /\ netCount.keys \in Nat
         /\ netSync = [at |-> netSync.at, account |-> netSync.account, cred |-> netSync.cred]
         /\ netSync.cred = [key |-> netSync.cred.key, env |-> netSync.cred.env,
                            id |-> netSync.cred.id, pending |-> netSync.cred.pending]
         /\ netCred = [key |-> netCred.key, env |-> netCred.env, id |-> netCred.id, pending |-> netCred.pending]
         /\ netCred.key \in Nat /\ netCred.id \in {0, netCred.key}
         /\ NoCred = [key |-> NoCred.key, env |-> NoCred.env, id |-> NoCred.id, pending |-> NoCred.pending]
         /\ NoCred.key = 0 /\ NoCred.id = 0
  BY DEF IdentityInv, IdentityTypes, NoCred

(* A credential that does not belong to the account is removed.              *)
LEMMA DiscardKeeps == ASSUME IdentityInv, DiscardCredentials PROVE IdentityInv'
<1>1. /\ netSync.at = "discard" /\ netCred' = NoCred
      /\ UNCHANGED <<netEnv, netAccount, netServer, netSigner, netCount>>
  BY DEF DiscardCredentials, SyncAt
<1>2. netSync' = [at |-> "prepare", account |-> netSync.account, cred |-> NoCred]
  BY IdentityShapes DEF DiscardCredentials
<1>3. ~netCount.clobbered => \A i \in netServer.identities : i.stay # netCount.stay
  BY <1>1 DEF IdentityInv, OneIdentity
<1> QED BY <1>1, <1>2, <1>3, IdentityShapes, CredentialMoves DEF Deciding, Holding

(* A credential that is not bound moves to the present environment.          *)
LEMMA RescopeKeeps == ASSUME IdentityInv, RescopeCredentials PROVE IdentityInv'
<1>1. /\ netSync.at = "rescope" /\ netCred' = [netSync.cred EXCEPT !.env = netEnv]
      /\ UNCHANGED <<netEnv, netAccount, netServer, netSigner, netCount>>
  BY DEF RescopeCredentials, SyncAt
<1>2. PICK c : c = netCred'
  OBVIOUS
<1>3. c = [key |-> netSync.cred.key, env |-> netEnv, id |-> netSync.cred.id, pending |-> netSync.cred.pending]
  BY <1>1, <1>2, IdentityShapes
<1>4. c = [key |-> c.key, env |-> c.env, id |-> c.id, pending |-> c.pending]
      /\ c.key = netSync.cred.key /\ c.env = netEnv /\ c.id = netSync.cred.id
  BY <1>3
<1>5. netSync' = [at |-> "ready", account |-> netSync.account, cred |-> c]
  BY <1>2, IdentityShapes DEF RescopeCredentials
<1>6. c.key \in Nat \ {0} /\ c.id = 0 /\ (~netCount.clobbered => netAccount.state = "pending")
  BY <1>1, <1>4 DEF IdentityInv, IdentityTypes, SyncHolds, CredentialIsSaved, IsBound
<1>7. ~netCount.clobbered => \A i \in netServer.identities : i.stay # netCount.stay
  BY <1>1 DEF IdentityInv, OneIdentity
<1> QED BY <1>1, <1>2, <1>4, <1>5, <1>6, <1>7, IdentityShapes, CredentialMoves DEF Deciding, Holding

(* The account is rewritten as the synchronization moves.                     *)
LEMMA AccountMoves ==
  ASSUME IdentityInv, UNCHANGED <<netEnv, netCred, netServer, netSigner, netCount>>,
         NEW to \in {"fresh", "relay"}, NEW b,
         netSync' = [at |-> to, account |-> netSync'.account, cred |-> netSync.cred], netAccount' = b,
         netSync.at \in {"prepare", "account"}, to = "relay" <=> netSync.at = "account",
         b = [id |-> b.id, mode |-> b.mode, state |-> b.state, env |-> b.env, key |-> b.key],
         b.state = IF to = "relay" THEN "active" ELSE "pending",
         to = "fresh" => netSync'.account = b,
         to = "relay" => b.id = netSync.cred.key /\ b.key = netSync.cred.key
  PROVE  IdentityInv'
<1>1. netSync'.at = to /\ netSync'.cred = netSync.cred
      /\ netSync' = [at |-> netSync'.at, account |-> netSync'.account, cred |-> netSync'.cred]
  OBVIOUS
<1>2. IdentityTypes'
  BY <1>1 DEF IdentityInv, IdentityTypes, IsBound, Deciding, Holding
<1>3. SyncHolds'
  BY <1>1 DEF IdentityInv, SyncHolds, Deciding, Holding
<1>4. ASSUME ~netCount'.clobbered PROVE CredentialIsSaved'
  BY <1>1, <1>4 DEF IdentityInv, CredentialIsSaved, IsBound
<1>5. ASSUME ~netCount'.clobbered PROVE OneIdentity'
  BY <1>1, <1>5 DEF IdentityInv, OneIdentity, Holding
<1> QED BY <1>2, <1>3, <1>4, <1>5 DEF IdentityInv

(* The account waits for a registration.                                     *)
LEMMA PrepareKeeps == ASSUME IdentityInv, prepareForRegistration PROVE IdentityInv'
<1>1. /\ netSync.at = "prepare" /\ netSync.account = netAccount
      /\ UNCHANGED <<netEnv, netCred, netServer, netSigner, netCount>>
  BY DEF prepareForRegistration, SyncAt, IdentityInv, SyncHolds, Deciding
<1>2. PICK b : b = netAccount'
  OBVIOUS
<1>3. CASE netAccount.state = "active"
  <2>1. b = [netAccount EXCEPT !.state = "pending", !.env = netEnv, !.mode = "register", !.key = 0]
    BY <1>1, <1>2, <1>3 DEF prepareForRegistration
  <2>2. b = [id |-> netAccount.id, mode |-> "register", state |-> "pending", env |-> netEnv, key |-> 0]
    BY <2>1 DEF IdentityInv, IdentityTypes
  <2>3. b = [id |-> b.id, mode |-> b.mode, state |-> b.state, env |-> b.env, key |-> b.key] /\ b.state = "pending"
    BY <2>2
  <2>4. netSync' = [netSync EXCEPT !.at = "fresh", !.account = b]
    BY <1>1, <1>2, <1>3 DEF prepareForRegistration
  <2>5. netSync' = [at |-> "fresh", account |-> b, cred |-> netSync.cred]
    BY <2>4, IdentityShapes
  <2>6. netSync'.account = b
    BY <2>5
  <2> QED BY <1>1, <1>2, <2>3, <2>5, <2>6, AccountMoves
<1>4. CASE netAccount.state # "active"
  <2>1. b = netAccount /\ b.state = "pending"
        /\ b = [id |-> b.id, mode |-> b.mode, state |-> b.state, env |-> b.env, key |-> b.key]
    BY <1>1, <1>2, <1>4 DEF prepareForRegistration, IdentityInv, IdentityTypes
  <2>2. netSync' = [netSync EXCEPT !.at = "fresh", !.account = netSync.account]
    BY <1>1, <1>4 DEF prepareForRegistration
  <2>3. netSync' = [at |-> "fresh", account |-> b, cred |-> netSync.cred]
    BY <1>1, <2>1, <2>2, IdentityShapes
  <2>4. netSync'.account = b
    BY <2>3
  <2> QED BY <1>1, <1>2, <2>1, <2>3, <2>4, AccountMoves
<1> QED BY <1>3, <1>4

(* A new key is saved before anything is sent with it.                       *)
LEMMA NewCredentialKeeps == ASSUME IdentityInv, newCredentialRecord PROVE IdentityInv'
<1>1. netSync.at = "fresh" /\ UNCHANGED <<netEnv, netAccount, netServer, netSigner>>
  BY DEF newCredentialRecord, SyncAt
<1>2. PICK c : c = netCred'
  OBVIOUS
<1>3. c = [key |-> netCount.keys + 1, env |-> netEnv, id |-> 0, pending |-> "none"]
  BY <1>2 DEF newCredentialRecord
<1>4. c = [key |-> c.key, env |-> c.env, id |-> c.id, pending |-> c.pending]
      /\ c.key \in Nat \ {0} /\ c.env = netEnv /\ c.id = 0
  BY <1>3, IdentityShapes
<1>5. netSync' = [at |-> "ready", account |-> netSync.account, cred |-> c]
  BY <1>2, IdentityShapes DEF newCredentialRecord
<1>6. netCount' = [keys |-> netCount.keys + 1, starts |-> netCount.starts, stay |-> netCount.stay,
                   clobbered |-> netCount.clobbered] /\ netCount.keys + 1 \in Nat
  BY IdentityShapes DEF newCredentialRecord
<1>7. ~netCount.clobbered => /\ netAccount.state = "pending"
                             /\ \A i \in netServer.identities : i.stay # netCount.stay
  BY <1>1 DEF IdentityInv, CredentialIsSaved, OneIdentity
<1> QED BY <1>1, <1>2, <1>4, <1>5, <1>6, <1>7, CredentialMoves DEF Deciding, Holding

(* The write is recorded with the credential before it is sent.              *)
LEMMA PersistPendingKeeps == ASSUME IdentityInv, PersistPending PROVE IdentityInv'
<1>1. /\ netSync.at = "ready" /\ netSync.cred.id = 0
      /\ UNCHANGED <<netEnv, netAccount, netServer, netSigner, netCount>>
  BY DEF PersistPending, SyncAt, IsBound
<1>2. PICK c : c = netSync'.cred
  OBVIOUS
<1>3. netSync' = [at |-> "send", account |-> netSync.account,
                  cred |-> [netSync.cred EXCEPT !.pending = netSync.account.mode]]
  BY IdentityShapes DEF PersistPending
<1>4. c = [netSync.cred EXCEPT !.pending = netSync.account.mode]
  BY <1>2, <1>3
<1>5. c = [key |-> netSync.cred.key, env |-> netSync.cred.env, id |-> netSync.cred.id,
           pending |-> netSync.account.mode]
  BY <1>4, IdentityShapes
<1>6. c = [key |-> c.key, env |-> c.env, id |-> c.id, pending |-> c.pending]
      /\ c.key = netSync.cred.key /\ c.env = netSync.cred.env /\ c.id = 0
  BY <1>1, <1>5
<1>7. netSync' = [at |-> "send", account |-> netSync.account, cred |-> c]
  BY <1>3, <1>4
<1>8. c.key \in Nat \ {0} /\ c.env = netEnv
  BY <1>1, <1>6 DEF IdentityInv, SyncHolds, Holding
<1>9. ~netCount.clobbered =>
        /\ netCred.id = 0 /\ netCred.key = c.key /\ netCred.env = netEnv /\ netAccount.state = "pending"
        /\ \A i \in netServer.identities : i.stay = netCount.stay => c.key = i.key
  BY <1>1, <1>6 DEF IdentityInv, CredentialIsSaved, OneIdentity, IsBound, Holding
<1>10. CASE netCred' = netCred
  <2>1. UNCHANGED <<netEnv, netAccount, netServer, netSigner>>
    BY <1>1
  <2>2. netCount' = [keys |-> netCount.keys, starts |-> netCount.starts, stay |-> netCount.stay,
                     clobbered |-> netCount.clobbered]
    BY <1>1, IdentityShapes
  <2> QED BY <1>1, <1>6, <1>7, <1>8, <1>9, <1>10, <2>1, <2>2, IdentityShapes, CredentialMoves DEF Deciding, Holding
<1>11. CASE netCred' = c
  <2>1. UNCHANGED <<netEnv, netAccount, netServer, netSigner>>
    BY <1>1
  <2>2. netCount' = [keys |-> netCount.keys, starts |-> netCount.starts, stay |-> netCount.stay,
                     clobbered |-> netCount.clobbered]
    BY <1>1, IdentityShapes
  <2> QED BY <1>1, <1>6, <1>7, <1>8, <1>9, <1>11, <2>1, <2>2, IdentityShapes, CredentialMoves DEF Deciding, Holding
<1>12. netCred' = netCred \/ netCred' = c
  BY <1>2 DEF PersistPending
<1> QED BY <1>10, <1>11, <1>12

(* The credential is bound.                                                  *)
LEMMA CommitCredentialKeeps == ASSUME IdentityInv, CommitCredential PROVE IdentityInv'
<1>1. netSync.at = "commit" /\ UNCHANGED <<netEnv, netAccount, netServer, netSigner, netCount>>
  BY DEF CommitCredential, SyncAt
<1>2. PICK d : d = netCred'
  OBVIOUS
<1>3. d = [key |-> netSync.cred.key, env |-> netSync.cred.env, id |-> netSync.cred.key, pending |-> "none"]
  BY <1>2 DEF CommitCredential
<1>4. d = [key |-> d.key, env |-> d.env, id |-> d.id, pending |-> d.pending]
      /\ d.key = netSync.cred.key /\ d.env = netSync.cred.env /\ d.id = d.key
  BY <1>3
<1>5. netSync' = [at |-> "account", account |-> netSync.account, cred |-> netSync.cred]
  BY IdentityShapes DEF CommitCredential, SyncGoes
<1>6. netSync.cred.key \in Nat \ {0} /\ netSync.cred.env = netEnv /\ netSync.cred.id \in {0, netSync.cred.key}
  BY <1>1 DEF IdentityInv, SyncHolds, Holding
<1>7. ~netCount.clobbered => \A i \in netServer.identities : i.stay = netCount.stay => netSync.cred.key = i.key
  BY <1>1 DEF IdentityInv, OneIdentity, Holding
<1> QED BY <1>1, <1>2, <1>4, <1>5, <1>6, <1>7, IdentityShapes, CredentialMoves DEF Deciding, Holding

(* The account becomes active under the identity of the credential.          *)
LEMMA CommitAccountKeeps == ASSUME IdentityInv, CommitAccount PROVE IdentityInv'
<1>1. /\ netSync.at = "account" /\ netSync.account = netAccount
      /\ UNCHANGED <<netEnv, netCred, netServer, netSigner, netCount>>
  BY DEF CommitAccount, SyncAt, IdentityInv, SyncHolds
<1>2. PICK b : b = netAccount'
  OBVIOUS
<1>3. b = [netAccount EXCEPT !.id = netSync.cred.key, !.state = "active", !.env = netEnv,
                             !.key = netSync.cred.key]
  BY <1>1, <1>2 DEF CommitAccount
<1>4. b = [id |-> netSync.cred.key, mode |-> netAccount.mode, state |-> "active", env |-> netEnv,
           key |-> netSync.cred.key]
  BY <1>3 DEF IdentityInv, IdentityTypes
<1>5. b = [id |-> b.id, mode |-> b.mode, state |-> b.state, env |-> b.env, key |-> b.key]
      /\ b.state = "active" /\ b.id = netSync.cred.key /\ b.key = netSync.cred.key
  BY <1>4
<1>6. netSync' = [at |-> "relay", account |-> netSync.account, cred |-> netSync.cred]
  BY IdentityShapes DEF CommitAccount, SyncGoes
<1>7. netSync' = [at |-> "relay", account |-> netSync'.account, cred |-> netSync.cred]
  BY <1>6
<1> QED BY <1>1, <1>2, <1>5, <1>7, AccountMoves

(* The Network answers: the identity it has for this key, or a new one, which *)
(* is then the only one of this stay.                                         *)
LEMMA NetworkAnswersOnce ==
  ASSUME IdentityInv, netSync.at = "send", NEW to \in {"idle", "commit"}, NEW acc, NEW c,
         netSync' = [at |-> to, account |-> acc, cred |-> c], to = "commit" => acc = netSync.account /\ c = netSync.cred,
         c = [key |-> c.key, env |-> c.env, id |-> c.id, pending |-> c.pending],
         NEW bindings, netServer' = [identities |-> NetworkIdentities, bindings |-> bindings],
         UNCHANGED <<netEnv, netAccount, netCred, netSigner, netCount>>
  PROVE  IdentityInv'
<1> DEFINE fresh == [env |-> netEnv, key |-> netSync.cred.key, stay |-> netCount.stay]
<1>1. netSync'.at = to /\ netSync'.account = acc /\ netSync'.cred = c
      /\ netSync' = [at |-> netSync'.at, account |-> netSync'.account, cred |-> netSync'.cred]
  OBVIOUS
<1>2. netServer'.identities = NetworkIdentities
      /\ netServer' = [identities |-> netServer'.identities, bindings |-> netServer'.bindings]
  OBVIOUS
<1>3. /\ netSync.account = netAccount
      /\ netSync.cred.key \in Nat \ {0} /\ netSync.cred.id \in {0, netSync.cred.key} /\ netSync.cred.env = netEnv
  BY DEF IdentityInv, SyncHolds, Holding
<1>4. /\ fresh.env = netEnv /\ fresh.key = netSync.cred.key /\ fresh.stay = netCount.stay
      /\ netCount.stay \in Nat
  BY DEF IdentityInv, IdentityTypes
<1>5. \/ NetworkIdentities = netServer.identities
      \/ ~Registered /\ NetworkIdentities = netServer.identities \cup {fresh}
  BY DEF NetworkIdentities
<1> HIDE DEF fresh
<1>6. IdentityTypes'
  BY <1>1, <1>2, <1>3, <1>4, <1>5 DEF IdentityInv, IdentityTypes, Deciding, Holding
<1>7. SyncHolds'
  BY <1>1, <1>3 DEF SyncHolds, Deciding, Holding
<1>8. ASSUME ~netCount'.clobbered PROVE CredentialIsSaved'
  BY <1>1, <1>8 DEF IdentityInv, CredentialIsSaved, IsBound
<1>9. ASSUME ~netCount'.clobbered PROVE OneIdentity'
  <2>1. /\ OneIdentity /\ netCred.key = netSync.cred.key /\ netCred.env = netEnv
        /\ netCred.id = 0 /\ netCred.key # 0 /\ netAccount.state = "pending"
    BY <1>9 DEF IdentityInv, CredentialIsSaved, IsBound
  <2>2. CASE NetworkIdentities = netServer.identities
    BY <1>1, <1>2, <2>1, <2>2 DEF OneIdentity, Holding
  <2>3. CASE ~Registered /\ NetworkIdentities = netServer.identities \cup {fresh}
    <3>1. \A i \in netServer.identities : i.stay # netCount.stay
      BY <2>1, <2>3 DEF OneIdentity, Registered, Holding
    <3>2. \A one, other \in netServer'.identities : one.stay = other.stay => one = other
      BY <1>2, <1>4, <2>1, <2>3, <3>1 DEF OneIdentity
    <3>3. \A i \in netServer'.identities : i.stay = netCount'.stay => i = fresh
      BY <1>2, <2>3, <3>1
    <3> QED BY <1>1, <1>4, <2>1, <3>2, <3>3 DEF OneIdentity, Holding
  <2> QED BY <1>5, <2>2, <2>3
<1> QED BY <1>6, <1>7, <1>8, <1>9 DEF IdentityInv

(* A registration, answered, lost or refused.                                *)
LEMMA RegisterIdentityKeeps == ASSUME IdentityInv, RegisterIdentity PROVE IdentityInv'
<1>1. netSync.at = "send" /\ UNCHANGED <<netEnv, netAccount, netCred, netSigner, netCount>>
  BY DEF RegisterIdentity, SyncAt
<1>2. CASE SyncFails /\ UNCHANGED netServer
  BY <1>1, <1>2, SyncStages
<1>3. CASE /\ \E bindings \in {netServer.bindings, netServer.bindings \cup {netSync.cred.key}} :
                netServer' = [identities |-> NetworkIdentities, bindings |-> bindings]
           /\ SyncGoes("commit") \/ SyncFails
  <2>1. PICK bindings : netServer' = [identities |-> NetworkIdentities, bindings |-> bindings]
    BY <1>3
  <2>2. CASE SyncGoes("commit")
    <3>1. netSync' = [at |-> "commit", account |-> netSync.account, cred |-> netSync.cred]
      BY <2>2, IdentityShapes DEF SyncGoes
    <3> QED BY <1>1, <2>1, <3>1, IdentityShapes, NetworkAnswersOnce
  <2>3. CASE SyncFails
    <3>1. netSync' = [at |-> "idle", account |-> [id |-> 0], cred |-> NoCred]
      BY <2>3 DEF SyncFails, NetIdle
    <3> QED BY <1>1, <2>1, <3>1, IdentityShapes, NetworkAnswersOnce
  <2> QED BY <1>3, <2>2, <2>3
<1> QED BY <1>2, <1>3 DEF RegisterIdentity

(* A bound credential asks for its session.                                  *)
LEMMA GetIdentitySelfKeeps == ASSUME IdentityInv, getIdentitySelf PROVE IdentityInv'
<1>1. /\ netSync.at = "ready" /\ (SyncGoes("commit") \/ SyncFails)
      /\ UNCHANGED <<netEnv, netAccount, netCred, netServer, netSigner, netCount>>
  BY DEF getIdentitySelf, SyncAt
<1> QED BY <1>1, SyncStages DEF Holding

(* The relay steps keep what the identity steps rest on.                      *)
LEMMA BindingsKeep ==
  ASSUME IdentityInv, NEW b, netServer' = [netServer EXCEPT !.bindings = b],
         UNCHANGED <<netEnv, netAccount, netCred, netSync, netSigner, netCount>>
  PROVE  IdentityInv'
<1>1. netServer' = [identities |-> netServer.identities, bindings |-> b]
  BY DEF IdentityInv, IdentityTypes
<1>2. netServer'.identities = netServer.identities
      /\ netServer' = [identities |-> netServer'.identities, bindings |-> netServer'.bindings]
  BY <1>1
<1> QED BY <1>2 DEF IdentityInv, IdentityTypes, SyncHolds, CredentialIsSaved, OneIdentity, IsBound

(* The relay binding is read, commanded and saved.                           *)
LEMMA RelayKeeps == ASSUME IdentityInv, RelayRead \/ pendingCommand \/ RelayPersist PROVE IdentityInv'
<1>1. CASE RelayRead
  <2>1. /\ netSync.at = "relay" /\ UNCHANGED <<netEnv, netAccount, netCred, netServer, netSigner, netCount>>
        /\ (SyncGoes("relay_save") \/ SyncGoes("relay_pending") \/ SyncFails)
    BY <1>1 DEF RelayRead, SyncAt
  <2> QED BY <2>1, SyncStages DEF Holding
<1>2. CASE pendingCommand
  <2>1. /\ netSync.at = "relay_pending" /\ UNCHANGED <<netEnv, netAccount, netCred, netServer, netSigner, netCount>>
        /\ SyncGoes("relay_adopt")
    BY <1>2 DEF pendingCommand, SyncAt
  <2> QED BY <2>1, SyncStages DEF Holding
<1>3. CASE RelayPersist
  <2>1. SyncFails /\ UNCHANGED <<netEnv, netAccount, netCred, netServer, netSigner, netCount>>
    BY <1>3 DEF RelayPersist, SyncFails
  <2> QED BY <2>1, SyncStages
<1> QED BY <1>1, <1>2, <1>3

(* The adoption changes the bindings of the server and the stage at once.     *)
LEMMA AdoptKeeps == ASSUME IdentityInv, adoptMissingBinding PROVE IdentityInv'
<1>1. /\ netSync.at = "relay_adopt" /\ UNCHANGED <<netEnv, netAccount, netCred, netSigner, netCount>>
      /\ \/ netServer' = [netServer EXCEPT !.bindings = @ \cup {netSync.cred.key}]
         \/ netServer' = netServer
  BY DEF adoptMissingBinding, SyncAt
<1>2. PICK to \in {"idle", "relay_save"} : SyncGoes(to) \/ (to = "idle" /\ SyncFails)
  BY DEF adoptMissingBinding
<1>3. netServer'.identities = netServer.identities
      /\ netServer' = [identities |-> netServer'.identities, bindings |-> netServer'.bindings]
  <2>1. CASE netServer' = netServer
    BY <2>1 DEF IdentityInv, IdentityTypes
  <2>2. CASE netServer' = [netServer EXCEPT !.bindings = @ \cup {netSync.cred.key}]
    <3>1. netServer' = [identities |-> netServer.identities, bindings |-> netServer.bindings \cup {netSync.cred.key}]
      BY <2>2 DEF IdentityInv, IdentityTypes
    <3> QED BY <3>1
  <2> QED BY <1>1, <2>1, <2>2
<1>4. /\ netSync'.at = to
      /\ netSync' = [at |-> netSync'.at, account |-> netSync'.account, cred |-> netSync'.cred]
      /\ netSync'.cred = [key |-> netSync'.cred.key, env |-> netSync'.cred.env,
                          id |-> netSync'.cred.id, pending |-> netSync'.cred.pending]
      /\ to = "relay_save" => netSync'.cred = netSync.cred
  <2>1. CASE SyncGoes(to)
    <3>1. netSync' = [at |-> to, account |-> netSync.account, cred |-> netSync.cred]
      BY <2>1, IdentityShapes DEF SyncGoes
    <3>2. netSync'.at = to /\ netSync'.account = netSync.account /\ netSync'.cred = netSync.cred
      BY <3>1
    <3> QED BY <3>1, <3>2, IdentityShapes
  <2>2. CASE to = "idle" /\ SyncFails
    <3>1. netSync' = [at |-> "idle", account |-> [id |-> 0], cred |-> NoCred]
      BY <2>2 DEF SyncFails, NetIdle
    <3>2. netSync'.at = "idle" /\ netSync'.account = [id |-> 0] /\ netSync'.cred = NoCred
      BY <3>1
    <3> QED BY <2>2, <3>1, <3>2, IdentityShapes
  <2> QED BY <1>2, <2>1, <2>2
<1>5. IdentityTypes'
  BY <1>1, <1>3, <1>4 DEF IdentityInv, IdentityTypes, Holding
<1>6. SyncHolds'
  BY <1>1, <1>4 DEF IdentityInv, SyncHolds, Deciding, Holding
<1>7. ASSUME ~netCount'.clobbered PROVE CredentialIsSaved' /\ OneIdentity'
  BY <1>1, <1>3, <1>4, <1>7 DEF IdentityInv, CredentialIsSaved, OneIdentity, IsBound, Holding
<1> QED BY <1>5, <1>6, <1>7 DEF IdentityInv

(* The signer reads a bound credential.  It removes it only when it does not  *)
(* fit, which the credential of an identity of this stay always does.         *)
LEMMA SignerReadsKeeps == ASSUME IdentityInv, SignerReads PROVE IdentityInv'
<1>1. netSigner' = [at |-> "check", cred |-> netCred] /\ IsBound(netCred)
      /\ UNCHANGED <<netEnv, netAccount, netCred, netServer, netSync, netCount>>
  BY DEF SignerReads
<1>2. netSigner'.cred = netCred
  BY <1>1
<1> QED BY <1>1, <1>2 DEF IdentityInv, IdentityTypes, SyncHolds, CredentialIsSaved, OneIdentity, IsBound

(* What the signer removes is no credential of a present identity.           *)
LEMMA SignerChecksKeeps == ASSUME IdentityInv, SignerChecks PROVE IdentityInv'
<1>1. PICK fits \in BOOLEAN : fits = (/\ credentialScopeMatches(netSigner.cred)
                                      /\ boundCredentialMatchesActiveBinding(netAccount, netSigner.cred))
  OBVIOUS
<1>2. PICK lost \in BOOLEAN : lost = (~fits /\ netCred # NoCred /\ netCred # netSigner.cred)
  OBVIOUS
<1>3. /\ netSigner.at = "check" /\ netCred' = IF fits THEN netCred ELSE NoCred
      /\ netCount' = [netCount EXCEPT !.clobbered = netCount.clobbered \/ lost]
      /\ netSigner' = SignerIdle /\ UNCHANGED <<netEnv, netAccount, netServer, netSync>>
  BY <1>1, <1>2 DEF SignerChecks
<1>4. netCount' = [keys |-> netCount.keys, starts |-> netCount.starts, stay |-> netCount.stay,
                   clobbered |-> netCount.clobbered \/ lost]
  BY <1>3, IdentityShapes
<1>5. /\ netCount'.keys = netCount.keys /\ netCount'.stay = netCount.stay
      /\ netCount'.clobbered = (netCount.clobbered \/ lost) /\ netCount'.clobbered \in BOOLEAN
      /\ netCount' = [keys |-> netCount'.keys, starts |-> netCount'.starts, stay |-> netCount'.stay,
                      clobbered |-> netCount'.clobbered]
  BY <1>4
<1>6. netSigner'.at = "idle"
  BY <1>3 DEF SignerIdle
<1>7. netCred' = netCred \/ (netCred' = NoCred /\ ~fits)
  BY <1>3
<1>8. IdentityTypes'
  BY <1>3, <1>5, <1>6, <1>7, IdentityShapes DEF IdentityInv, IdentityTypes
<1>9. SyncHolds'
  BY <1>3 DEF IdentityInv, SyncHolds
<1>10. CASE netCred' = netCred
  <2> SUFFICES ASSUME ~netCount'.clobbered PROVE CredentialIsSaved' /\ OneIdentity'
    BY <1>8, <1>9 DEF IdentityInv
  <2>1. CredentialIsSaved /\ OneIdentity
    BY <1>5 DEF IdentityInv
  <2> QED BY <1>3, <1>5, <1>10, <2>1 DEF CredentialIsSaved, OneIdentity, IsBound
<1>11. CASE netCred' = NoCred /\ ~fits
  <2> SUFFICES ASSUME ~netCount'.clobbered PROVE CredentialIsSaved' /\ OneIdentity'
    BY <1>8, <1>9 DEF IdentityInv
  <2>1. ~netCount.clobbered /\ ~lost /\ CredentialIsSaved /\ OneIdentity
    BY <1>5 DEF IdentityInv
  <2>2. netCred = NoCred \/ netCred = netSigner.cred
    BY <1>2, <1>11, <2>1
  <2>3. netCred.id # 0 \/ netCred.key = 0
    BY <1>3, <2>2, IdentityShapes DEF IdentityInv, IdentityTypes, IsBound
  <2>4. netCred'.key = 0 /\ netCred'.id = 0
    BY <1>11, IdentityShapes
  <2>5. CredentialIsSaved'
    BY <1>3, <2>1, <2>3, <2>4 DEF CredentialIsSaved, IsBound
  <2>6. \A i \in netServer.identities : i.stay # netCount.stay
    <3> SUFFICES ASSUME NEW i \in netServer.identities, i.stay = netCount.stay PROVE FALSE
      OBVIOUS
    <3>1. netCred.key = i.key /\ netCred.env = netEnv /\ i.key # 0
      BY <2>1 DEF OneIdentity, IdentityInv, IdentityTypes
    <3>2. netCred = netSigner.cred /\ netCred.id = i.key
      BY <2>2, <2>3, <3>1, IdentityShapes
    <3>3. credentialScopeMatches(netSigner.cred)
      BY <3>1, <3>2 DEF credentialScopeMatches
    <3>4. boundCredentialMatchesActiveBinding(netAccount, netSigner.cred)
      BY <2>1, <3>1, <3>2 DEF OneIdentity, boundCredentialMatchesActiveBinding
    <3> QED BY <1>1, <1>11, <3>3, <3>4
  <2>7. OneIdentity'
    BY <1>3, <1>5, <2>1, <2>6 DEF OneIdentity
  <2> QED BY <2>5, <2>7
<1> QED BY <1>7, <1>10, <1>11

(* The process starts again, here or in the other environment.                *)
LEMMA NetRestartKeeps == ASSUME IdentityInv, NetRestart PROVE IdentityInv'
<1>1. PICK stay : stay = IF netEnv' = netEnv THEN netCount.stay ELSE netCount.stay + 1
  OBVIOUS
<1>2. /\ netCount' = [netCount EXCEPT !.starts = @ + 1, !.stay = stay]
      /\ netSync' = NetIdle /\ netSigner' = SignerIdle
      /\ UNCHANGED <<netAccount, netCred, netServer>>
  BY <1>1 DEF NetRestart
<1>3. netCount' = [keys |-> netCount.keys, starts |-> netCount.starts + 1, stay |-> stay,
                   clobbered |-> netCount.clobbered]
  BY <1>2, IdentityShapes
<1>4. /\ netCount'.keys = netCount.keys /\ netCount'.stay = stay /\ netCount'.clobbered = netCount.clobbered
      /\ netCount' = [keys |-> netCount'.keys, starts |-> netCount'.starts, stay |-> netCount'.stay,
                      clobbered |-> netCount'.clobbered]
  BY <1>3
<1>5. netSync' = [at |-> "idle", account |-> [id |-> 0], cred |-> NoCred] /\ netSigner'.at = "idle"
  BY <1>2 DEF NetIdle, SignerIdle
<1>6. /\ netSync'.at = "idle" /\ netSync'.cred = NoCred
      /\ netSync' = [at |-> netSync'.at, account |-> netSync'.account, cred |-> netSync'.cred]
  BY <1>5
<1>7. stay \in Nat /\ netCount.stay \in Nat /\ netCount.stay <= stay
      /\ (netEnv' = netEnv => stay = netCount.stay) /\ (netEnv' # netEnv => stay > netCount.stay)
  BY <1>1 DEF IdentityInv, IdentityTypes
<1>8. \A i \in netServer.identities : i.stay \in Nat /\ i.stay <= stay /\ (netEnv' # netEnv => i.stay # stay)
  BY <1>7 DEF IdentityInv, IdentityTypes
<1>9. IdentityTypes'
  BY <1>2, <1>4, <1>5, <1>6, <1>7, <1>8, IdentityShapes DEF IdentityInv, IdentityTypes
<1>10. SyncHolds'
  BY <1>6 DEF SyncHolds, Deciding, Holding
<1>11. ASSUME ~netCount'.clobbered PROVE CredentialIsSaved' /\ OneIdentity'
  <2>1. CredentialIsSaved'
    BY <1>2, <1>4, <1>6, <1>11 DEF IdentityInv, CredentialIsSaved, IsBound
  <2>2. CASE netEnv' = netEnv
    BY <1>2, <1>4, <1>6, <1>7, <1>11, <2>1, <2>2 DEF IdentityInv, OneIdentity, Holding
  <2>3. CASE netEnv' # netEnv
    BY <1>2, <1>4, <1>8, <1>11, <2>1, <2>3 DEF IdentityInv, OneIdentity
  <2> QED BY <2>2, <2>3
<1> QED BY <1>9, <1>10, <1>11 DEF IdentityInv

(* Nothing is registered at first.                                            *)
LEMMA IdentityBegins == NetInit => IdentityInv
<1> SUFFICES ASSUME NetInit PROVE IdentityInv
  OBVIOUS
<1>1. /\ netAccount = [id |-> netAccount.id, mode |-> netAccount.mode, state |-> netAccount.state,
                       env |-> netAccount.env, key |-> netAccount.key] /\ netAccount.state = "pending"
      /\ netServer = [identities |-> {}, bindings |-> {}]
      /\ netSync = [at |-> "idle", account |-> [id |-> 0], cred |-> NoCred]
      /\ netSigner.at = "idle" /\ netCred = NoCred
      /\ netCount = [keys |-> 0, starts |-> 0, stay |-> 0, clobbered |-> FALSE]
  BY DEF NetInit, NetIdle, SignerIdle
<1>2. /\ netServer.identities = {} /\ netServer = [identities |-> netServer.identities, bindings |-> netServer.bindings]
      /\ netSync.at = "idle" /\ netSync.cred = NoCred
      /\ netSync = [at |-> netSync.at, account |-> netSync.account, cred |-> netSync.cred]
      /\ netCount.keys = 0 /\ netCount.stay = 0
      /\ netCount = [keys |-> netCount.keys, starts |-> netCount.starts, stay |-> netCount.stay,
                     clobbered |-> netCount.clobbered]
  BY <1>1
<1>3. netCount.clobbered = FALSE
  BY <1>1
<1>4. netCount.clobbered \in BOOLEAN
  BY <1>3
<1>5. NoCred = [key |-> NoCred.key, env |-> NoCred.env, id |-> NoCred.id, pending |-> NoCred.pending]
      /\ NoCred.key = 0 /\ NoCred.id = 0
  BY DEF NoCred
<1>6. IdentityTypes
  BY <1>1, <1>2, <1>4, <1>5 DEF IdentityTypes
<1>7. SyncHolds /\ CredentialIsSaved /\ OneIdentity
  BY <1>1, <1>2, <1>5 DEF SyncHolds, CredentialIsSaved, OneIdentity, Deciding, Holding, IsBound
<1> QED BY <1>6, <1>7 DEF IdentityInv

(* Every step of the synchronization, of the signer and of the process keeps  *)
(* the invariant.                                                             *)
LEMMA IdentityStep == IdentityInv /\ [NetNext]_netVars => IdentityInv'
<1> SUFFICES ASSUME IdentityInv, [NetNext]_netVars PROVE IdentityInv'
  OBVIOUS
<1>1. CASE UNCHANGED netVars
  BY <1>1 DEF netVars, IdentityInv, IdentityTypes, SyncHolds, CredentialIsSaved, OneIdentity, IsBound
<1>2. CASE NetNext
  BY <1>2, SyncBeginsKeeps, LoadCredentialsKeeps, DiscardKeeps, RescopeKeeps, PrepareKeeps,
     NewCredentialKeeps, PersistPendingKeeps, RegisterIdentityKeeps, GetIdentitySelfKeeps,
     CommitCredentialKeeps, CommitAccountKeeps, RelayKeeps, AdoptKeeps, SignerReadsKeeps,
     SignerChecksKeeps, NetRestartKeeps DEF NetNext
<1> QED BY <1>1, <1>2

(* What the invariant says of the identities of a stay.                      *)
LEMMA IdentityAgrees == IdentityInv => RegistersOnePerStay
BY DEF IdentityInv, OneIdentity, RegistersOnePerStay

------------------------------------------------------------------------------
(* The persisted write (NetworkClient)                                       *)

(* Every copy of a write that is still under way is a copy of the persisted   *)
(* one, or of one whose end was reported; a refused one stays refused,        *)
(* because its revision is past or the identity is made.                      *)
Refused(op, expected) ==
  IF op \in ConditionalWrites THEN expected < httpService.revision ELSE httpService.identity

HttpTypes ==
  /\ httpService = [revision |-> httpService.revision, done |-> httpService.done,
                    applied |-> httpService.applied, identity |-> httpService.identity]
  /\ httpService.revision \in Nat /\ httpService.identity \in BOOLEAN
  /\ httpService.done \in [HttpKeys -> Nat]
  /\ httpReported \in [HttpKeys -> {"none", "done", "conflict"}]
  /\ httpCall = [stage |-> httpCall.stage, request |-> httpCall.request, answer |-> httpCall.answer]
  /\ httpCall.stage \in {"idle", "sent", "reading"}
  /\ httpKnown \in Nat /\ httpKnown <= httpService.revision

DoneIsApplied ==
  \A k \in HttpKeys : /\ httpService.done[k] <= httpService.revision
                      /\ httpService.done[k] # 0 <=> k \in httpService.applied
                      /\ httpReported[k] = "done" => httpService.done[k] # 0
                      /\ httpReported[k] = "conflict" => httpService.done[k] = 0

WriteIsPersisted ==
  httpWrite = NoWrite \/ /\ httpWrite.key \in HttpKeys /\ httpWrite.op \in KeyedWrites
                         /\ httpWrite.expected \in Nat /\ httpWrite.expected <= httpService.revision
                         /\ httpReported[httpWrite.key] = "none"

WireIsKnown ==
  \A r \in httpWire : r.op \in KeyedWrites =>
    /\ r.key \in HttpKeys /\ r.body = r.key
    /\ r.ifMatch \in Nat /\ r.ifMatch <= httpService.revision
    /\ r.key = httpWrite.key => r.op = httpWrite.op /\ r.ifMatch = httpWrite.expected
    /\ r.key # httpWrite.key => httpReported[r.key] # "none"
    /\ httpReported[r.key] = "conflict" => Refused(r.op, r.ifMatch)

CallIsKnown ==
  /\ httpCall.stage # "idle" /\ httpCall.request.op \in KeyedWrites =>
       /\ httpWrite # NoWrite /\ httpCall.request.key = httpWrite.key
       /\ httpCall.request.op = httpWrite.op /\ httpCall.request.ifMatch = httpWrite.expected
  /\ httpCall.stage = "reading" /\ httpCall.request.op \in KeyedWrites =>
       /\ httpCall.answer.status = 200 => httpService.done[httpWrite.key] # 0
       /\ httpCall.answer.status = 409 => /\ httpService.done[httpWrite.key] = 0
                                          /\ Refused(httpWrite.op, httpWrite.expected)
  /\ httpCall.stage = "reading" /\ httpCall.answer.flaw # "etag" =>
       httpCall.answer.revision \in Nat /\ httpCall.answer.revision <= httpService.revision

HttpInv == HttpTypes /\ DoneIsApplied /\ WriteIsPersisted /\ WireIsKnown /\ CallIsKnown

(* What the service does with a request: nothing, or it applies a write that  *)
(* was neither done nor refused.                                              *)
LEMMA ServiceSteps ==
  ASSUME HttpInv, NEW r \in httpWire, NEW did, did = ServiceDoes(r)
  PROVE  \/ /\ did.service = httpService
            /\ did.revision \in Nat /\ did.revision <= httpService.revision
            /\ r.op \in KeyedWrites /\ did.status = 200 => httpService.done[r.key] # 0
            /\ r.op \in KeyedWrites /\ did.status = 409 =>
                 httpService.done[r.key] = 0 /\ Refused(r.op, r.ifMatch)
         \/ /\ r.op \in KeyedWrites /\ httpService.done[r.key] = 0 /\ ~Refused(r.op, r.ifMatch)
            /\ did.service = [revision |-> httpService.revision + 1,
                              done |-> [httpService.done EXCEPT ![r.key] = httpService.revision + 1],
                              applied |-> httpService.applied \cup {r.key},
                              identity |-> httpService.identity \/ r.op \notin ConditionalWrites]
            /\ did.revision = httpService.revision + 1 /\ did.status = 200
<1>1. httpService.revision \in Nat /\ httpService.done \in [HttpKeys -> Nat]
      /\ httpService = [revision |-> httpService.revision, done |-> httpService.done,
                        applied |-> httpService.applied, identity |-> httpService.identity]
  BY DEF HttpInv, HttpTypes
<1>2. r.op \in KeyedWrites => r.key \in HttpKeys /\ r.key # 0 /\ r.body = r.key /\ r.ifMatch \in Nat
                              /\ r.ifMatch <= httpService.revision
  BY NetworkClientBounds DEF HttpInv, WireIsKnown, HttpKeys
<1>3. CASE Signed(r.op) /\ r.skew # 0
  <2>1. did = [service |-> httpService, status |-> 401, revision |-> 0]
    BY <1>3 DEF ServiceDoes
  <2>2. did.service = httpService /\ did.status = 401 /\ did.revision = 0
    BY <2>1
  <2> QED BY <1>1, <2>2
<1>4. CASE ~(Signed(r.op) /\ r.skew # 0) /\ r.op \notin KeyedWrites
  <2>1. did = [service |-> httpService, status |-> 200, revision |-> httpService.revision]
    BY <1>4 DEF ServiceDoes
  <2>2. did.service = httpService /\ did.revision = httpService.revision
    BY <2>1
  <2> QED BY <1>1, <1>4, <2>2
<1>5. CASE ~(Signed(r.op) /\ r.skew # 0) /\ r.op \in KeyedWrites /\ httpService.done[r.key] # 0
  <2>1. did = [service |-> httpService, status |-> 200, revision |-> httpService.done[r.key]]
    BY <1>2, <1>5 DEF ServiceDoes
  <2>2. did.service = httpService /\ did.status = 200 /\ did.revision = httpService.done[r.key]
    BY <2>1
  <2>3. httpService.done[r.key] \in Nat /\ httpService.done[r.key] <= httpService.revision
    BY <1>1, <1>2, <1>5 DEF HttpInv, DoneIsApplied
  <2> QED BY <1>5, <2>2, <2>3
<1>6. CASE /\ ~(Signed(r.op) /\ r.skew # 0) /\ r.op \in KeyedWrites /\ httpService.done[r.key] = 0
           /\ ~Refused(r.op, r.ifMatch)
  <2>1. IF r.op \in ConditionalWrites THEN r.ifMatch = httpService.revision ELSE ~httpService.identity
    BY <1>1, <1>2, <1>6 DEF Refused
  <2>2. did = [service |-> [[httpService EXCEPT !.revision = httpService.revision + 1,
                                                !.applied = @ \cup {r.body},
                                                !.identity = @ \/ r.op \notin ConditionalWrites]
                              EXCEPT !.done[r.key] = httpService.revision + 1],
               status |-> 200, revision |-> httpService.revision + 1]
    BY <1>2, <1>6, <2>1 DEF ServiceDoes
  <2>3. PICK s : s = [httpService EXCEPT !.revision = httpService.revision + 1,
                                         !.applied = @ \cup {r.body},
                                         !.identity = @ \/ r.op \notin ConditionalWrites]
    OBVIOUS
  <2>4. s = [revision |-> httpService.revision + 1, done |-> httpService.done,
             applied |-> httpService.applied \cup {r.body},
             identity |-> httpService.identity \/ r.op \notin ConditionalWrites]
    BY <1>1, <2>3
  <2>5. did.service = [s EXCEPT !.done[r.key] = httpService.revision + 1]
        /\ did.status = 200 /\ did.revision = httpService.revision + 1
    BY <2>2, <2>3
  <2>6. did.service = [revision |-> httpService.revision + 1,
                       done |-> [httpService.done EXCEPT ![r.key] = httpService.revision + 1],
                       applied |-> httpService.applied \cup {r.body},
                       identity |-> httpService.identity \/ r.op \notin ConditionalWrites]
    BY <2>4, <2>5
  <2> QED BY <1>2, <1>6, <2>5, <2>6
<1>7. CASE /\ ~(Signed(r.op) /\ r.skew # 0) /\ r.op \in KeyedWrites /\ httpService.done[r.key] = 0
           /\ Refused(r.op, r.ifMatch)
  <2>1. ~(IF r.op \in ConditionalWrites THEN r.ifMatch = httpService.revision ELSE ~httpService.identity)
    BY <1>1, <1>2, <1>7 DEF Refused
  <2>2. did = [service |-> httpService, status |-> 409, revision |-> 0]
    BY <1>2, <1>7, <2>1 DEF ServiceDoes
  <2>3. did.service = httpService /\ did.status = 409 /\ did.revision = 0
    BY <2>2
  <2> QED BY <1>1, <1>7, <2>3
<1> QED BY <1>3, <1>4, <1>5, <1>6, <1>7

(* The service goes forward; what was done stays done, what was refused stays *)
(* refused.                                                                   *)
LEMMA ServiceMoves ==
  ASSUME HttpInv, httpWire' \subseteq httpWire, UNCHANGED <<httpWrite, httpReported, httpKnown>>,
         NEW rev \in Nat, rev >= httpService.revision, NEW done \in [HttpKeys -> Nat], NEW applied,
         NEW made \in BOOLEAN, httpService.identity => made,
         httpService' = [revision |-> rev, done |-> done, applied |-> applied, identity |-> made],
         \A k \in HttpKeys : /\ done[k] <= rev
                             /\ done[k] # 0 <=> k \in applied
                             /\ httpService.done[k] # 0 => done[k] # 0
                             /\ httpReported[k] = "conflict" => done[k] = 0
  PROVE  /\ httpService' = [revision |-> httpService'.revision, done |-> httpService'.done,
                            applied |-> httpService'.applied, identity |-> httpService'.identity]
         /\ httpService'.revision = rev /\ httpService'.done = done /\ httpService'.identity = made
         /\ DoneIsApplied' /\ WriteIsPersisted' /\ WireIsKnown'
<1>1. /\ httpService'.revision = rev /\ httpService'.done = done /\ httpService'.identity = made
      /\ httpService'.applied = applied
      /\ httpService' = [revision |-> httpService'.revision, done |-> httpService'.done,
                         applied |-> httpService'.applied, identity |-> httpService'.identity]
  OBVIOUS
<1>2. DoneIsApplied'
  BY <1>1 DEF HttpInv, DoneIsApplied
<1>3. httpService.revision \in Nat
  BY DEF HttpInv, HttpTypes
<1>4. WriteIsPersisted'
  BY <1>1, <1>3 DEF HttpInv, WriteIsPersisted
<1>5. WireIsKnown'
  <2> SUFFICES ASSUME NEW r \in httpWire', r.op \in KeyedWrites
               PROVE  /\ r.key \in HttpKeys /\ r.body = r.key
                      /\ r.ifMatch \in Nat /\ r.ifMatch <= httpService'.revision
                      /\ r.key = httpWrite'.key => r.op = httpWrite'.op /\ r.ifMatch = httpWrite'.expected
                      /\ r.key # httpWrite'.key => httpReported'[r.key] # "none"
                      /\ httpReported'[r.key] = "conflict" => Refused(r.op, r.ifMatch)'
    BY DEF WireIsKnown
  <2>1. r \in httpWire
    OBVIOUS
  <2>2. Refused(r.op, r.ifMatch) /\ r.ifMatch \in Nat => Refused(r.op, r.ifMatch)'
    BY <1>1, <1>3 DEF Refused
  <2> QED BY <1>1, <1>3, <2>1, <2>2 DEF HttpInv, WireIsKnown
<1> QED BY <1>1, <1>2, <1>4, <1>5

(* Another client's write moves the revision only.                            *)
LEMMA AnotherWritesKeeps == ASSUME HttpInv, AnotherWrites PROVE HttpInv'
<1>1. /\ httpService' = [httpService EXCEPT !.revision = @ + 1]
      /\ UNCHANGED <<httpCall, httpWire, httpWrite, httpKnown, httpReported>>
  BY DEF AnotherWrites
<1>2. httpService.revision \in Nat /\ httpService.done \in [HttpKeys -> Nat] /\ httpService.identity \in BOOLEAN
  BY DEF HttpInv, HttpTypes
<1>3. httpService' = [revision |-> httpService.revision + 1, done |-> httpService.done,
                      applied |-> httpService.applied, identity |-> httpService.identity]
  BY <1>1 DEF HttpInv, HttpTypes
<1>4. \A k \in HttpKeys : /\ httpService.done[k] <= httpService.revision + 1
                          /\ httpService.done[k] # 0 <=> k \in httpService.applied
                          /\ httpReported[k] = "conflict" => httpService.done[k] = 0
  BY <1>2 DEF HttpInv, DoneIsApplied
<1>5. httpService.revision + 1 \in Nat /\ httpService.revision + 1 >= httpService.revision
  BY <1>2
<1>6. /\ httpService' = [revision |-> httpService'.revision, done |-> httpService'.done,
                         applied |-> httpService'.applied, identity |-> httpService'.identity]
      /\ httpService'.revision = httpService.revision + 1 /\ httpService'.done = httpService.done
      /\ httpService'.identity = httpService.identity
      /\ DoneIsApplied' /\ WriteIsPersisted' /\ WireIsKnown'
  <2>1. httpWire' \subseteq httpWire /\ UNCHANGED <<httpWrite, httpReported, httpKnown>>
    BY <1>1
  <2>2. \A k \in HttpKeys : /\ httpService.done[k] <= httpService.revision + 1
                            /\ httpService.done[k] # 0 <=> k \in httpService.applied
                            /\ httpService.done[k] # 0 => httpService.done[k] # 0
                            /\ httpReported[k] = "conflict" => httpService.done[k] = 0
    BY <1>4
  <2> QED BY <1>2, <1>3, <1>5, <2>1, <2>2, ServiceMoves
<1>7. HttpTypes'
  BY <1>1, <1>2, <1>6 DEF HttpInv, HttpTypes
<1>8. CallIsKnown'
  <2>1. httpCall.stage = "reading" /\ httpCall.request.op \in KeyedWrites => httpWrite.expected \in Nat
    BY DEF HttpInv, CallIsKnown, WriteIsPersisted
  <2>2. httpWrite.expected \in Nat /\ Refused(httpWrite.op, httpWrite.expected)
          => Refused(httpWrite.op, httpWrite.expected)'
    BY <1>1, <1>2, <1>6 DEF Refused
  <2> QED BY <1>1, <1>2, <1>6, <2>1, <2>2 DEF HttpInv, CallIsKnown
<1> QED BY <1>6, <1>7, <1>8 DEF HttpInv

(* The answer that reaches the waiting call says what the service did.        *)
LEMMA AnswerIsKnown ==
  ASSUME HttpInv, NEW r \in httpWire, httpCall.stage = "sent", httpCall.request = r,
         NEW a, httpCall' = [stage |-> "reading", request |-> r, answer |-> a],
         httpWrite' = httpWrite,
         a.flaw # "etag" => a.revision \in Nat /\ a.revision <= httpService'.revision,
         r.op \in KeyedWrites /\ a.status = 200 => httpService'.done[r.key] # 0,
         r.op \in KeyedWrites /\ a.status = 409 =>
           /\ httpService'.done[r.key] = 0
           /\ IF r.op \in ConditionalWrites THEN r.ifMatch < httpService'.revision ELSE httpService'.identity
  PROVE  CallIsKnown' /\ httpCall'.stage = "reading"
         /\ httpCall' = [stage |-> httpCall'.stage, request |-> httpCall'.request, answer |-> httpCall'.answer]
<1>1. PICK k : k = httpCall'
  OBVIOUS
<1>2. k = [stage |-> "reading", request |-> r, answer |-> a]
  BY <1>1
<1>3. k.stage = "reading" /\ k.request = r /\ k.answer = a
      /\ k = [stage |-> k.stage, request |-> k.request, answer |-> k.answer]
  BY <1>2
<1>4. r.op \in KeyedWrites => httpWrite # NoWrite /\ r.key = httpWrite.key /\ r.op = httpWrite.op
                              /\ r.ifMatch = httpWrite.expected
  BY DEF HttpInv, CallIsKnown
<1>5. CASE r.op \in KeyedWrites
  <2>1. r.op = httpWrite'.op /\ r.ifMatch = httpWrite'.expected /\ r.key = httpWrite'.key
    BY <1>4, <1>5
  <2>2. a.status = 409 => Refused(httpWrite.op, httpWrite.expected)'
    BY <1>5, <2>1 DEF Refused
  <2> QED BY <1>1, <1>3, <1>4, <1>5, <2>1, <2>2 DEF CallIsKnown
<1>6. CASE r.op \notin KeyedWrites
  BY <1>1, <1>3, <1>6 DEF CallIsKnown
<1> QED BY <1>5, <1>6

(* A request reaches the service, whether or not its call still waits.        *)
LEMMA ServiceAnswersKeeps == ASSUME HttpInv, NEW r \in httpWire, ServiceAnswers(r) PROVE HttpInv'
<1>1. PICK did : did = ServiceDoes(r)
  OBVIOUS
<1>2. /\ httpWire' = httpWire \ {r} /\ httpService' = did.service
      /\ UNCHANGED <<httpWrite, httpKnown, httpReported>>
      /\ \/ /\ httpCall.stage = "sent" /\ httpCall.request = r
            /\ \E a : /\ httpCall' = [httpCall EXCEPT !.stage = "reading", !.answer = a]
                      /\ a.status = did.status /\ (a.flaw # "etag" => a.revision = did.revision)
         \/ httpCall' = httpCall
  <2>2. CASE httpCall.stage = "sent" /\ httpCall.request = r
    <3>1. PICK flaw : httpCall' = [httpCall EXCEPT !.stage = "reading",
                        !.answer = [status |-> did.status, flaw |-> flaw,
                                    revision |-> IF flaw = "etag" THEN did.revision + 1 ELSE did.revision]]
      BY <1>1, <2>2 DEF ServiceAnswers
    <3>2. PICK a : a = [status |-> did.status, flaw |-> flaw,
                        revision |-> IF flaw = "etag" THEN did.revision + 1 ELSE did.revision]
      OBVIOUS
    <3>3. a.status = did.status /\ (a.flaw # "etag" => a.revision = did.revision)
      BY <3>2
    <3>4. httpCall' = [httpCall EXCEPT !.stage = "reading", !.answer = a]
      BY <3>1, <3>2
    <3> QED BY <1>1, <2>2, <3>3, <3>4 DEF ServiceAnswers
  <2>3. CASE ~(httpCall.stage = "sent" /\ httpCall.request = r)
    BY <1>1, <2>3 DEF ServiceAnswers
  <2> QED BY <2>2, <2>3
<1>3. /\ httpService.revision \in Nat /\ httpService.done \in [HttpKeys -> Nat] /\ httpService.identity \in BOOLEAN
      /\ httpService = [revision |-> httpService.revision, done |-> httpService.done,
                        applied |-> httpService.applied, identity |-> httpService.identity]
      /\ httpCall = [stage |-> httpCall.stage, request |-> httpCall.request, answer |-> httpCall.answer]
      /\ httpCall.stage \in {"idle", "sent", "reading"}
      /\ httpReported \in [HttpKeys -> {"none", "done", "conflict"}]
      /\ httpKnown \in Nat /\ httpKnown <= httpService.revision
  BY DEF HttpInv, HttpTypes
<1>4. CASE /\ did.service = httpService
           /\ did.revision \in Nat /\ did.revision <= httpService.revision
           /\ r.op \in KeyedWrites /\ did.status = 200 => httpService.done[r.key] # 0
           /\ r.op \in KeyedWrites /\ did.status = 409 =>
                httpService.done[r.key] = 0 /\ Refused(r.op, r.ifMatch)
  <2>1. httpService' = httpService
    BY <1>2, <1>4
  <2>2. DoneIsApplied' /\ WriteIsPersisted' /\ WireIsKnown'
    BY <1>2, <2>1 DEF HttpInv, DoneIsApplied, WriteIsPersisted, WireIsKnown, Refused
  <2>3. CallIsKnown' /\ httpCall'.stage \in {"idle", "sent", "reading"}
        /\ httpCall' = [stage |-> httpCall'.stage, request |-> httpCall'.request, answer |-> httpCall'.answer]
    <3>1. CASE httpCall' = httpCall
      BY <1>2, <1>3, <2>1, <3>1 DEF HttpInv, CallIsKnown, Refused
    <3>2. ASSUME httpCall.stage = "sent", httpCall.request = r, NEW a,
                 httpCall' = [httpCall EXCEPT !.stage = "reading", !.answer = a],
                 a.status = did.status, a.flaw # "etag" => a.revision = did.revision
          PROVE  CallIsKnown' /\ httpCall'.stage = "reading"
                 /\ httpCall' = [stage |-> httpCall'.stage, request |-> httpCall'.request, answer |-> httpCall'.answer]
      <4>1. r.op \in KeyedWrites /\ did.status = 409 =>
              /\ httpService'.done[r.key] = 0
              /\ IF r.op \in ConditionalWrites THEN r.ifMatch < httpService'.revision ELSE httpService'.identity
        BY <1>4, <2>1 DEF Refused
      <4>2. /\ httpWrite' = httpWrite /\ did.revision \in Nat /\ did.revision <= httpService'.revision
            /\ r.op \in KeyedWrites /\ did.status = 200 => httpService'.done[r.key] # 0
        BY <1>2, <1>4, <2>1
      <4>3. a.flaw # "etag" => a.revision \in Nat /\ a.revision <= httpService'.revision
        BY <3>2, <4>2
      <4>4. r.op \in KeyedWrites /\ a.status = 200 => httpService'.done[r.key] # 0
        BY <3>2, <4>2
      <4>5. r.op \in KeyedWrites /\ a.status = 409 =>
              /\ httpService'.done[r.key] = 0
              /\ IF r.op \in ConditionalWrites THEN r.ifMatch < httpService'.revision ELSE httpService'.identity
        BY <3>2, <4>1
      <4>6. httpWrite' = httpWrite /\ httpCall.stage = "sent" /\ httpCall.request = r
            /\ httpCall' = [stage |-> "reading", request |-> r, answer |-> a]
        BY <1>3, <3>2, <4>2
      <4> QED BY <4>3, <4>4, <4>5, <4>6, AnswerIsKnown
    <3> QED BY <1>2, <3>1, <3>2
  <2> QED BY <1>2, <1>3, <2>1, <2>2, <2>3 DEF HttpInv, HttpTypes
<1>5. CASE /\ r.op \in KeyedWrites /\ httpService.done[r.key] = 0 /\ ~Refused(r.op, r.ifMatch)
           /\ did.service = [revision |-> httpService.revision + 1,
                             done |-> [httpService.done EXCEPT ![r.key] = httpService.revision + 1],
                             applied |-> httpService.applied \cup {r.key},
                             identity |-> httpService.identity \/ r.op \notin ConditionalWrites]
           /\ did.revision = httpService.revision + 1 /\ did.status = 200
  <2>1. PICK rev, done, applied : /\ rev = httpService.revision + 1
                                  /\ done = [httpService.done EXCEPT ![r.key] = rev]
                                  /\ applied = httpService.applied \cup {r.key}
    OBVIOUS
  <2>2. PICK made \in BOOLEAN : made = (httpService.identity \/ r.op \notin ConditionalWrites)
    OBVIOUS
  <2>3. httpService' = [revision |-> rev, done |-> done, applied |-> applied, identity |-> made]
    BY <1>2, <1>5, <2>1, <2>2
  <2>4. rev \in Nat /\ rev > httpService.revision /\ rev # 0
    BY <1>3, <2>1
  <2>5. /\ r.key \in HttpKeys /\ r.ifMatch \in Nat
        /\ httpReported[r.key] # "conflict"
    BY <1>5 DEF HttpInv, WireIsKnown
  <2>6. done \in [HttpKeys -> Nat] /\ done[r.key] = rev
        /\ \A k \in HttpKeys : k # r.key => done[k] = httpService.done[k]
    BY <1>3, <2>1, <2>4, <2>5
  <2>7. \A k \in HttpKeys : /\ done[k] <= rev
                            /\ done[k] # 0 <=> k \in applied
                            /\ httpService.done[k] # 0 => done[k] # 0
                            /\ httpReported[k] = "conflict" => done[k] = 0
    BY <1>3, <2>1, <2>4, <2>5, <2>6 DEF HttpInv, DoneIsApplied
  <2>8. httpWire' \subseteq httpWire /\ UNCHANGED <<httpWrite, httpReported, httpKnown>>
    BY <1>2
  <2>9. (httpService.identity => made) /\ rev >= httpService.revision
    BY <1>3, <2>2, <2>4
  <2>10. /\ httpService' = [revision |-> httpService'.revision, done |-> httpService'.done,
                            applied |-> httpService'.applied, identity |-> httpService'.identity]
         /\ httpService'.revision = rev /\ httpService'.done = done /\ httpService'.identity = made
         /\ DoneIsApplied' /\ WriteIsPersisted' /\ WireIsKnown'
    BY <2>3, <2>4, <2>6, <2>7, <2>8, <2>9, ServiceMoves
  <2>13. httpService'.revision = rev /\ httpService'.done = done
    BY <2>10
  <2>11. CallIsKnown' /\ httpCall'.stage \in {"idle", "sent", "reading"}
         /\ httpCall' = [stage |-> httpCall'.stage, request |-> httpCall'.request, answer |-> httpCall'.answer]
    <3>1. CASE httpCall' = httpCall
      <4>1. httpCall.stage = "reading" /\ httpCall.request.op \in KeyedWrites
              => httpWrite.key \in HttpKeys /\ httpWrite.expected \in Nat
        BY DEF HttpInv, CallIsKnown, WriteIsPersisted
      <4>2. httpCall.stage = "reading" /\ httpCall.request.op \in KeyedWrites /\ httpCall.answer.status = 409
              => httpWrite.key # r.key
        BY <1>5 DEF HttpInv, CallIsKnown, WireIsKnown
      <4>3. httpWrite.expected \in Nat /\ Refused(httpWrite.op, httpWrite.expected)
              => Refused(httpWrite.op, httpWrite.expected)'
        <5>1. httpWrite'.op = httpWrite.op /\ httpWrite'.expected = httpWrite.expected
          BY <1>2
        <5>2. httpWrite.expected \in Nat /\ httpWrite.expected < httpService.revision => httpWrite.expected < rev
          BY <1>3, <2>4
        <5> QED BY <2>9, <2>10, <5>1, <5>2 DEF Refused
      <4>4. httpCall.answer.revision \in Nat /\ httpCall.answer.revision <= httpService.revision
              => httpCall.answer.revision <= rev
        BY <1>3, <2>4
      <4>5. /\ httpCall'.stage # "idle" /\ httpCall'.request.op \in KeyedWrites =>
                 /\ httpWrite' # NoWrite /\ httpCall'.request.key = httpWrite'.key
                 /\ httpCall'.request.op = httpWrite'.op /\ httpCall'.request.ifMatch = httpWrite'.expected
            /\ httpCall'.stage = "reading" /\ httpCall'.answer.flaw # "etag" =>
                 httpCall'.answer.revision \in Nat /\ httpCall'.answer.revision <= httpService'.revision
        BY <1>2, <2>10, <3>1, <4>4 DEF HttpInv, CallIsKnown
      <4>6. httpCall'.stage = "reading" /\ httpCall'.request.op \in KeyedWrites =>
               /\ httpCall'.answer.status = 200 => httpService'.done[httpWrite'.key] # 0
               /\ httpCall'.answer.status = 409 => /\ httpService'.done[httpWrite'.key] = 0
                                                   /\ Refused(httpWrite.op, httpWrite.expected)'
        BY <1>2, <2>4, <2>6, <2>10, <3>1, <4>1, <4>2, <4>3 DEF HttpInv, CallIsKnown
      <4>7. CallIsKnown'
        BY <4>5, <4>6 DEF CallIsKnown
      <4> QED BY <1>3, <3>1, <4>7
    <3>2. ASSUME httpCall.stage = "sent", httpCall.request = r, NEW a,
                 httpCall' = [httpCall EXCEPT !.stage = "reading", !.answer = a],
                 a.status = did.status, a.flaw # "etag" => a.revision = did.revision
          PROVE  CallIsKnown' /\ httpCall'.stage = "reading"
                 /\ httpCall' = [stage |-> httpCall'.stage, request |-> httpCall'.request, answer |-> httpCall'.answer]
      <4>1. /\ httpWrite' = httpWrite /\ did.revision \in Nat /\ did.revision <= httpService'.revision
            /\ httpService'.done[r.key] # 0 /\ did.status = 200
        <5>1. did.revision = rev /\ did.status = 200
          BY <1>5, <2>1
        <5>2. httpWrite' = httpWrite
          BY <2>8
        <5>3. httpService'.done[r.key] = rev
          BY <2>6, <2>13
        <5> QED BY <2>4, <2>13, <5>1, <5>2, <5>3
      <4>2. a.flaw # "etag" => a.revision \in Nat /\ a.revision <= httpService'.revision
        BY <3>2, <4>1
      <4>4. r.op \in KeyedWrites /\ a.status = 200 => httpService'.done[r.key] # 0
        BY <4>1
      <4>5. r.op \in KeyedWrites /\ a.status = 409 =>
              /\ httpService'.done[r.key] = 0
              /\ IF r.op \in ConditionalWrites THEN r.ifMatch < httpService'.revision ELSE httpService'.identity
        BY <3>2, <4>1
      <4>6. httpWrite' = httpWrite /\ httpCall.stage = "sent" /\ httpCall.request = r
            /\ httpCall' = [stage |-> "reading", request |-> r, answer |-> a]
        BY <1>3, <3>2, <4>1
      <4> QED BY <4>2, <4>4, <4>5, <4>6, AnswerIsKnown
    <3> QED BY <1>2, <3>1, <3>2
  <2>12. httpKnown' \in Nat /\ httpKnown' <= httpService'.revision
    BY <1>3, <2>4, <2>8, <2>13
  <2> QED BY <1>2, <1>3, <2>4, <2>6, <2>10, <2>11, <2>12 DEF HttpInv, HttpTypes
<1> QED BY <1>1, <1>4, <1>5, ServiceSteps

(* A busy service does nothing and says so.                                  *)
LEMMA ServiceBusyKeeps == ASSUME HttpInv, NEW r \in httpWire, ServiceBusy(r) PROVE HttpInv'
<1>1. /\ httpCall.stage = "sent" /\ httpCall.request = r /\ httpWire' = httpWire \ {r}
      /\ UNCHANGED <<httpWrite, httpKnown, httpReported, httpService>>
      /\ httpCall' = [httpCall EXCEPT !.stage = "reading", !.answer = [NoAnswer EXCEPT !.status = 503]]
  BY DEF ServiceBusy
<1>2. PICK a : a = [NoAnswer EXCEPT !.status = 503]
  OBVIOUS
<1>3. a = [status |-> 503, revision |-> 0, flaw |-> "none"]
  BY <1>2 DEF NoAnswer
<1>4. a.status = 503 /\ a.revision = 0
  BY <1>3
<1>5. httpService.revision \in Nat
  BY DEF HttpInv, HttpTypes
<1>6. httpCall' = [stage |-> "reading", request |-> r, answer |-> a]
  BY <1>1, <1>2 DEF HttpInv, HttpTypes
<1>7. httpWrite' = httpWrite /\ httpService' = httpService
  BY <1>1
<1>8. a.flaw # "etag" => a.revision \in Nat /\ a.revision <= httpService'.revision
  BY <1>4, <1>5, <1>7
<1>11. r.op \in KeyedWrites /\ a.status = 200 => httpService'.done[r.key] # 0
  BY <1>4
<1>12. r.op \in KeyedWrites /\ a.status = 409 =>
         /\ httpService'.done[r.key] = 0
         /\ IF r.op \in ConditionalWrites THEN r.ifMatch < httpService'.revision ELSE httpService'.identity
  BY <1>4
<1>13. httpWrite' = httpWrite /\ httpCall.stage = "sent" /\ httpCall.request = r
  BY <1>1
<1>9. CallIsKnown' /\ httpCall'.stage = "reading"
      /\ httpCall' = [stage |-> httpCall'.stage, request |-> httpCall'.request, answer |-> httpCall'.answer]
  BY <1>6, <1>8, <1>11, <1>12, <1>13, AnswerIsKnown
<1>10. DoneIsApplied' /\ WriteIsPersisted' /\ WireIsKnown'
  BY <1>1 DEF HttpInv, DoneIsApplied, WriteIsPersisted, WireIsKnown, Refused
<1> QED BY <1>1, <1>9, <1>10 DEF HttpInv, HttpTypes

(* A call leaves: a read without a key, or a copy of the persisted write.     *)
LEMMA FetchKeeps ==
  ASSUME HttpInv, NEW request, httpCall.stage = "idle", FetchResponse(request),
         UNCHANGED <<httpWrite, httpKnown, httpReported, httpService>>,
         request.op \in KeyedWrites =>
           /\ httpWrite # NoWrite /\ request.key = httpWrite.key /\ request.body = httpWrite.key
           /\ request.op = httpWrite.op /\ request.ifMatch = httpWrite.expected
  PROVE  HttpInv'
<1>1. httpWire' = httpWire \cup {request}
      /\ httpCall' = [HttpIdle EXCEPT !.stage = "sent", !.request = request]
  BY DEF FetchResponse
<1>2. httpCall' = [stage |-> "sent", request |-> request, answer |-> NoAnswer]
  BY <1>1 DEF HttpIdle
<1>3. httpCall'.stage = "sent" /\ httpCall'.request = request
      /\ httpCall' = [stage |-> httpCall'.stage, request |-> httpCall'.request, answer |-> httpCall'.answer]
  BY <1>2
<1>4. DoneIsApplied' /\ WriteIsPersisted'
  BY DEF HttpInv, DoneIsApplied, WriteIsPersisted
<1>5. request.op \in KeyedWrites =>
        /\ request.key \in HttpKeys /\ request.body = request.key
        /\ request.ifMatch \in Nat /\ request.ifMatch <= httpService.revision
        /\ httpReported[request.key] = "none"
  BY DEF HttpInv, WriteIsPersisted
<1>6. WireIsKnown'
  BY <1>1, <1>5 DEF HttpInv, WireIsKnown, Refused
<1>7. CallIsKnown'
  BY <1>3 DEF CallIsKnown
<1>8. HttpTypes'
  BY <1>3 DEF HttpInv, HttpTypes
<1> QED BY <1>4, <1>6, <1>7, <1>8 DEF HttpInv

(* A read carries no idempotency key.                                        *)
LEMMA ReadsAreNotKeyed == \A op \in PublicOperations \cup DocumentReads \cup PlainReads : op \notin KeyedWrites
<1>1. \A op \in PublicOperations : op \notin KeyedWrites
  BY DEF PublicOperations, KeyedWrites, ConditionalWrites, ProfileWrites, RelayWrites, RelationshipWrites,
         IdentityWrites, ClientWrites
<1>2. \A op \in DocumentReads : op \notin KeyedWrites
  BY DEF DocumentReads, KeyedWrites, ConditionalWrites, ProfileWrites, RelayWrites, RelationshipWrites,
         IdentityWrites, ClientWrites
<1>3. \A op \in PlainReads : op \notin KeyedWrites
  BY DEF PlainReads, KeyedWrites, ConditionalWrites, ProfileWrites, RelayWrites, RelationshipWrites,
         IdentityWrites, ClientWrites
<1> QED BY <1>1, <1>2, <1>3

(* A public read, a signed read or a write leaves.                           *)
LEMMA CallsKeep ==
  ASSUME HttpInv, NEW op, CallPublic(op) \/ CallRead(op) \/ CallWrite PROVE HttpInv'
<1>1. CASE CallPublic(op)
  <2>1. PICK request : request = PublicHeaders(op)
    OBVIOUS
  <2>2. request = [n |-> httpCalls + 1, op |-> op, body |-> 0, key |-> 0, ifMatch |-> 0, skew |-> 0]
    BY <2>1 DEF PublicHeaders, NoRequestSent
  <2>3. request.op \notin KeyedWrites
    BY <1>1, <2>2, ReadsAreNotKeyed DEF CallPublic
  <2>4. httpCall.stage = "idle" /\ FetchResponse(request) /\ UNCHANGED <<httpWrite, httpKnown, httpReported, httpService>>
    BY <1>1, <2>1 DEF CallPublic
  <2> QED BY <2>3, <2>4, FetchKeeps
<1>2. CASE CallRead(op)
  <2>1. PICK request : request = SignedHeaders(op, NoWrite)
    OBVIOUS
  <2>2. request.op = op
    BY <2>1 DEF SignedHeaders
  <2>3. request.op \notin KeyedWrites
    BY <1>2, <2>2, ReadsAreNotKeyed DEF CallRead
  <2>4. httpCall.stage = "idle" /\ FetchResponse(request) /\ UNCHANGED <<httpWrite, httpKnown, httpReported, httpService>>
    BY <1>2, <2>1 DEF CallRead
  <2> QED BY <2>3, <2>4, FetchKeeps
<1>3. CASE CallWrite
  <2>1. PICK request : request = SignedHeaders(httpWrite.op, httpWrite)
    OBVIOUS
  <2>2. request.op = httpWrite.op /\ request.key = httpWrite.key /\ request.body = httpWrite.key
        /\ request.ifMatch = httpWrite.expected
    BY <2>1 DEF SignedHeaders
  <2>3. httpCall.stage = "idle" /\ httpWrite # NoWrite /\ FetchResponse(request)
        /\ UNCHANGED <<httpWrite, httpKnown, httpReported, httpService>>
    BY <1>3, <2>1 DEF CallWrite
  <2> QED BY <2>2, <2>3, FetchKeeps
<1> QED BY <1>1, <1>2, <1>3

(* A new write: no request carries its key yet.                               *)
LEMMA PersistWriteKeeps == ASSUME HttpInv, NEW op, PersistWrite(op) PROVE HttpInv'
<1>1. PICK k \in HttpKeys : /\ httpReported[k] = "none"
                            /\ httpWrite' = [key |-> k, op |-> op,
                                             expected |-> IF op \in ConditionalWrites THEN httpKnown ELSE 0]
  BY DEF PersistWrite
<1>2. httpCall.stage = "idle" /\ httpWrite = NoWrite /\ op \in KeyedWrites
      /\ UNCHANGED <<httpCall, httpWire, httpKnown, httpReported, httpService>>
  BY DEF PersistWrite
<1>3. /\ httpWrite'.key = k /\ httpWrite'.op = op
      /\ httpWrite'.expected = IF op \in ConditionalWrites THEN httpKnown ELSE 0
  BY <1>1
<1>4. httpWrite'.expected \in Nat /\ httpWrite'.expected <= httpService.revision
  BY <1>3 DEF HttpInv, HttpTypes
<1>5. httpWrite.key = 0 /\ 0 \notin HttpKeys
  BY <1>2, NetworkClientBounds DEF NoWrite, HttpKeys
<1>6. \A r \in httpWire : r.op \in KeyedWrites => httpReported[r.key] # "none" /\ r.key # k
  BY <1>1, <1>5 DEF HttpInv, WireIsKnown
<1>7. DoneIsApplied' /\ HttpTypes'
  BY <1>2 DEF HttpInv, DoneIsApplied, HttpTypes
<1>8. WriteIsPersisted'
  BY <1>1, <1>2, <1>3, <1>4 DEF WriteIsPersisted
<1>9. WireIsKnown'
  BY <1>2, <1>3, <1>6 DEF HttpInv, WireIsKnown, Refused
<1>10. CallIsKnown'
  BY <1>2 DEF HttpInv, CallIsKnown
<1> QED BY <1>7, <1>8, <1>9, <1>10 DEF HttpInv

(* A call that is lost, a new client and a clock that is set keep the write.  *)
LEMMA CallIsLostKeeps == ASSUME HttpInv, CallFails \/ ClientRestarts \/ ClockIsSet PROVE HttpInv'
<1>1. UNCHANGED <<httpWire, httpWrite, httpKnown, httpReported, httpService>>
      /\ (httpCall' = HttpIdle \/ httpCall' = httpCall)
  BY DEF CallFails, ClientRestarts, ClockIsSet
<1>2. /\ HttpIdle.stage = "idle"
      /\ HttpIdle = [stage |-> HttpIdle.stage, request |-> HttpIdle.request, answer |-> HttpIdle.answer]
  BY DEF HttpIdle
<1>3. DoneIsApplied' /\ WriteIsPersisted' /\ WireIsKnown'
  BY <1>1 DEF HttpInv, DoneIsApplied, WriteIsPersisted, WireIsKnown, Refused
<1>4. CASE httpCall' = HttpIdle
  BY <1>1, <1>2, <1>3, <1>4 DEF HttpInv, HttpTypes, CallIsKnown
<1>5. CASE httpCall' = httpCall
  BY <1>1, <1>3, <1>5 DEF HttpInv, HttpTypes, CallIsKnown, Refused
<1> QED BY <1>1, <1>4, <1>5

(* The parser of every tagged document compares it with its ETag.             *)
LEMMA TaggedIsCompared ==
  ASSUME NEW op, NEW answer, Tagged(op), CallResult(op, answer) = "accepted"
  PROVE  answer.status = 200 /\ answer.flaw # "etag"
<1>1. "etag" \in ParserChecks(op)
  <2>1. CASE op \in ProfileWrites \cup {"profile_self"}
    <3>1. op \in {"profile_replace", "profile_self"}
      BY <2>1 DEF ProfileWrites
    <3>2. ParserChecks(op) = ProfileChecks \cup ResultChecks
      BY <3>1 DEF ParserChecks, ProfileWrites, RelayWrites, RelationshipWrites, IdentityWrites, ClientWrites
    <3> QED BY <3>2 DEF ResultChecks
  <2>2. CASE op \in RelayWrites \cup {"relay_binding_self"}
    <3>1. op \in {"relay_binding_create", "relay_binding_adopt", "relay_binding_activate",
                  "relay_binding_revoke", "relay_binding_self"}
      BY <2>2 DEF RelayWrites
    <3>2. ParserChecks(op) = RelayBindingChecks \cup ResultChecks
      BY <3>1 DEF ParserChecks, ProfileWrites, RelayWrites, RelationshipWrites, IdentityWrites, ClientWrites
    <3> QED BY <3>2 DEF ResultChecks
  <2>3. CASE op \in RelationshipWrites \cup {"relationship_get", "relationship_get_by_peer"}
    <3>1. op \in {"relationship_request", "relationship_accept", "relationship_reject",
                  "relationship_block", "relationship_revoke", "relationship_get", "relationship_get_by_peer"}
      BY <2>3 DEF RelationshipWrites
    <3>2. ParserChecks(op) = RelationshipChecks \cup ResultChecks
      BY <3>1 DEF ParserChecks, ProfileWrites, RelayWrites, RelationshipWrites, IdentityWrites, ClientWrites
    <3> QED BY <3>2 DEF ResultChecks
  <2> QED BY <2>1, <2>2, <2>3 DEF Tagged, DocumentReads, ConditionalWrites
<1>2. CallResult(op, answer) # "invalid"
  OBVIOUS
<1>3. answer.status = 200
  BY DEF CallResult, MapServerError
<1> QED BY <1>1, <1>2, <1>3 DEF CallResult

(* A call ends: a keyed one that is accepted was done, one that conflicts was *)
(* refused for good.                                                          *)
LEMMA CallEndsKeeps == ASSUME HttpInv, CallEnds PROVE HttpInv'
<1>1. PICK op, result, answer : /\ op = httpCall.request.op /\ answer = httpCall.answer
                                /\ result = CallResult(op, answer)
  OBVIOUS
<1>2. /\ httpCall.stage = "reading" /\ httpCall' = HttpIdle
      /\ httpKnown' = IF result = "accepted" /\ Tagged(op) THEN answer.revision ELSE httpKnown
      /\ UNCHANGED <<httpWire, httpService>>
  BY <1>1 DEF CallEnds
<1>3. IF op \in KeyedWrites /\ result \in {"accepted", "conflict"}
        THEN /\ httpWrite' = NoWrite
             /\ httpReported' = [httpReported EXCEPT ![httpWrite.key] =
                                   IF result = "accepted" THEN "done" ELSE "conflict"]
        ELSE UNCHANGED <<httpWrite, httpReported>>
  BY <1>1 DEF CallEnds
<1>4. httpKnown' \in Nat /\ httpKnown' <= httpService.revision
  <2>1. CASE result = "accepted" /\ Tagged(op)
    <3>1. Tagged(op) /\ CallResult(op, answer) = "accepted"
      BY <1>1, <2>1
    <3>2. answer.flaw # "etag"
      BY <3>1, TaggedIsCompared
    <3> QED BY <1>1, <1>2, <2>1, <3>2 DEF HttpInv, CallIsKnown
  <2>2. CASE ~(result = "accepted" /\ Tagged(op))
    BY <1>2, <2>2 DEF HttpInv, HttpTypes
  <2> QED BY <2>1, <2>2
<1>5. /\ HttpIdle.stage = "idle"
      /\ HttpIdle = [stage |-> HttpIdle.stage, request |-> HttpIdle.request, answer |-> HttpIdle.answer]
  BY DEF HttpIdle
<1>6. CallIsKnown'
  BY <1>2, <1>5 DEF CallIsKnown
<1>7. CASE op \in KeyedWrites /\ result \in {"accepted", "conflict"}
  <2>1. PICK key \in HttpKeys : key = httpWrite.key
    BY <1>1, <1>2, <1>7 DEF HttpInv, CallIsKnown, WriteIsPersisted
  <2>2. PICK word \in {"done", "conflict"} : word = IF result = "accepted" THEN "done" ELSE "conflict"
    OBVIOUS
  <2>3. httpWrite' = NoWrite /\ httpReported' = [httpReported EXCEPT ![key] = word]
    BY <1>3, <1>7, <2>1, <2>2
  <2>4. httpReported \in [HttpKeys -> {"none", "done", "conflict"}]
    BY DEF HttpInv, HttpTypes
  <2>5. /\ httpReported' \in [HttpKeys -> {"none", "done", "conflict"}] /\ httpReported'[key] = word
        /\ \A k \in HttpKeys : k # key => httpReported'[k] = httpReported[k]
    BY <2>3, <2>4
  <2>6. word = "done" => httpService.done[key] # 0
    <3>1. word = "done" => answer.status = 200
      BY <1>1, <2>2 DEF CallResult, MapServerError
    <3> QED BY <1>1, <1>2, <1>7, <2>1, <3>1 DEF HttpInv, CallIsKnown
  <2>7. word = "conflict" => httpService.done[key] = 0 /\ Refused(op, httpWrite.expected) /\ op = httpWrite.op
    <3>1. word = "conflict" => answer.status = 409
      BY <1>1, <1>7, <2>2 DEF CallResult, MapServerError
    <3> QED BY <1>1, <1>2, <1>7, <2>1, <3>1 DEF HttpInv, CallIsKnown
  <2>8. DoneIsApplied'
    BY <1>2, <2>5, <2>6, <2>7 DEF HttpInv, DoneIsApplied
  <2>9. WriteIsPersisted'
    BY <2>3 DEF WriteIsPersisted
  <2>10. httpWrite'.key = 0 /\ 0 \notin HttpKeys
    BY <2>3, NetworkClientBounds DEF NoWrite, HttpKeys
  <2>11. WireIsKnown'
    <3> SUFFICES ASSUME NEW r \in httpWire, r.op \in KeyedWrites
                 PROVE  /\ r.key \in HttpKeys /\ r.body = r.key
                        /\ r.ifMatch \in Nat /\ r.ifMatch <= httpService.revision
                        /\ httpReported'[r.key] # "none"
                        /\ httpReported'[r.key] = "conflict" => Refused(r.op, r.ifMatch)
      BY <1>2, <2>10 DEF WireIsKnown, Refused
    <3>1. /\ r.key \in HttpKeys /\ r.body = r.key
          /\ r.ifMatch \in Nat /\ r.ifMatch <= httpService.revision
          /\ r.key = key => r.op = httpWrite.op /\ r.ifMatch = httpWrite.expected
          /\ r.key # key => httpReported[r.key] # "none"
          /\ httpReported[r.key] = "conflict" => Refused(r.op, r.ifMatch)
      BY <2>1 DEF HttpInv, WireIsKnown
    <3>2. CASE r.key = key
      BY <2>5, <2>7, <3>1, <3>2
    <3>3. CASE r.key # key
      BY <2>5, <3>1, <3>3
    <3> QED BY <3>1, <3>2, <3>3
  <2>12. HttpTypes'
    BY <1>2, <1>4, <1>5, <2>5 DEF HttpInv, HttpTypes
  <2> QED BY <1>6, <2>8, <2>9, <2>11, <2>12 DEF HttpInv
<1>8. CASE ~(op \in KeyedWrites /\ result \in {"accepted", "conflict"})
  <2>1. UNCHANGED <<httpWrite, httpReported, httpWire, httpService>>
    BY <1>2, <1>3, <1>8
  <2>2. HttpTypes'
    BY <1>2, <1>4, <1>5, <2>1 DEF HttpInv, HttpTypes
  <2> QED BY <1>6, <2>1, <2>2 DEF HttpInv, DoneIsApplied, WriteIsPersisted, WireIsKnown, Refused
<1> QED BY <1>7, <1>8

(* Nothing was sent at first.                                                 *)
LEMMA HttpBegins == HttpInit => HttpInv
<1> SUFFICES ASSUME HttpInit PROVE HttpInv
  OBVIOUS
<1>1. /\ httpCall = HttpIdle /\ httpWire = {} /\ httpWrite = NoWrite /\ httpKnown = 0
      /\ httpReported = [k \in HttpKeys |-> "none"]
      /\ httpService = [revision |-> 0, done |-> [k \in HttpKeys |-> 0], applied |-> {}, identity |-> FALSE]
  BY DEF HttpInit
<1>2. /\ HttpIdle.stage = "idle"
      /\ HttpIdle = [stage |-> HttpIdle.stage, request |-> HttpIdle.request, answer |-> HttpIdle.answer]
  BY DEF HttpIdle
<1>3. PICK s : s = httpService
  OBVIOUS
<1>4. /\ s.revision = 0 /\ s.done = [k \in HttpKeys |-> 0] /\ s.applied = {}
      /\ s = [revision |-> s.revision, done |-> s.done, applied |-> s.applied, identity |-> s.identity]
  BY <1>1, <1>3
<1>5. s.identity \in BOOLEAN
  BY <1>1, <1>3
<1>6. HttpTypes
  BY <1>1, <1>2, <1>3, <1>4, <1>5 DEF HttpTypes
<1>7. DoneIsApplied
  BY <1>1, <1>3, <1>4 DEF DoneIsApplied
<1>8. WriteIsPersisted /\ WireIsKnown /\ CallIsKnown
  BY <1>1, <1>2 DEF WriteIsPersisted, WireIsKnown, CallIsKnown
<1> QED BY <1>6, <1>7, <1>8 DEF HttpInv

(* Every step of the caller, of the network and of the service keeps the      *)
(* invariant.                                                                 *)
LEMMA HttpStep == HttpInv /\ [HttpNext]_httpVars => HttpInv'
<1> SUFFICES ASSUME HttpInv, [HttpNext]_httpVars PROVE HttpInv'
  OBVIOUS
<1>1. CASE UNCHANGED httpVars
  BY <1>1 DEF httpVars, HttpInv, HttpTypes, DoneIsApplied, WriteIsPersisted, WireIsKnown, CallIsKnown, Refused
<1>2. CASE \E op \in HttpOperations : CallPublic(op) \/ CallRead(op) \/ PersistWrite(op)
  BY <1>2, CallsKeep, PersistWriteKeeps
<1>3. CASE CallWrite
  BY <1>3, CallsKeep
<1>4. CASE CallEnds \/ CallFails \/ ClientRestarts \/ ClockIsSet \/ AnotherWrites
  BY <1>4, CallEndsKeeps, CallIsLostKeeps, AnotherWritesKeeps
<1>5. CASE \E r \in httpWire : ServiceAnswers(r) \/ ServiceBusy(r)
  BY <1>5, ServiceAnswersKeeps, ServiceBusyKeeps
<1> QED BY <1>1, <1>2, <1>3, <1>4, <1>5 DEF HttpNext

(* What the invariant says of the reports to the caller.                     *)
LEMMA HttpAgrees == HttpInv => WriteIsReportedTruly
BY DEF HttpInv, HttpTypes, DoneIsApplied, WriteIsReportedTruly

(* The services share no state: a step of one is a step or a stutter of each *)
(* of the five that answer for what the Network holds.                       *)
LEMMA StepsKeepTheOthers ==
  [NetworkNext]_<<focus, jobVars, netVars, httpVars, pubVars, presVars, accountVars, discoveryVars,
                  registryVars, profileVars, usageVars>>
    => /\ [PubNext]_pubVars /\ [PresenceNext]_presVars /\ [AccountNext]_accountVars
       /\ [NetNext]_netVars /\ [HttpNext]_httpVars
<1> HIDE DEF jobVars, netVars, httpVars, pubVars, presVars, accountVars, discoveryVars, registryVars,
             profileVars, usageVars
<1> QED BY Zenon DEF NetworkNext, OnlyStep

(* For any environments, keys, writes, reports, accounts, restarts and       *)
(* bounds: what the runtime says of the Network is so.  A write reported     *)
(* done was applied and one reported refused never will be; the profile that *)
(* stands published is the local one; "online" carries the present mode; an  *)
(* interrupted account creation is not repeated and a ready account is the   *)
(* stored one; and the Network registers one identity for a stay in an       *)
(* environment (client.ts, profile-service.ts, presence-service.ts,          *)
(* first-launch, identity-service.ts).                                       *)
THEOREM NetworkAlwaysAgrees == NetworkSpec => []NetworkAgrees
<1>1. NetworkInit => PubInv /\ PresInv /\ AccountInv /\ IdentityInv /\ HttpInv
  BY PubBegins, PresenceBegins, AccountBegins, IdentityBegins, HttpBegins DEF NetworkInit
<1>2. PubInv /\ PresInv /\ AccountInv /\ IdentityInv /\ HttpInv
      /\ [NetworkNext]_<<focus, jobVars, netVars, httpVars, pubVars, presVars, accountVars, discoveryVars,
                         registryVars, profileVars, usageVars>>
        => (PubInv /\ PresInv /\ AccountInv /\ IdentityInv /\ HttpInv)'
  BY StepsKeepTheOthers, PubStep, PresenceStep, AccountStep, IdentityStep, HttpStep
<1>3. PubInv /\ PresInv /\ AccountInv /\ IdentityInv /\ HttpInv => NetworkAgrees
  <2> SUFFICES ASSUME PubInv, PresInv, AccountInv, IdentityInv, HttpInv PROVE NetworkAgrees
    OBVIOUS
  <2>1. PublishedProfileIsCurrent
    BY DEF PubInv
  <2>2. PresenceIsCurrent
    BY DEF PresInv, ReportStands, PresenceIsCurrent
  <2> QED BY <2>1, <2>2, AccountAgrees, IdentityAgrees, HttpAgrees DEF NetworkAgrees
<1> QED BY <1>1, <1>2, <1>3, PTL DEF NetworkSpec

-----------------------------------------------------------------------------
(* The profile migration                                                     *)

\* What is in place: a Store is whole from the rename on and grows by what the program
\* adds, an archive is whole or not there, and profile.json comes after both.
WhatIsThere ==
  /\ store # {} => ActiveStore \subseteq store /\ store \subseteq ActiveStore \union {"account", "work"}
  /\ archive # {} => archive = ArchivedFiles
  /\ metadata => store # {} /\ archive # {}

\* Where the migration is: it builds a Store only where there is none, renames a staging
\* directory only when it is complete, and is past the Store before the archive.
WhereItIs ==
  /\ step \in {"clear_store", "fill_store", "rename_store"} => store = {}
  /\ step = "fill_store" => storeStaging \subseteq ActiveStore
  /\ step = "rename_store" => storeStaging = ActiveStore
  /\ step \in {"clear_archive", "fill_archive", "rename_archive", "metadata", "scope", "ready"} => store # {}
  /\ step = "fill_archive" => archiveStaging \subseteq ArchivedFiles
  /\ step = "rename_archive" => archiveStaging = ArchivedFiles
  /\ step = "metadata" => archive # {}

MigInv == WhatIsThere /\ WhereItIs

(* Before the first start there is neither Store nor archive.                *)
LEMMA MigrationBegins == ProfileInit => MigInv
BY DEF ProfileInit, MigInv, WhatIsThere, WhereItIs

(* The names of both directories depend only on the 0.1 files, and neither   *)
(* directory is ever built empty.                                            *)
LEMMA DirectoriesAreNamed ==
  /\ ActiveStore # {} /\ ArchivedFiles # {}
  /\ legacy' = legacy => ActiveStore' = ActiveStore /\ ArchivedFiles' = ArchivedFiles
BY DEF ActiveStore, ArchivedFiles, Migrated, HasLegacyProfileData, ControlFiles

(* Every step of a start, of the program that uses the Store and of the      *)
(* script that cleans a validation profile keeps the invariant.              *)
LEMMA MigrationStep == MigInv /\ [ProfileNext]_profileVars => MigInv'
<1> SUFFICES ASSUME MigInv, [ProfileNext]_profileVars PROVE MigInv'
  OBVIOUS
<1> USE DEF MigInv, WhatIsThere, WhereItIs
<1>1. CASE UNCHANGED profileVars
  BY <1>1, DirectoriesAreNamed DEF profileVars
<1>2. CASE ProfileStarts
  BY <1>2, DirectoriesAreNamed DEF ProfileStarts
<1>3. CASE ClearStoreStaging
  BY <1>3, DirectoriesAreNamed DEF ClearStoreStaging
<1>4. CASE FillStoreStaging
  <2>1. PICK f \in ActiveStore : storeStaging' = storeStaging \union {f}
    BY <1>4 DEF FillStoreStaging
  <2>2. storeStaging' \subseteq ActiveStore
    BY <1>4, <2>1 DEF FillStoreStaging
  <2> QED BY <1>4, <2>2, DirectoriesAreNamed DEF FillStoreStaging
<1>5. CASE RenameStore
  BY <1>5, DirectoriesAreNamed DEF RenameStore
<1>6. CASE ClearArchiveStaging
  BY <1>6, DirectoriesAreNamed DEF ClearArchiveStaging
<1>7. CASE FillArchiveStaging
  <2>1. PICK f \in ArchivedFiles : archiveStaging' = archiveStaging \union {f}
    BY <1>7 DEF FillArchiveStaging
  <2>2. archiveStaging' \subseteq ArchivedFiles
    BY <1>7, <2>1 DEF FillArchiveStaging
  <2> QED BY <1>7, <2>2, DirectoriesAreNamed DEF FillArchiveStaging
<1>8. CASE RenameArchive
  BY <1>8, DirectoriesAreNamed DEF RenameArchive
<1>9. CASE WriteMetadata
  BY <1>9, DirectoriesAreNamed DEF WriteMetadata
<1>10. CASE RemoveUnscopedNetworkState
  BY <1>10, DirectoriesAreNamed DEF RemoveUnscopedNetworkState
<1>11. CASE MigrationFails
  BY <1>11, DirectoriesAreNamed DEF MigrationFails
<1>12. CASE ProcessEnds
  BY <1>12, DirectoriesAreNamed DEF ProcessEnds
<1>13. CASE UseStore
  BY <1>13, DirectoriesAreNamed DEF UseStore
<1>14. CASE CleanValidationProfile
  BY <1>14, DirectoriesAreNamed DEF CleanValidationProfile
<1> QED BY <1>1, <1>2, <1>3, <1>4, <1>5, <1>6, <1>7, <1>8, <1>9, <1>10, <1>11, <1>12, <1>13, <1>14 DEF ProfileNext

(* What a start leaves behind: the Store is replaced only where there is     *)
(* none, so the work in it stays, unless the profile itself is cleaned.      *)
LEMMA WorkStays ==
  MigInv /\ [ProfileNext]_profileVars /\ "work" \in store => "work" \in store' \/ CleanValidationProfile
<1> SUFFICES ASSUME MigInv, [ProfileNext]_profileVars, "work" \in store, ~CleanValidationProfile
             PROVE  "work" \in store'
  OBVIOUS
<1>1. ~RenameStore
  BY DEF RenameStore, MigInv, WhereItIs
<1>2. store' = store \/ UseStore
  BY <1>1 DEF ProfileNext, profileVars, ProfileStarts, ClearStoreStaging, FillStoreStaging, ClearArchiveStaging,
              FillArchiveStaging, RenameArchive, WriteMetadata, RemoveUnscopedNetworkState, MigrationFails, ProcessEnds
<1>3. CASE UseStore
  BY <1>3 DEF UseStore
<1> QED BY <1>2, <1>3

(* The services share no state: a step of one is a step or a stutter of the  *)
(* migration.                                                                *)
LEMMA StepsKeepTheProfile ==
  [NetworkNext]_<<focus, jobVars, netVars, httpVars, pubVars, presVars, accountVars, discoveryVars,
                  registryVars, profileVars, usageVars>> => [ProfileNext]_profileVars
<1> HIDE DEF jobVars, netVars, httpVars, pubVars, presVars, accountVars, discoveryVars, registryVars,
             profileVars, usageVars
<1> QED BY Zenon DEF NetworkNext, OnlyStep

(* For any 0.1 files, any number of starts and any of them that ends or      *)
(* fails between two file steps: a profile that says it is migrated has the  *)
(* whole Store and the whole archive and nothing else of 0.1, and no later   *)
(* start replaces what the program has put into the Store                    *)
(* (profile-migration.ts, migrateTetiProfileToV2).                           *)
THEOREM MigrationIsAlwaysWhole == NetworkSpec => MigrationIsWhole
<1>1. NetworkInit => MigInv
  BY MigrationBegins DEF NetworkInit
<1>2. MigInv /\ [NetworkNext]_<<focus, jobVars, netVars, httpVars, pubVars, presVars, accountVars, discoveryVars,
                                registryVars, profileVars, usageVars>>
      => MigInv' /\ [/\ metadata' => /\ ActiveStore' \subseteq store' /\ archive' = ArchivedFiles'
                                     /\ store' \subseteq ActiveStore' \union {"account", "work"}
                     /\ "work" \in store => "work" \in store' \/ CleanValidationProfile]_profileVars
  <2> SUFFICES ASSUME MigInv, [NetworkNext]_<<focus, jobVars, netVars, httpVars, pubVars, presVars, accountVars,
                                discoveryVars, registryVars, profileVars, usageVars>>
               PROVE  /\ MigInv'
                      /\ metadata' => /\ ActiveStore' \subseteq store' /\ archive' = ArchivedFiles'
                                      /\ store' \subseteq ActiveStore' \union {"account", "work"}
                      /\ "work" \in store => "work" \in store' \/ CleanValidationProfile
    OBVIOUS
  <2>1. [ProfileNext]_profileVars
    BY StepsKeepTheProfile
  <2>2. MigInv'
    BY <2>1, MigrationStep
  <2>3. metadata' => /\ ActiveStore' \subseteq store' /\ archive' = ArchivedFiles'
                     /\ store' \subseteq ActiveStore' \union {"account", "work"}
    BY <2>2 DEF MigInv, WhatIsThere
  <2> QED BY <2>1, <2>2, <2>3, WorkStays
<1> QED BY <1>1, <1>2, PTL DEF NetworkSpec, MigrationIsWhole
=============================================================================
