-------------------------- MODULE RemoteAgentProofs --------------------------
(***************************************************************************)
(* Theorems about RemoteAgent, for every value of its constants: that the  *)
(* eviction of the registry leaves at most maxEntries handles, the most    *)
(* recently used ones and the one that was just bound; the type invariant; *)
(* and that calls reach the peer and the task which their handle or        *)
(* continuation names.                                                     *)
(***************************************************************************)
EXTENDS RemoteAgent, FiniteSetTheorems, WellFoundedInduction, TLAPS

-----------------------------------------------------------------------------
(* Eviction.                                                               *)

\* The handles that are evicted after h.
After(e, h) == {g \in Present(e) : EvictedBefore(e, h, g)}

\* h was created after every handle of the registry.
Newest(e, h) == \A g \in Present(e) : g < h

Stamped(e) == \A h \in Present(e) : e[h].lastAccessedAt \in Nat

LEMMA PresentFinite ==
  \A e : /\ IsFiniteSet(Present(e)) /\ Cardinality(Present(e)) \in Nat
         /\ \A S \in SUBSET Present(e) : IsFiniteSet(S) /\ Cardinality(S) \in Nat
<1>1. IsFiniteSet(Handles)
  BY FS_Interval, RegistryAssumption DEF Handles
<1>2. \A S \in SUBSET Handles : IsFiniteSet(S) /\ Cardinality(S) \in Nat
  BY <1>1, FS_Subset, FS_CardinalityType
<1> QED BY <1>2 DEF Present

\* The order of eviction is total.
LEMMA EvictionTotal ==
  ASSUME NEW e, Stamped(e), NEW g \in Present(e), NEW h \in Present(e), g # h
  PROVE  EvictedBefore(e, g, h) \/ EvictedBefore(e, h, g)
  BY RegistryAssumption DEF Stamped, EvictedBefore, Present, Handles

\* A handle that is evicted later has fewer handles after it.
LEMMA FewerAfter ==
  ASSUME NEW e, Stamped(e), NEW g \in Present(e), NEW h \in Present(e),
         EvictedBefore(e, g, h)
  PROVE  Cardinality(After(e, h)) < Cardinality(After(e, g))
<1>1. After(e, h) \subseteq After(e, g) /\ After(e, g) \subseteq Present(e)
  BY RegistryAssumption DEF Stamped, EvictedBefore, Present, Handles, After
<1>2. h \in After(e, g) /\ h \notin After(e, h)
  BY RegistryAssumption DEF Stamped, EvictedBefore, Present, Handles, After
<1>3. /\ IsFiniteSet(After(e, g)) /\ Cardinality(After(e, g)) \in Nat
      /\ Cardinality(After(e, h)) \in Nat
  BY <1>1, PresentFinite
<1>4. /\ Cardinality(After(e, h)) <= Cardinality(After(e, g))
      /\ Cardinality(After(e, h)) # Cardinality(After(e, g))
  BY <1>1, <1>2, <1>3, FS_Subset
<1> QED BY <1>3, <1>4

\* Eviction leaves at most maxEntries handles (evictLeastRecentlyUsedEntries):
\* each of them has a different number, below maxEntries, of handles after it.
THEOREM EvictionBounds ==
  ASSUME NEW e, Stamped(e)
  PROVE  Cardinality(Present(EvictLeastRecentlyUsed(e))) <= MaxEntries
<1> DEFINE K == Present(EvictLeastRecentlyUsed(e))
           N == 0..(MaxEntries - 1)
           f == [h \in K |-> Cardinality(After(e, h))]
<1>1. K \subseteq Present(e) /\ \A h \in K : Cardinality(After(e, h)) < MaxEntries
  <2>1. \A h \in Present(e) : After(e, h) \subseteq Present(e)
    BY DEF After
  <2>2. \A h \in Present(e) : Cardinality(After(e, h)) \in Nat
    BY <2>1, PresentFinite
  <2> QED BY <2>2, RegistryAssumption DEF EvictLeastRecentlyUsed, Present, After
<1>2. f \in [K -> N]
  <2>1. \A h \in K : After(e, h) \subseteq Present(e)
    BY DEF After
  <2>2. \A h \in K : Cardinality(After(e, h)) \in Nat
    BY <2>1, PresentFinite
  <2>3. \A h \in K : Cardinality(After(e, h)) \in N
    BY <1>1, <2>2, RegistryAssumption
  <2> HIDE DEF K, N
  <2> QED BY <2>3
<1>3. \A g, h \in K : g # h => f[g] # f[h]
  <2> TAKE g, h \in K
  <2> HAVE g # h
  <2>1. EvictedBefore(e, g, h) \/ EvictedBefore(e, h, g)
    BY <1>1, EvictionTotal
  <2>2. /\ Cardinality(After(e, g)) \in Nat /\ Cardinality(After(e, h)) \in Nat
        /\ f[g] = Cardinality(After(e, g)) /\ f[h] = Cardinality(After(e, h))
    BY <1>2
  <2>3. f[h] < f[g] \/ f[g] < f[h]
    BY <1>1, <2>1, <2>2, FewerAfter
  <2> HIDE DEF f
  <2> QED BY <2>2, <2>3
<1>4. IsFiniteSet(N) /\ Cardinality(N) = MaxEntries
  BY FS_Interval, RegistryAssumption
<1>5. IsFiniteSet(K) /\ Cardinality(K) \in Nat
  BY PresentFinite
<1> HIDE DEF K, N, f
<1>6. ~(Cardinality(N) < Cardinality(K))
  BY <1>2, <1>3, <1>4, <1>5, FS_PigeonHole
<1>7. Cardinality(K) <= MaxEntries
  BY <1>4, <1>5, <1>6, RegistryAssumption
<1> QED BY <1>7 DEF K

LEMMA SmallestOf ==
  ASSUME NEW T \in SUBSET Nat, T # {}
  PROVE  \E n \in T : \A m \in T : n <= m
<1>1. \E n \in T : \A m \in T : ~ (<<m, n>> \in OpToRel(<, Nat))
  BY NatLessThanWellFounded, WFMin
<1>2. \A m, n \in T : <<m, n>> \notin OpToRel(<, Nat) => n <= m
  BY DEF OpToRel
<1> QED BY <1>1, <1>2

\* A handle is evicted only when maxEntries handles that were used at the same
\* time or later are kept.
THEOREM EvictionKeepsRecent ==
  ASSUME NEW e, Stamped(e), NEW h \in Present(e), EvictLeastRecentlyUsed(e)[h] = None
  PROVE  Cardinality({g \in Present(EvictLeastRecentlyUsed(e)) :
           EvictLeastRecentlyUsed(e)[g].lastAccessedAt >= e[h].lastAccessedAt})
             >= MaxEntries
<1> DEFINE f == EvictLeastRecentlyUsed(e)
           Gone == {g \in {h} \union After(e, h) : f[g] = None}
           T == {Cardinality(After(e, g)) : g \in Gone}
           R == {g \in Present(f) : f[g].lastAccessedAt >= e[h].lastAccessedAt}
<1>0. /\ Gone \subseteq Present(e) /\ h \in Gone
      /\ \A g \in Present(e) : After(e, g) \subseteq Present(e)
      /\ \A g \in Present(e) : Cardinality(After(e, g)) \in Nat
  <2>1. \A g \in Present(e) : After(e, g) \subseteq Present(e)
    BY DEF After
  <2>2. \A g \in Present(e) : Cardinality(After(e, g)) \in Nat
    BY <2>1, PresentFinite
  <2> QED BY <2>1, <2>2
<1>1. PICK n \in T : \A m \in T : n <= m
  <2>1. T \subseteq Nat /\ T # {}
    BY <1>0
  <2> HIDE DEF T
  <2> QED BY <2>1, SmallestOf
<1>2. PICK s \in Gone : n = Cardinality(After(e, s))
  BY <1>1
<1>3. n \in Nat /\ n >= MaxEntries
  <2>1. s \in Present(e) /\ f[s] = None
    BY <1>0, <1>2
  <2>2. Cardinality(After(e, s)) >= MaxEntries
    BY <2>1 DEF EvictLeastRecentlyUsed, After, Present
  <2> QED BY <1>0, <1>2, <2>1, <2>2
<1>4. After(e, s) \subseteq R
  <2> SUFFICES ASSUME NEW g \in After(e, s) PROVE g \in R
    OBVIOUS
  <2>1. /\ g \in Present(e) /\ s \in Present(e)
        /\ EvictedBefore(e, s, g)
        /\ s = h \/ EvictedBefore(e, h, s)
    BY <1>0 DEF After
  <2>2. EvictedBefore(e, h, g) /\ e[g].lastAccessedAt >= e[h].lastAccessedAt
    BY <2>1, RegistryAssumption DEF Stamped, EvictedBefore, Present, Handles
  <2>3. f[g] # None
    <3>1. SUFFICES ASSUME f[g] = None PROVE FALSE
      OBVIOUS
    <3>2. g \in Gone
      BY <2>1, <2>2, <3>1 DEF After
    <3>3. n <= Cardinality(After(e, g))
      BY <1>1, <3>2
    <3>4. Cardinality(After(e, g)) < n
      BY <1>2, <2>1, FewerAfter
    <3> QED BY <1>0, <1>3, <2>1, <3>3, <3>4
  <2>4. g \in Present(f) /\ f[g] = e[g]
    BY <2>1, <2>3 DEF EvictLeastRecentlyUsed, Present
  <2> QED BY <2>2, <2>4
<1>5. IsFiniteSet(R) /\ Cardinality(R) \in Nat
  BY PresentFinite
<1>6. n <= Cardinality(R)
  BY <1>2, <1>4, <1>5, FS_Subset
<1> HIDE DEF R
<1>7. Cardinality(R) >= MaxEntries
  BY <1>3, <1>5, <1>6, RegistryAssumption
<1> QED BY <1>7 DEF R, f

\* The handle that is bound now is not evicted by its own binding.
THEOREM BoundHandleStays ==
  ASSUME NEW e, NEW h \in Handles, NEW now \in Nat, NEW target, NEW taskId,
         NEW contextId,
         Cardinality(Present(e)) <= MaxEntries,
         \A g \in Present(e) : /\ e[g].lastAccessedAt \in Nat
                               /\ e[g].lastAccessedAt <= now,
         h \in Present(e) \/ Newest(e, h)
  PROVE  EvictLeastRecentlyUsed([PruneExpired(e, now) EXCEPT ![h] =
           Entry(target, taskId, contextId, now)])[h] = Entry(target, taskId, contextId, now)
<1> DEFINE f == [PruneExpired(e, now) EXCEPT ![h] = Entry(target, taskId, contextId, now)]
<1>1. /\ f[h] = Entry(target, taskId, contextId, now) /\ f[h].lastAccessedAt = now
      /\ \A g \in Handles \ {h} : f[g] \in {e[g], None}
  BY DEF PruneExpired, Entry
<1>2. After(f, h) \subseteq {g \in Present(e) \ {h} : h < g}
  BY <1>1, RegistryAssumption DEF After, EvictedBefore, Present, Handles
<1> HIDE DEF f
<1>3. Cardinality(After(f, h)) < MaxEntries
  <2>1. IsFiniteSet(Present(e)) /\ Cardinality(Present(e)) \in Nat
    BY PresentFinite
  <2>2. CASE h \in Present(e)
    <3>1. /\ IsFiniteSet(Present(e) \ {h})
          /\ Cardinality(Present(e) \ {h}) = Cardinality(Present(e)) - 1
      BY <2>1, <2>2, FS_RemoveElement
    <3>2. After(f, h) \subseteq Present(e) \ {h}
      BY <1>2
    <3>3. /\ Cardinality(After(f, h)) <= Cardinality(Present(e) \ {h})
          /\ Cardinality(After(f, h)) \in Nat
      BY <3>1, <3>2, FS_Subset, FS_CardinalityType
    <3> QED BY <2>1, <3>1, <3>3, RegistryAssumption
  <2>3. CASE Newest(e, h)
    <3>1. \A g \in Present(e) : ~(h < g)
      BY <2>3, RegistryAssumption DEF Newest, Present, Handles
    <3>2. After(f, h) = {}
      BY <1>2, <3>1
    <3> QED BY <3>2, FS_EmptySet, RegistryAssumption
  <2> QED BY <2>2, <2>3
<1>4. Cardinality(After(f, h)) \in Nat
  BY PresentFinite DEF After
<1>5. EvictLeastRecentlyUsed(f)[h] = f[h]
  <2>1. ~(Cardinality(After(f, h)) >= MaxEntries)
    BY <1>3, <1>4, RegistryAssumption
  <2> QED BY <2>1 DEF EvictLeastRecentlyUsed, After
<1> QED BY <1>1, <1>5 DEF f

-----------------------------------------------------------------------------
(* The registry.                                                           *)

Registry == [Handles -> Records \union {None}]

\* f names under h what e does, or nothing.
Keeps(e, f, h) ==
  f[h] # None =>
    /\ e[h] # None /\ f[h].target = e[h].target /\ f[h].taskId = e[h].taskId
    /\ f[h].contextId = e[h].contextId

LEMMA HandlesAreNumbers == \A h \in Handles : h \in Nat \ {0} /\ h # None
  BY RegistryAssumption DEF Handles

\* The context a refreshed handle of e has.
Known(e, h, contextId) == IF contextId = None THEN e[h].contextId ELSE contextId

LEMMA EntryType ==
  ASSUME NEW target \in Targets, NEW taskId \in Tasks, NEW contextId \in Contexts \union {None},
         NEW now \in Nat
  PROVE  Entry(target, taskId, contextId, now) \in Records
  BY RegistryAssumption DEF Entry, Records

LEMMA EvictType ==
  ASSUME NEW e \in Registry
  PROVE  /\ EvictLeastRecentlyUsed(e) \in Registry
         /\ \A h \in Handles : EvictLeastRecentlyUsed(e)[h] \in {e[h], None}
  BY DEF EvictLeastRecentlyUsed, Registry

LEMMA PruneType ==
  ASSUME NEW e \in Registry, NEW now
  PROVE  /\ PruneExpired(e, now) \in Registry
         /\ \A h \in Handles : PruneExpired(e, now)[h] \in {e[h], None}
  BY DEF PruneExpired, Registry

\* A created handle names what it was created for; the others keep what they
\* name or are dropped.
LEMMA CreateType ==
  ASSUME NEW e \in Registry, NEW h \in Handles, NEW target \in Targets,
         NEW taskId \in Tasks, NEW contextId \in Contexts \union {None}, NEW now \in Nat
  PROVE  /\ Create(e, h, target, taskId, contextId, now) \in Registry
         /\ \A g \in Handles \ {h} :
              Create(e, h, target, taskId, contextId, now)[g] \in {e[g], None}
         /\ Create(e, h, target, taskId, contextId, now)[h]
              \in {Entry(target, taskId, contextId, now), None}
<1> DEFINE f == [PruneExpired(e, now) EXCEPT ![h] = Entry(target, taskId, contextId, now)]
<1>1. f \in Registry /\ f[h] = Entry(target, taskId, contextId, now)
      /\ \A g \in Handles \ {h} : f[g] \in {e[g], None}
  BY PruneType, EntryType DEF Registry
<1> QED BY <1>1, EvictType DEF Create

LEMMA ResolveType ==
  ASSUME NEW e \in Registry, NEW h, NEW now \in Nat
  PROVE  /\ Resolve(e, h, now) \in Registry
         /\ \A g \in Handles : Keeps(e, Resolve(e, h, now), g)
<1>1. CASE ~Live(e, h, now)
  BY <1>1, PruneType DEF Resolve, Keeps
<1>2. CASE Live(e, h, now)
  <2>1. h \in Handles /\ e[h] \in Records
    BY <1>2 DEF Live, Present, Registry
  <2>2. [e[h] EXCEPT !.lastAccessedAt = now] \in Records
    BY <2>1 DEF Records
  <2> QED BY <1>2, <2>1, <2>2, PruneType DEF Resolve, Keeps, Registry, Records, Live, Present
<1> QED BY <1>1, <1>2

LEMMA RefreshType ==
  ASSUME NEW e \in Registry, NEW h \in Handles, NEW target \in Targets,
         NEW taskId \in Tasks, NEW contextId \in Contexts \union {None}, NEW now \in Nat
  PROVE  LET f == Refresh(e, h, target, taskId, contextId, now)
         IN  /\ f \in Registry
             /\ \A g \in Handles \ {h} : f[g] \in {e[g], None}
             /\ Live(e, h, now) =>
                  f[h] \in {Entry(target, taskId, Known(e, h, contextId), now), None}
             /\ ~Live(e, h, now) => f[h] = None
             /\ e[h] = None => f[h] = None
<1> DEFINE known == Known(e, h, contextId)
           f == [PruneExpired(e, now) EXCEPT ![h] = Entry(target, taskId, known, now)]
<1>1. ASSUME Live(e, h, now)
      PROVE  /\ f \in Registry /\ f[h] = Entry(target, taskId, known, now)
             /\ \A g \in Handles \ {h} : f[g] \in {e[g], None}
             /\ Refresh(e, h, target, taskId, contextId, now) = EvictLeastRecentlyUsed(f)
  <2>1. e[h] \in Records
    BY <1>1 DEF Live, Present, Registry
  <2>2. known \in Contexts \union {None}
    BY <2>1 DEF Known, Records
  <2> HIDE DEF known
  <2>3. Entry(target, taskId, known, now) \in Records
    BY <2>2, EntryType
  <2>4. Refresh(e, h, target, taskId, contextId, now) = EvictLeastRecentlyUsed(f)
    BY <1>1 DEF Refresh, known, Known
  <2> QED BY <2>3, <2>4, PruneType DEF Registry
<1>2. ~Live(e, h, now) => PruneExpired(e, now)[h] = None
  BY DEF Live, PruneExpired, Expired, Present
<1>3. e[h] = None => ~Live(e, h, now)
  BY DEF Live, Present
<1>4. CASE Live(e, h, now)
  <2> HIDE DEF f
  <2> QED BY <1>1, <1>3, <1>4, EvictType
<1>5. CASE ~Live(e, h, now)
  BY <1>2, <1>5, PruneType DEF Refresh
<1> QED BY <1>4, <1>5

-----------------------------------------------------------------------------
(* The input of a call and what it resolves to.                            *)

InputOk(i) ==
  /\ i.action \in AllActions
  /\ i.continuation \in Continuations \union {None}
  /\ i.task_handle \in Handles \union {None}
  /\ i.task_id \in Tasks \union {None}
  /\ i.context_id \in Contexts \union {None}
  /\ i.target_alias \in Configured \union {None}
  /\ i.target_url \in Bases \union {None}

\* What the agent makes of a continuation: with it only the action is given.
Passed(i, g) ==
  /\ i.action # "list_targets"
  /\ i.continuation = g
  /\ i.task_handle = None /\ i.task_id = None /\ i.context_id = None
  /\ i.target_alias = None /\ i.target_url = None

\* An input by hand, and with a target.
Flat(i) == InputOk(i) /\ i.continuation = None

LEMMA NewRequestsOk ==
  ASSUME NEW c \in Calls, NEW i \in NewRequests(c)
  PROVE  Flat(i)
<1>0. ActionsOf[c] \subseteq AllActions
  BY RemoteAgentAssumption
<1> QED BY <1>0 DEF Flat, InputOk, NoInput, NewRequests

LEMMA ByHandOk ==
  ASSUME NEW c \in Calls, NEW g \in Continuations, NEW i \in ByHand(c, g)
  PROVE  Flat(i)
<1> DEFINE allowed == ActionsOf[c] \ {"list_targets"}
           flat == {Input(a, "task_handle", g.handle) : a \in allowed}
                     \union {Input(a, "task_id", g.taskId) : a \in allowed}
<1>0. /\ allowed \subseteq AllActions
      /\ g.handle \in Handles \union {None} /\ g.taskId \in Tasks \union {None}
      /\ g.contextId \in Contexts \union {None}
  BY RemoteAgentAssumption DEF Continuations
<1>1. \A j \in flat : Flat(j) /\ Flat([j EXCEPT !.context_id = g.contextId])
  BY <1>0, ZenonT(30) DEF Flat, InputOk, NoInput, Input
<1>2. CASE i \in flat
  BY <1>1, <1>2
<1>3. CASE \E j \in flat : i = [j EXCEPT !.context_id = g.contextId]
  BY <1>1, <1>3
<1> QED BY <1>2, <1>3 DEF ByHand

LEMMA ContinuedOk ==
  ASSUME NEW c \in Calls, NEW g \in Continuations, NEW i \in Continued(c, g)
  PROVE  InputOk(i) /\ Passed(i, g)
<1>1. PICK a \in ActionsOf[c] \ {"list_targets"} : i = Input(a, "continuation", g)
  BY DEF Continued
<1>2. a \in AllActions
  BY RemoteAgentAssumption
<1>3. /\ i.action = a /\ i.continuation = g
      /\ i.task_handle = None /\ i.task_id = None /\ i.context_id = None
      /\ i.target_alias = None /\ i.target_url = None
  BY <1>1 DEF Input, NoInput
<1> QED BY <1>1, <1>2, <1>3 DEF InputOk, Passed

LEMMA InputsOk ==
  ASSUME given \subseteq Continuations, NEW c \in Calls, NEW i \in Inputs(c)
  PROVE  /\ InputOk(i)
         /\ i.continuation # None => \E g \in given : Passed(i, g)
<1> DEFINE flat == NewRequests(c) \union UNION {ByHand(c, g) : g \in given}
<1>1. \A j \in flat : Flat(j)
  BY NewRequestsOk, ByHandOk
<1>2. ASSUME NEW j, Flat(j)
      PROVE  /\ \A t \in Configured : Flat([j EXCEPT !.target_alias = t])
             /\ \A b \in Bases : Flat([j EXCEPT !.target_url = b])
  BY <1>2 DEF Flat, InputOk
<1>3. CASE i \in flat
  BY <1>1, <1>3 DEF Flat
<1>4. CASE \E j \in flat, t \in Configured : i = [j EXCEPT !.target_alias = t]
  BY <1>1, <1>2, <1>4 DEF Flat
<1>5. CASE \E j \in flat, b \in Bases : i = [j EXCEPT !.target_url = b]
  BY <1>1, <1>2, <1>5 DEF Flat
<1>6. CASE \E g \in given : i \in Continued(c, g)
  BY <1>6, ContinuedOk
<1> QED BY <1>3, <1>4, <1>5, <1>6 DEF Inputs

LEMMA DefaultCardPathOk ==
  \A b \in Bases : [base |-> b, cardPath |-> DefaultCardPath] \in Targets
<1> TAKE b \in Bases
<1>1. PICK t \in Targets : t.base = b
  BY DEF Bases
<1>2. t \in [base : {s.base : s \in Targets}, cardPath : STRING]
  BY <1>1, RemoteAgentAssumption
<1>3. [t EXCEPT !.cardPath = DefaultCardPath] = [base |-> b, cardPath |-> DefaultCardPath]
  BY <1>1, <1>2
<1> QED BY <1>1, <1>3, RemoteAgentAssumption

\* A resolution that succeeds has a target; its handle is live and names the
\* target and the task.
Resolved(to) ==
  /\ to \in [error : Errors \union {None}, target : Targets \union {None},
             taskId : Tasks \union {None}, contextId : Contexts \union {None},
             handle : Handles \union {None}]
  /\ to.error = None => to.target \in Targets
  /\ to.handle # None =>
       /\ Live(entries, to.handle, clock)
       /\ to.target = entries[to.handle].target
       /\ to.taskId = entries[to.handle].taskId
  /\ to.error # None => to.handle = None

LEMMA RefusedResolved ==
  \A error \in Errors : Resolved(Refused(error)) /\ Refused(error).error = error
  BY RemoteAgentAssumption DEF Resolved, Refused, To

LEMMA LiveEntry ==
  ASSUME entries \in Registry, NEW h, Live(entries, h, clock)
  PROVE  h \in Handles /\ entries[h] \in Records
  BY DEF Live, Present, Registry

LEMMA RouteTargetResolved ==
  ASSUME NEW i, InputOk(i),
         i.target_alias # None \/ i.target_url # None \/ DefaultTarget # None
  PROVE  /\ Resolved(RouteTarget(i))
         /\ RouteTarget(i).handle = None /\ RouteTarget(i).taskId = None
<1> USE DEF InputOk
<1>0. \A t \in Targets : /\ Resolved(To(t, None, None, None))
                         /\ To(t, None, None, None).handle = None
                         /\ To(t, None, None, None).taskId = None
  BY RemoteAgentAssumption DEF Resolved, To, Errors
<1>1. CASE i.target_alias # None
  BY <1>0, <1>1, RemoteAgentAssumption DEF RouteTarget
<1>2. CASE i.target_alias = None /\ i.target_url # None
  <2>1. /\ Resolved(Refused("TARGET_RESOLUTION_ERROR"))
        /\ Refused("TARGET_RESOLUTION_ERROR").handle = None
        /\ Refused("TARGET_RESOLUTION_ERROR").taskId = None
    BY RefusedResolved DEF Errors, Refused, To
  <2> QED BY <1>0, <1>2, <2>1, DefaultCardPathOk DEF RouteTarget, RawTarget
<1>3. CASE i.target_alias = None /\ i.target_url = None
  BY <1>0, <1>3, RemoteAgentAssumption DEF RouteTarget
<1> QED BY <1>1, <1>2, <1>3

\* A live handle names another task, another peer or another conversation than k.
Disagrees(k) ==
  LET entry == entries[k.handle]
  IN  \/ k.taskId # entry.taskId \/ k.target # entry.target
      \/ Differ(k.contextId, entry.contextId)

\* What is resolved follows k.
Follows(to, k) ==
  /\ to.target = k.target /\ to.taskId = k.taskId
  /\ to.contextId = k.contextId \/ k.contextId = None

LEMMA RouteContinuationResolved ==
  ASSUME entries \in Registry, NEW k \in Continuations
  PROVE  /\ Resolved(RouteContinuation(k))
         /\ RouteContinuation(k).error = None => Follows(RouteContinuation(k), k)
         /\ RouteContinuation(k).error # None =>
              /\ RouteContinuation(k).error = "VALIDATION_ERROR"
              /\ k.handle # None /\ Live(entries, k.handle, clock) /\ Disagrees(k)
<1> DEFINE entry == entries[k.handle]
           contextId == Given(k.contextId, entry.contextId)
<1>0. /\ k.target \in Targets /\ k.taskId \in Tasks \union {None}
      /\ k.contextId \in Contexts \union {None} /\ k.handle \in Handles \union {None}
      /\ "VALIDATION_ERROR" \in Errors /\ None \notin Errors
  BY RemoteAgentAssumption DEF Continuations, Errors
<1>1. CASE k.handle # None /\ Live(entries, k.handle, clock)
  <2>1. CASE Disagrees(k)
    <3>1. RouteContinuation(k) = Refused("VALIDATION_ERROR")
      BY <1>1, <2>1 DEF RouteContinuation, Disagrees
    <3> QED BY <1>0, <1>1, <2>1, <3>1, RefusedResolved
  <2>2. CASE ~Disagrees(k)
    <3>1. RouteContinuation(k) = To(k.target, k.taskId, contextId, k.handle)
      BY <1>1, <2>2 DEF RouteContinuation, Disagrees
    <3>2. entry \in Records
      BY <1>1, LiveEntry
    <3>3. /\ contextId \in Contexts \union {None}
          /\ contextId = k.contextId \/ k.contextId = None
      BY <1>0, <3>2 DEF Given, Records
    <3>4. k.target = entry.target /\ k.taskId = entry.taskId
      BY <2>2 DEF Disagrees
    <3> HIDE DEF contextId
    <3> QED BY <1>0, <1>1, <3>1, <3>3, <3>4, RemoteAgentAssumption DEF Resolved, To, Follows
  <2> QED BY <2>1, <2>2
<1>2. CASE ~(k.handle # None /\ Live(entries, k.handle, clock))
  <2>1. RouteContinuation(k) = To(k.target, k.taskId, k.contextId, None)
    BY <1>2 DEF RouteContinuation, RouteUnbound
  <2> QED BY <1>0, <2>1, RemoteAgentAssumption DEF Resolved, To, Follows
<1> QED BY <1>1, <1>2

LEMMA RouteHandleResolved ==
  ASSUME entries \in Registry, NEW i, InputOk(i)
  PROVE  Resolved(RouteHandle(i))
<1> DEFINE h == i.task_handle
           named == i.target_alias # None \/ i.target_url # None
<1>0. /\ LookupError(entries, h, clock) \in Errors
      /\ "VALIDATION_ERROR" \in Errors
  BY DEF LookupError, Errors
<1>1. CASE ~Live(entries, h, clock)
  BY <1>0, <1>1, RefusedResolved DEF RouteHandle
<1>2. CASE Live(entries, h, clock)
  <2>1. h \in Handles /\ entries[h] \in Records
    BY <1>2, LiveEntry
  <2>2. Resolved(To(entries[h].target, entries[h].taskId,
                    Given(i.context_id, entries[h].contextId), h))
    <3>1. Given(i.context_id, entries[h].contextId) \in Contexts \union {None}
      BY <2>1 DEF Given, Records, InputOk
    <3> QED BY <1>2, <2>1, <3>1, RemoteAgentAssumption DEF Resolved, To, Records, Errors
  <2>3. named => Resolved(RouteTarget(i))
    BY RouteTargetResolved
  <2>4. Resolved(Refused("VALIDATION_ERROR"))
    BY <1>0, RefusedResolved
  <2> QED BY <1>2, <2>2, <2>3, <2>4 DEF RouteHandle
<1> QED BY <1>1, <1>2

LEMMA RouteResolved ==
  ASSUME entries \in Registry, NEW i, InputOk(i), i.action # "list_targets" \/ ~Valid(i)
  PROVE  /\ Resolved(Route(i))
         /\ Route(i).error = None => Valid(i)
         /\ Route(i).error = None /\ i.continuation # None => Follows(Route(i), i.continuation)
<1>0. Resolved(Refused("VALIDATION_ERROR")) /\ Refused("VALIDATION_ERROR").error # None
  BY RefusedResolved, RemoteAgentAssumption DEF Errors
<1>1. CASE ~Valid(i)
  BY <1>0, <1>1 DEF Route
<1>2. CASE Valid(i) /\ i.continuation # None
  <2>1. Route(i) = RouteContinuation(i.continuation)
    BY <1>2 DEF Route
  <2> QED BY <1>2, <2>1, RouteContinuationResolved DEF InputOk
<1>3. CASE Valid(i) /\ i.continuation = None /\ i.task_handle # None
  <2>1. Route(i) = RouteHandle(i)
    BY <1>3 DEF Route
  <2> QED BY <1>3, <2>1, RouteHandleResolved
<1>4. CASE Valid(i) /\ i.continuation = None /\ i.task_handle = None
  <2>1. Route(i) = [RouteTarget(i) EXCEPT !.taskId = i.task_id, !.contextId = i.context_id]
    BY <1>4 DEF Route
  <2>2. i.target_alias # None \/ i.target_url # None \/ DefaultTarget # None
    BY <1>4 DEF Valid
  <2>3. Resolved(RouteTarget(i)) /\ RouteTarget(i).handle = None
    BY <2>2, RouteTargetResolved
  <2> QED BY <1>4, <2>1, <2>3 DEF Resolved, InputOk
<1> QED BY <1>1, <1>2, <1>3, <1>4

-----------------------------------------------------------------------------
(* The inductive invariant.                                                *)

\* A handle in the registry was bound to the task and to the conversation it
\* names, and what was given names the peer its handle names.
Bindings == [handle : Handles, taskId : Tasks, contextId : Contexts \union {None}]

BoundTo(h) ==
  /\ \E b \in bindings : b.handle = h /\ b.taskId = entries[h].taskId
  /\ entries[h].contextId # None =>
       \E b \in bindings : b.handle = h /\ b.contextId = entries[h].contextId

\* A continuation names a task or a conversation.
GivenOk(g) ==
  /\ g.taskId # None \/ g.contextId # None
  /\ g.handle # None =>
       /\ g.handle \in 1..created
       /\ entries[g.handle] # None => entries[g.handle].target = g.target

RegistryOk ==
  /\ entries \in Registry
  /\ created \in 0..MaxHandles
  /\ \A h \in Handles : h > created => entries[h] = None
  /\ given \subseteq Continuations
  /\ bindings \subseteq Bindings
  /\ \A h \in Handles : entries[h] # None => BoundTo(h)
  /\ \A g \in given : GivenOk(g)

\* The conjunct of ContinuationsHonoured about c.
Honoured(c) ==
  LET k == call[c].continuation
  IN  /\ call[c].pc = "failed" /\ k # None /\ ~call[c].sent
      /\ k.taskId # None \/ call[c].action \in Sending
      => \/ call[c].error \in {"A2A_SDK_ERROR", "STREAMING_NOT_SUPPORTED"}
         \/ /\ call[c].error = "VALIDATION_ERROR"
            /\ \E b \in bindings :
                 /\ b.handle = k.handle
                 /\ b.taskId # k.taskId \/ Differ(b.contextId, k.contextId)

\* The locals of a call: the peer to ask is known, it is the one of the
\* continuation and the one the handle names, as long as it names one.
CallOk(c) ==
  /\ call[c] \in CallRecords
  /\ call[c].pc \in {"connecting", "requesting", "streaming"} => call[c].target \in Targets
  /\ call[c].pc \in {"requesting", "streaming"} => call[c].sent
  /\ call[c].pc = "connecting" /\ call[c].continuation # None =>
       Follows(call[c], call[c].continuation)
  /\ call[c].handle # None =>
       /\ call[c].handle \in 1..created
       /\ entries[call[c].handle] # None =>
            entries[call[c].handle].target = call[c].target
  /\ Honoured(c)

OthersOk ==
  /\ clock \in Nat /\ restarts \in Nat /\ clock + restarts <= MaxUpsets
  /\ cards \in [Bases -> CardRecords \union {None}]
  /\ refreshes \in [Bases -> BOOLEAN]

IInv ==
  /\ RegistryOk /\ OthersOk
  /\ call \in [Calls -> CallRecords]
  /\ \A c \in Calls : CallOk(c)

LEMMA IInvImplies == IInv => TypeOK /\ ContinuationsHonoured
<1>1. IInv => TypeOK
  BY DEF IInv, RegistryOk, OthersOk, Registry, Bindings, TypeOK
<1>2. IInv => ContinuationsHonoured
  BY DEF IInv, CallOk, Honoured, ContinuationsHonoured
<1> QED BY <1>1, <1>2

LEMMA BoundsAreNatural ==
  MaxUpsets \in Nat /\ MaxEvents \in Nat /\ None \notin Errors
  BY RemoteAgentAssumption

LEMMA IdleOk == Idle \in CallRecords
  BY BoundsAreNatural DEF Idle, CallRecords, Pcs

LEMMA InitOk == Init => IInv
<1> SUFFICES ASSUME Init PROVE IInv
  OBVIOUS
<1> USE RegistryAssumption DEF Init
<1>1. RegistryOk
  BY DEF RegistryOk, NoEntries, Registry, Handles
<1>2. OthersOk
  <2>1. clock \in Nat /\ restarts \in Nat /\ clock + restarts <= MaxUpsets
    BY BoundsAreNatural
  <2> QED BY <2>1 DEF OthersOk
<1>4. \A c \in Calls : CallOk(c)
  BY IdleOk DEF CallOk, Honoured, Idle
<1> QED BY <1>1, <1>2, <1>4, IdleOk DEF IInv

-----------------------------------------------------------------------------
(* What a step may do.                                                     *)

\* Nothing that was given or created goes away, and no handle moves to
\* another peer.
Evolves ==
  /\ created' \in created..MaxHandles
  /\ bindings \subseteq bindings'
  /\ \A h \in 1..created : entries'[h] # None =>
       entries[h] # None /\ entries'[h].target = entries[h].target

\* The conjunct of RoutedAsContinued about c.
Forward(c) ==
  ~call[c].sent /\ call'[c].sent /\ call[c].continuation # None =>
    Follows(call'[c], call[c].continuation)

CallsStep ==
  /\ call' \in [Calls -> CallRecords]
  /\ \A d \in Calls : call'[d] = call[d] \/ (CallOk(d)' /\ Forward(d))

StepOk == RegistryOk' /\ OthersOk' /\ Evolves /\ CallsStep

LEMMA CreatedHandles ==
  ASSUME created \in 0..MaxHandles
  PROVE  1..created \subseteq Handles
  BY RegistryAssumption DEF Handles

LEMMA StepKeepsInvariant ==
  ASSUME IInv, StepOk
  PROVE  IInv'
<1>1. ASSUME NEW d \in Calls, call'[d] = call[d]
      PROVE  CallOk(d)'
  <2> USE <1>1 DEF StepOk, Evolves, IInv
  <2>1. call[d] \in CallRecords
    OBVIOUS
  <2>2. CallOk(d) /\ Honoured(d)
    BY DEF CallOk
  <2>3. Honoured(d)'
    BY <2>2 DEF Honoured
  <2>4. call[d].handle # None =>
          /\ call[d].handle \in 1..created'
          /\ entries'[call[d].handle] # None =>
               entries'[call[d].handle].target = call[d].target
    BY <2>2 DEF CallOk, RegistryOk
  <2> QED BY <2>1, <2>2, <2>3, <2>4 DEF CallOk
<1> QED BY <1>1 DEF StepOk, CallsStep, IInv

LEMMA StepIsRouted ==
  ASSUME IInv, StepOk
  PROVE  /\ \A c \in Calls : Forward(c)
         /\ \A h \in Handles : entries[h] # None /\ entries'[h] # None =>
              entries'[h].target = entries[h].target
<1>1. ASSUME NEW c \in Calls PROVE Forward(c)
  BY DEF StepOk, CallsStep, Forward
<1>2. \A h \in Handles : entries[h] # None => h \in 1..created
  BY RegistryAssumption DEF IInv, RegistryOk, Handles
<1> QED BY <1>1, <1>2 DEF StepOk, Evolves

\* A step that leaves the registry as it is.
LEMMA RegistryUnchanged ==
  ASSUME IInv, UNCHANGED <<registry, given>>
  PROVE  RegistryOk' /\ Evolves
<1>1. entries' = entries /\ created' = created /\ bindings' = bindings /\ given' = given
  BY DEF registry
<1>2. RegistryOk
  BY DEF IInv
<1>3. \A h \in Handles : entries'[h] # None => BoundTo(h)'
  BY <1>1, <1>2 DEF RegistryOk, BoundTo
<1>4. \A g \in given' : GivenOk(g)'
  BY <1>1, <1>2 DEF RegistryOk, GivenOk
<1> QED BY <1>1, <1>2, <1>3, <1>4 DEF RegistryOk, Evolves

\* A step that changes one call.
LEMMA OneCall ==
  ASSUME call \in [Calls -> CallRecords], NEW c \in Calls, NEW r \in CallRecords,
         call' = [call EXCEPT ![c] = r], CallOk(c)', Forward(c)
  PROVE  CallsStep
  BY DEF CallsStep

\* A call that fails, after the peer was asked or because of it, is no refusal.
LEMMA FailedOk ==
  ASSUME NEW i, i.continuation \in Continuations \union {None}, i.action \in AllActions \union {"none"},
         NEW sent \in BOOLEAN, NEW error \in Errors
  PROVE  LET r == Failed(i, sent, error)
         IN  /\ r \in CallRecords /\ r.pc = "failed" /\ r.error = error /\ r.sent = sent
             /\ r.handle = None /\ r.continuation = i.continuation
             /\ r.continuation # None => r.action = i.action
<1> DEFINE a == IF i.continuation = None THEN "none" ELSE i.action
<1>1. a \in AllActions \union {"none"} /\ (i.continuation # None => a = i.action)
  OBVIOUS
<1>2. Failed(i, sent, error) =
        [Idle EXCEPT !.pc = "failed", !.error = error, !.sent = sent,
                     !.continuation = i.continuation, !.action = a]
  BY DEF Failed
<1> HIDE DEF a
<1> DEFINE r == [Idle EXCEPT !.pc = "failed", !.error = error, !.sent = sent,
                             !.continuation = i.continuation, !.action = a]
<1>3. /\ r \in CallRecords /\ r.pc = "failed" /\ r.error = error /\ r.sent = sent
      /\ r.handle = None /\ r.continuation = i.continuation /\ r.action = a
  BY <1>1, IdleOk DEF Idle, CallRecords, Pcs, Ended
<1> QED BY <1>1, <1>2, <1>3

LEMMA FailsStep ==
  ASSUME IInv, NEW c \in Calls, NEW error \in Errors, call' = Fails(c, error),
         call[c].sent \/ error \in {"A2A_SDK_ERROR", "STREAMING_NOT_SUPPORTED"}
  PROVE  CallsStep
<1> DEFINE r == Failed(call[c], call[c].sent, error)
<1>1. /\ r \in CallRecords /\ r.pc = "failed" /\ r.error = error /\ r.sent = call[c].sent
      /\ r.handle = None
  <2>1. call[c] \in CallRecords
    BY DEF IInv
  <2>2. /\ call[c].continuation \in Continuations \union {None} /\ call[c].sent \in BOOLEAN
        /\ call[c].action \in AllActions \union {"none"}
    BY <2>1 DEF CallRecords
  <2> QED BY <2>2, FailedOk
<1>2. call' = [call EXCEPT ![c] = r] /\ call'[c] = r
  BY DEF Fails, IInv
<1> HIDE DEF r
<1>3. CallOk(c)' /\ Forward(c)
  BY <1>1, <1>2 DEF CallOk, Honoured, Forward
<1> QED BY <1>1, <1>2, <1>3, OneCall DEF IInv

\* A call that is answered with a handle of the peer it asked.
LEMMA FinishesStep ==
  ASSUME IInv, NEW c \in Calls, call[c].sent, NEW taskId \in Tasks \union {None},
         NEW contextId \in Contexts \union {None}, NEW handle \in Handles \union {None},
         call' = Finishes(c, taskId, contextId, handle),
         handle # None =>
           /\ handle \in 1..created'
           /\ entries'[handle] # None => entries'[handle].target = call[c].target
  PROVE  CallsStep
<1> DEFINE r == [Idle EXCEPT !.pc = "answered", !.target = call[c].target,
                             !.taskId = taskId, !.contextId = contextId,
                             !.handle = handle, !.sent = TRUE]
<1>1. call[c].target \in Targets \union {None}
  BY DEF IInv, CallRecords
<1>2. /\ r \in CallRecords /\ r.pc = "answered" /\ r.handle = handle
      /\ r.target = call[c].target
  BY <1>1, IdleOk DEF Idle, CallRecords, Pcs, Ended
<1>3. call' = [call EXCEPT ![c] = r] /\ call'[c] = r
  BY DEF Finishes, IInv
<1> HIDE DEF r
<1>4. CallOk(c)' /\ Forward(c)
  BY <1>2, <1>3 DEF CallOk, Honoured, Forward
<1> QED BY <1>2, <1>3, <1>4, OneCall DEF IInv

\* The list of targets is answered.
LEMMA EndsStep ==
  ASSUME IInv, Evolves, NEW c \in Calls, call' = Goes(c, "answered")
  PROVE  CallsStep
<1> DEFINE r == [call[c] EXCEPT !.pc = "answered"]
<1>1. call[c] \in CallRecords /\ CallOk(c)
  BY DEF IInv
<1>2. /\ r \in CallRecords /\ r.pc = "answered" /\ r.sent = call[c].sent
      /\ r.handle = call[c].handle /\ r.target = call[c].target
  BY <1>1 DEF CallRecords, Pcs, Ended
<1>3. call' = [call EXCEPT ![c] = r] /\ call'[c] = r
  BY DEF Goes, IInv
<1>4. r.handle # None =>
        /\ r.handle \in 1..created'
        /\ entries'[r.handle] # None => entries'[r.handle].target = r.target
  BY <1>1, <1>2 DEF CallOk, Evolves, IInv, RegistryOk
<1>5. CallOk(c)' /\ Forward(c)
  BY <1>2, <1>3, <1>4 DEF CallOk, Honoured, Forward
<1> QED BY <1>2, <1>3, <1>5, OneCall DEF IInv

\* The request is sent to what was resolved.
LEMMA ProceedStep ==
  ASSUME IInv, Evolves, NEW c \in Calls, NEW known, At(c, "connecting"),
         call' = Proceed(c, known)
  PROVE  CallsStep
<1>1. CASE call[c].action = "watch" /\ StreamingRefused(call[c].target.base, known)
  BY <1>1, FailsStep DEF Proceed, Errors
<1>2. CASE ~(call[c].action = "watch" /\ StreamingRefused(call[c].target.base, known))
  <2> DEFINE pc == IF call[c].action \in {"watch", "stream"}
                     THEN "streaming" ELSE "requesting"
             r == [call[c] EXCEPT !.pc = pc, !.sent = TRUE, !.continuation = None]
  <2>1. call[c] \in CallRecords /\ CallOk(c)
    BY DEF IInv
  <2>2. /\ r \in CallRecords /\ r.pc \in {"streaming", "requesting"} /\ r.sent
        /\ r.handle = call[c].handle /\ r.target = call[c].target
        /\ r.taskId = call[c].taskId /\ r.contextId = call[c].contextId
        /\ r.continuation = None
    BY <2>1, ZenonT(30) DEF CallRecords, Pcs
  <2>3. call' = [call EXCEPT ![c] = r] /\ call'[c] = r
    BY <1>2 DEF Proceed, IInv
  <2>4. r.handle # None =>
          /\ r.handle \in 1..created'
          /\ entries'[r.handle] # None => entries'[r.handle].target = r.target
    BY <2>1, <2>2 DEF CallOk, Evolves, IInv, RegistryOk
  <2>5. Forward(c)
    BY <2>1, <2>2, <2>3 DEF CallOk, Forward, Follows, At
  <2> HIDE DEF r
  <2>6. CallOk(c)'
    <3>1. r.target \in Targets
      BY <2>1, <2>2 DEF CallOk, At
    <3>2. Honoured(c)'
      BY <2>2, <2>3 DEF Honoured
    <3> QED BY <2>2, <2>3, <2>4, <3>1, <3>2 DEF CallOk
  <2> QED BY <2>2, <2>3, <2>5, <2>6, OneCall DEF IInv
<1> QED BY <1>1, <1>2

-----------------------------------------------------------------------------
(* Binding a handle.                                                       *)

\* What Bind leaves when the handle names the target, as long as it names one.
BindOk(bound, target, taskId, contextId, handle) ==
  /\ bound.entries \in Registry
  /\ bound.created \in created..MaxHandles
  /\ \A h \in Handles : h > bound.created => bound.entries[h] = None
  /\ \A h \in Handles : bound.entries[h] # None =>
       \/ Keeps(entries, bound.entries, h)
       \/ /\ h = bound.handle /\ taskId # None /\ bound.error = None
          /\ bound.entries[h].target = target /\ bound.entries[h].taskId = taskId
          /\ \/ bound.entries[h].contextId = contextId
             \/ /\ contextId = None /\ entries[h] # None
                /\ bound.entries[h].contextId = entries[h].contextId
  /\ \A h \in 1..created : bound.entries[h] # None =>
       entries[h] # None /\ bound.entries[h].target = entries[h].target
  /\ bound.handle \in {None} \union 1..bound.created
  /\ taskId # None => bound.handle # None
  /\ bound.handle # None /\ bound.entries[bound.handle] # None =>
       bound.entries[bound.handle].target = target
  /\ bound.error \in Errors \union {None}

LEMMA BindEffect ==
  ASSUME IInv, NEW target \in Targets, NEW taskId \in Tasks \union {None},
         NEW contextId \in Contexts \union {None}, NEW handle \in {None} \union 1..created,
         handle # None /\ entries[handle] # None => entries[handle].target = target,
         CanBind(taskId, handle)
  PROVE  BindOk(Bind(target, taskId, contextId, handle), target, taskId, contextId, handle)
<1> DEFINE bound == Bind(target, taskId, contextId, handle)
<1>0. /\ entries \in Registry /\ created \in 0..MaxHandles /\ clock \in Nat
      /\ MaxHandles \in Nat /\ 1..created \subseteq Handles /\ None \notin Nat
      /\ \A h \in Handles : h > created => entries[h] = None
  BY RegistryAssumption, BoundsAreNatural, CreatedHandles DEF IInv, RegistryOk, OthersOk
<1>1. CASE taskId = None
  BY <1>0, <1>1 DEF Bind, BindOk, Keeps
<1>2. CASE taskId # None /\ handle = None
  <2> DEFINE n == created + 1
             f == Create(entries, n, target, taskId, contextId, clock)
  <2>1. n \in Handles /\ entries[n] = None
    BY <1>0, <1>2 DEF CanBind, Handles
  <2>2. /\ f \in Registry
        /\ \A h \in Handles \ {n} : f[h] \in {entries[h], None}
        /\ f[n] \in {Entry(target, taskId, contextId, clock), None}
    BY <1>0, <1>2, <2>1, CreateType
  <2>3. f[n] # None =>
          f[n].target = target /\ f[n].taskId = taskId /\ f[n].contextId = contextId
    BY <2>2 DEF Entry
  <2>4. bound = [entries |-> f, created |-> n, handle |-> n, error |-> None]
    BY <1>2 DEF Bind
  <2>5. \A h \in Handles : f[h] # None => h = n \/ Keeps(entries, f, h)
    BY <2>2 DEF Keeps
  <2>6. \A h \in Handles : h > n => f[h] = None
    BY <1>0, <2>2 DEF Handles
  <2>7. \A h \in 1..created : f[h] # None =>
          entries[h] # None /\ f[h].target = entries[h].target
    BY <1>0, <2>2
  <2>8. n \in created..MaxHandles /\ n \in 1..n /\ n # None
    BY <1>0, <2>1 DEF Handles
  <2> HIDE DEF f, n, bound
  <2> QED BY <1>2, <2>2, <2>3, <2>4, <2>5, <2>6, <2>7, <2>8 DEF BindOk, bound
<1>3. CASE taskId # None /\ handle # None
  <2> DEFINE f == Refresh(entries, handle, target, taskId, contextId, clock)
             error == IF Live(entries, handle, clock) THEN None
                      ELSE LookupError(entries, handle, clock)
             known == Known(entries, handle, contextId)
  <2>1. handle \in Handles /\ handle \in 1..created
    BY <1>0, <1>3
  <2>2. /\ f \in Registry
        /\ \A h \in Handles \ {handle} : f[h] \in {entries[h], None}
        /\ Live(entries, handle, clock) =>
             f[handle] \in {Entry(target, taskId, known, clock), None}
        /\ ~Live(entries, handle, clock) => f[handle] = None
        /\ entries[handle] = None => f[handle] = None
    BY <1>0, <1>3, <2>1, RefreshType
  <2>3. f[handle] # None =>
          /\ f[handle].target = target /\ f[handle].taskId = taskId
          /\ f[handle].contextId = known
          /\ error = None /\ entries[handle] # None
    BY <2>2 DEF Entry
  <2>a. known = contextId \/ (contextId = None /\ known = entries[handle].contextId)
    BY DEF Known
  <2>4. bound = [entries |-> f, created |-> created, handle |-> handle, error |-> error]
    BY <1>3 DEF Bind
  <2>5. \A h \in Handles : f[h] # None => h = handle \/ Keeps(entries, f, h)
    BY <2>2 DEF Keeps
  <2>6. \A h \in Handles : h > created => f[h] = None
    BY <1>0, <2>1, <2>2 DEF Handles
  <2>7. \A h \in 1..created : f[h] # None =>
          entries[h] # None /\ f[h].target = entries[h].target
    BY <1>0, <1>3, <2>2, <2>3
  <2>8. error \in Errors \union {None}
    BY DEF LookupError, Errors
  <2>9. created \in created..MaxHandles
    BY <1>0
  <2> HIDE DEF f, error, known, bound
  <2> QED BY <1>3, <2>1, <2>2, <2>3, <2>a, <2>4, <2>5, <2>6, <2>7, <2>8, <2>9 DEF BindOk, bound
<1> QED BY <1>1, <1>2, <1>3

\* The registry after a call of c bound its handle, and told a continuation
\* with the context it knows by then.
LEMMA BindRegistry ==
  ASSUME IInv, NEW target \in Targets, NEW taskId \in Tasks \union {None},
         NEW contextId \in Contexts \union {None}, NEW told \in Contexts \union {None},
         NEW handle, NEW bound, BindOk(bound, target, taskId, contextId, handle),
         entries' = bound.entries, created' = bound.created,
         bindings' = bindings \union
           {b \in {[handle |-> bound.handle, taskId |-> taskId, contextId |-> contextId]} :
              taskId # None /\ bound.error = None},
         \/ given' = given
         \/ /\ taskId # None \/ told # None
            /\ given' = given \union {Continuation(target, taskId, told, bound.handle)}
  PROVE  RegistryOk' /\ Evolves
<1> DEFINE k == Continuation(target, taskId, told, bound.handle)
           b == [handle |-> bound.handle, taskId |-> taskId, contextId |-> contextId]
<1>0. /\ created \in 0..MaxHandles /\ MaxHandles \in Nat
      /\ created' \in created..MaxHandles /\ 1..created \subseteq 1..created'
      /\ 1..created' \subseteq Handles
  BY RegistryAssumption DEF IInv, RegistryOk, BindOk, Handles
<1>1. Evolves
  BY DEF Evolves, BindOk
<1>2. given' \subseteq Continuations
  <2>1. k \in Continuations
    BY <1>0 DEF BindOk, Continuations, Continuation
  <2> QED BY <2>1 DEF IInv, RegistryOk
<1>3. bindings' \subseteq Bindings
  <2>1. taskId # None => b \in Bindings
    BY <1>0 DEF BindOk, Bindings
  <2> QED BY <2>1 DEF IInv, RegistryOk
<1>4. ASSUME NEW h \in Handles, entries'[h] # None
      PROVE  BoundTo(h)'
  <2>1. entries[h] # None => BoundTo(h)
    BY DEF IInv, RegistryOk
  <2>2. CASE Keeps(entries, entries', h)
    BY <1>4, <2>1, <2>2 DEF Keeps, BoundTo
  <2>3. CASE ~Keeps(entries, entries', h)
    <3>1. /\ h = bound.handle /\ taskId # None /\ bound.error = None
          /\ entries'[h].taskId = taskId
          /\ \/ entries'[h].contextId = contextId
             \/ entries[h] # None /\ entries'[h].contextId = entries[h].contextId
      BY <1>4, <2>3 DEF BindOk
    <3>2. b \in bindings' /\ b.handle = h /\ b.taskId = taskId /\ b.contextId = contextId
      BY <3>1
    <3>3. CASE entries'[h].contextId = contextId
      BY <3>1, <3>2, <3>3 DEF BoundTo
    <3>4. CASE entries[h] # None /\ entries'[h].contextId = entries[h].contextId
      BY <2>1, <3>1, <3>2, <3>4 DEF BoundTo
    <3> QED BY <3>1, <3>3, <3>4
  <2> QED BY <2>2, <2>3
<1>5. ASSUME NEW g \in given'
      PROVE  GivenOk(g)'
  <2>1. CASE g \in given
    BY <1>0, <1>1, <2>1 DEF Evolves, IInv, RegistryOk, GivenOk
  <2>2. CASE g = k /\ (taskId # None \/ told # None)
    BY <1>0, <2>2 DEF BindOk, Continuation, GivenOk
  <2> QED BY <1>5, <2>1, <2>2
<1>6. entries' \in Registry /\ created' \in 0..MaxHandles
      /\ \A h \in Handles : h > created' => entries'[h] = None
  BY <1>0 DEF BindOk
<1> QED BY <1>1, <1>2, <1>3, <1>4, <1>5, <1>6 DEF RegistryOk

\* q with what an event of its stream has told it.
GoesOn(q, taskId, contextId, handle, events) ==
  [q EXCEPT !.pc = "streaming", !.taskId = taskId, !.contextId = contextId,
            !.handle = handle, !.events = events]

LEMMA GoesOnOk ==
  ASSUME NEW q \in CallRecords, NEW taskId \in Tasks \union {None},
         NEW contextId \in Contexts \union {None}, NEW handle \in Handles \union {None},
         NEW events \in 0..MaxEvents
  PROVE  LET r == GoesOn(q, taskId, contextId, handle, events)
         IN  /\ r \in CallRecords /\ r.pc = "streaming" /\ r.sent = q.sent
             /\ r.target = q.target /\ r.handle = handle
  BY ZenonT(40) DEF GoesOn, CallRecords, Pcs

\* A call that goes on with the handle it bound, and with a context.
LEMMA BindsStep ==
  ASSUME IInv, NEW c \in Calls, At(c, "requesting") \/ At(c, "streaming"),
         NEW taskId \in Tasks \union {None}, NEW context \in Contexts \union {None},
         NEW contextId \in Contexts \union {None}, NEW pc \in {"answered", "streaming"},
         NEW events \in 0..MaxEvents, BindsAndGoes(c, taskId, context, contextId, pc, events)
  PROVE  RegistryOk' /\ Evolves /\ CallsStep
<1> DEFINE target == call[c].target
           handle == call[c].handle
           bound == Bind(target, taskId, context, handle)
<1>1. /\ call[c] \in CallRecords /\ CallOk(c) /\ call[c].sent
      /\ target \in Targets /\ handle \in {None} \union 1..created
      /\ handle # None /\ entries[handle] # None => entries[handle].target = target
  BY DEF IInv, CallOk, At
<1>2. BindOk(bound, target, taskId, context, handle)
  BY <1>1, BindEffect DEF BindsAndGoes, Binds
<1>3. /\ entries' = bound.entries /\ created' = bound.created
      /\ bindings' = bindings \union
           {b \in {[handle |-> bound.handle, taskId |-> taskId, contextId |-> context]} :
              taskId # None /\ bound.error = None}
      /\ \/ given' = given
         \/ /\ taskId # None \/ contextId # None
            /\ given' = given \union {Continuation(target, taskId, contextId, bound.handle)}
  BY DEF BindsAndGoes, Binds, Tells
<1> HIDE DEF bound
<1>4. RegistryOk' /\ Evolves
  BY <1>1, <1>2, <1>3, BindRegistry
<1>5. CASE bound.error # None
  <2>1. bound.error \in Errors
    BY <1>2, <1>5 DEF BindOk
  <2>2. call' = Fails(c, bound.error)
    BY <1>5 DEF BindsAndGoes, bound
  <2> QED BY <1>1, <1>4, <2>1, <2>2, FailsStep
<1>6. CASE bound.error = None
  <2>0. /\ bound.handle \in Handles \union {None}
        /\ bound.handle # None =>
             /\ bound.handle \in 1..created'
             /\ entries'[bound.handle] # None => entries'[bound.handle].target = target
    BY <1>2, <1>3, RegistryAssumption DEF BindOk, IInv, RegistryOk, Handles
  <2>1. CASE pc = "answered"
    <3>1. call' = Finishes(c, taskId, contextId, bound.handle)
      BY <1>6, <2>1 DEF BindsAndGoes, bound
    <3> QED BY <1>1, <1>4, <2>0, <3>1, FinishesStep
  <2>2. CASE pc = "streaming"
    <3> DEFINE r == GoesOn(call[c], taskId, contextId, bound.handle, events)
    <3>1. /\ r \in CallRecords /\ r.pc = pc /\ r.sent /\ r.target = target
          /\ r.handle = bound.handle
      <4>1. call[c] \in CallRecords /\ bound.handle \in Handles \union {None}
        BY <1>1, <2>0
      <4>2. /\ r \in CallRecords /\ r.pc = "streaming" /\ r.sent = call[c].sent
            /\ r.target = call[c].target /\ r.handle = bound.handle
        BY <4>1, GoesOnOk
      <4> QED BY <1>1, <2>2, <4>2
    <3>2. call' = [call EXCEPT ![c] = r] /\ call'[c] = r
      BY <1>6, <2>2 DEF BindsAndGoes, GoesOn, bound, IInv
    <3> HIDE DEF r
    <3>3. CallOk(c)' /\ Forward(c)
      BY <1>1, <2>0, <2>2, <3>1, <3>2 DEF CallOk, Honoured, Forward
    <3> QED BY <1>4, <3>1, <3>2, <3>3, OneCall DEF IInv
  <2> QED BY <2>1, <2>2
<1> QED BY <1>5, <1>6

-----------------------------------------------------------------------------
(* The steps.                                                              *)

LEMMA OthersKept ==
  ASSUME IInv, UNCHANGED <<clock, catalog, restarts>>
  PROVE  OthersOk'
  BY DEF IInv, OthersOk, catalog

\* A lookup drops handles and moves none.
LEMMA LookupRegistry ==
  ASSUME IInv, NEW h, entries' \in {entries, Resolve(entries, h, clock)},
         UNCHANGED <<created, bindings, given>>
  PROVE  /\ RegistryOk' /\ Evolves
         /\ \A g \in Handles : Keeps(entries, entries', g)
<1>1. entries \in Registry /\ clock \in Nat /\ created \in 0..MaxHandles
      /\ 1..created \subseteq Handles /\ MaxHandles \in Nat
  BY BoundsAreNatural, RegistryAssumption DEF IInv, RegistryOk, OthersOk, Handles
<1>2. entries' \in Registry /\ \A g \in Handles : Keeps(entries, entries', g)
  BY <1>1, ResolveType DEF Keeps
<1>3. \A g \in Handles : g > created => entries'[g] = None
  BY <1>2 DEF Keeps, IInv, RegistryOk
<1>4. \A g \in Handles : entries'[g] # None => BoundTo(g)'
  <2>1. \A g \in Handles : entries[g] # None => BoundTo(g)
    BY DEF IInv, RegistryOk
  <2> QED BY <1>2, <2>1 DEF Keeps, BoundTo
<1>5. \A g \in given' : GivenOk(g)'
  <2>1. \A g \in given : GivenOk(g)
    BY DEF IInv, RegistryOk
  <2> QED BY <1>1, <1>2, <2>1 DEF Keeps, GivenOk
<1>6. Evolves
  BY <1>1, <1>2 DEF Keeps, Evolves
<1>7. given' \subseteq Continuations /\ bindings' \subseteq Bindings
  BY DEF IInv, RegistryOk
<1> QED BY <1>1, <1>2, <1>3, <1>4, <1>5, <1>6, <1>7 DEF RegistryOk

\* A continuation that was given and is refused has a handle that was bound to
\* another task or to another conversation.
LEMMA RefusedContinuation ==
  ASSUME RegistryOk, NEW k \in given, RouteContinuation(k).error # None
  PROVE  /\ RouteContinuation(k).error = "VALIDATION_ERROR"
         /\ \E b \in bindings :
              b.handle = k.handle /\ (b.taskId # k.taskId \/ Differ(b.contextId, k.contextId))
<1> DEFINE entry == entries[k.handle]
<1>1. /\ RouteContinuation(k).error = "VALIDATION_ERROR"
      /\ k.handle # None /\ Live(entries, k.handle, clock) /\ Disagrees(k)
  BY RouteContinuationResolved DEF RegistryOk
<1>2. k.handle \in Handles /\ entry # None
  BY <1>1 DEF Live, Present
<1>3. BoundTo(k.handle) /\ k.target = entry.target
  BY <1>1, <1>2 DEF RegistryOk, GivenOk
<1>4. CASE k.taskId # entry.taskId
  BY <1>1, <1>3, <1>4 DEF BoundTo
<1>5. CASE Differ(k.contextId, entry.contextId)
  BY <1>1, <1>3, <1>5 DEF BoundTo, Differ
<1> QED BY <1>1, <1>3, <1>4, <1>5 DEF Disagrees

LEMMA BeginStep ==
  ASSUME IInv, NEW c \in Calls, Begin(c)
  PROVE  StepOk
<1>1. PICK i \in Inputs(c) :
        /\ i.action # "list_targets" \/ ~Valid(i)
        /\ LET to == Route(i)
           IN  call' = [call EXCEPT ![c] =
                 IF to.error # None THEN Failed(i, FALSE, to.error)
                 ELSE [Idle EXCEPT !.pc = "connecting", !.action = i.action,
                                   !.continuation = i.continuation,
                                   !.target = to.target, !.taskId = to.taskId,
                                   !.contextId = to.contextId, !.handle = to.handle]]
        /\ entries' = IF LooksUp(i) = None THEN entries
                      ELSE Resolve(entries, LooksUp(i), clock)
  BY DEF Begin
<1> DEFINE to == Route(i)
           k == i.continuation
<1>2. InputOk(i) /\ (k # None => \E g \in given : Passed(i, g))
  BY InputsOk DEF IInv, RegistryOk
<1>3. /\ RegistryOk' /\ Evolves
      /\ \A g \in Handles : Keeps(entries, entries', g)
  BY <1>1, LookupRegistry DEF Begin
<1>4. OthersOk'
  BY OthersKept DEF Begin, catalog
<1>5. /\ Resolved(to)
      /\ to.error = None /\ k # None => Follows(to, k)
  BY <1>1, <1>2, RouteResolved DEF IInv, RegistryOk
<1>6. /\ to.target \in Targets \union {None} /\ to.taskId \in Tasks \union {None}
      /\ to.contextId \in Contexts \union {None}
      /\ to.handle \in Handles \union {None} /\ to.error \in Errors \union {None}
  BY <1>5 DEF Resolved
<1>7. i.action \in AllActions /\ k \in Continuations \union {None}
  BY <1>2 DEF InputOk
<1>8. CASE to.error # None
  <2> DEFINE r == Failed(i, FALSE, to.error)
  <2>1. /\ r \in CallRecords /\ r.pc = "failed" /\ r.error = to.error /\ r.sent = FALSE
        /\ r.handle = None /\ r.continuation = k /\ (k # None => r.action = i.action)
    <3>1. to.error \in Errors /\ FALSE \in BOOLEAN
      BY <1>6, <1>8
    <3>2. i.continuation \in Continuations \union {None} /\ i.action \in AllActions \union {"none"}
      BY <1>7
    <3> DEFINE e == to.error
               sent == FALSE
    <3> HIDE DEF e, to, sent
    <3>3. e \in Errors /\ sent \in BOOLEAN
      BY <3>1 DEF e, sent
    <3>4. LET x == Failed(i, sent, e)
          IN  /\ x \in CallRecords /\ x.pc = "failed" /\ x.error = e /\ x.sent = sent
              /\ x.handle = None /\ x.continuation = i.continuation
              /\ x.continuation # None => x.action = i.action
      BY <3>2, <3>3, FailedOk
    <3> QED BY <3>4 DEF e, sent
  <2>2. call' = [call EXCEPT ![c] = r] /\ call'[c] = r
    BY <1>1, <1>8 DEF IInv
  <2> HIDE DEF r
  <2>3. Honoured(c)'
    <3> SUFFICES ASSUME k # None, k.taskId # None \/ i.action \in Sending
                 PROVE  /\ to.error = "VALIDATION_ERROR"
                        /\ \E b \in bindings' :
                             /\ b.handle = k.handle
                             /\ b.taskId # k.taskId \/ Differ(b.contextId, k.contextId)
      BY <2>1, <2>2 DEF Honoured
    <3>1. k \in given /\ Passed(i, k)
      BY <1>2 DEF Passed
    <3>2. k.taskId # None \/ k.contextId # None
      BY <3>1 DEF IInv, RegistryOk, GivenOk
    <3>3. Valid(i)
      BY <3>1, <3>2 DEF Passed, Valid
    <3>4. to = RouteContinuation(k)
      BY <3>3 DEF Route
    <3>5. bindings' = bindings
      BY DEF Begin
    <3> HIDE DEF to, k
    <3> QED BY <1>8, <3>1, <3>4, <3>5, RefusedContinuation DEF IInv
  <2>4. CallOk(c)' /\ Forward(c)
    BY <2>1, <2>2, <2>3 DEF CallOk, Forward
  <2>5. CallsStep
    BY <2>1, <2>2, <2>4, OneCall DEF IInv
  <2> QED BY <1>3, <1>4, <2>5 DEF StepOk
<1>9. CASE to.error = None
  <2> DEFINE r == [Idle EXCEPT !.pc = "connecting", !.action = i.action,
                               !.continuation = k,
                               !.target = to.target, !.taskId = to.taskId,
                               !.contextId = to.contextId, !.handle = to.handle]
  <2>1. call' = [call EXCEPT ![c] = r] /\ call'[c] = r
    BY <1>1, <1>9 DEF IInv
  <2> HIDE DEF to, k
  <2>2. /\ r \in CallRecords /\ r.pc = "connecting" /\ r.continuation = k
        /\ r.target = to.target /\ r.taskId = to.taskId /\ r.contextId = to.contextId
        /\ r.handle = to.handle /\ r.sent = FALSE
    BY <1>6, <1>7, IdleOk DEF Idle, CallRecords, Pcs
  <2> HIDE DEF r
  <2>3. r.handle # None =>
          /\ r.handle \in 1..created'
          /\ entries'[r.handle] # None => entries'[r.handle].target = r.target
    <3> SUFFICES ASSUME r.handle # None
                 PROVE  /\ r.handle \in 1..created'
                        /\ entries'[r.handle] # None => entries'[r.handle].target = r.target
      OBVIOUS
    <3>1. r.handle \in Handles /\ entries[r.handle] # None
          /\ entries[r.handle].target = r.target
      BY <1>5, <2>2 DEF Resolved, Live, Present
    <3>2. r.handle \in 1..created /\ created' = created
      BY <3>1, RegistryAssumption DEF IInv, RegistryOk, Handles, Begin
    <3> QED BY <1>3, <3>1, <3>2 DEF Keeps
  <2>4. r.target \in Targets /\ (r.continuation # None => Follows(r, r.continuation))
    BY <1>5, <1>9, <2>2 DEF Resolved, Follows
  <2>5. CallOk(c)' /\ Forward(c)
    BY <2>1, <2>2, <2>3, <2>4 DEF CallOk, Honoured, Forward
  <2>6. CallsStep
    BY <2>1, <2>2, <2>5, OneCall DEF IInv
  <2> QED BY <1>3, <1>4, <2>6 DEF StepOk
<1> QED BY <1>8, <1>9

LEMMA ConnectStep ==
  ASSUME IInv, NEW c \in Calls,
         CreateClientFails(c) \/ FetchCard(c) \/ FetchCardFails(c)
  PROVE  StepOk
<1>1. RegistryOk' /\ Evolves
  BY RegistryUnchanged
     DEF CreateClientFails, FetchCard, FetchCardFails, registry
<1>2. CASE CreateClientFails(c)
  <2>1. CallsStep
    BY <1>2, FailsStep DEF CreateClientFails, Errors
  <2> QED BY <1>1, <1>2, <2>1, OthersKept DEF CreateClientFails, StepOk
<1>3. CASE FetchCard(c)
  <2>1. PICK streaming \in {"yes", "no"} :
          LET known == [cards EXCEPT ![call[c].target.base] =
                          [streaming |-> streaming, error |-> FALSE]]
          IN  cards' = known /\ call' = Proceed(c, known)
    BY <1>3 DEF FetchCard
  <2>2. CallsStep
    BY <1>1, <1>3, <2>1, ProceedStep DEF FetchCard
  <2>3. OthersOk'
    <3>1. [streaming |-> streaming, error |-> FALSE] \in CardRecords
      BY DEF CardRecords
    <3> QED BY <1>3, <2>1, <3>1 DEF FetchCard, IInv, OthersOk
  <2> QED BY <1>1, <2>2, <2>3 DEF StepOk
<1>4. CASE FetchCardFails(c)
  <2>1. CallsStep
    BY <1>1, <1>4, ProceedStep DEF FetchCardFails
  <2> QED BY <1>1, <1>4, <2>1, OthersKept DEF FetchCardFails, StepOk
<1> QED BY <1>2, <1>3, <1>4

LEMMA RequestFailsStep ==
  ASSUME IInv, NEW c \in Calls, RequestFails(c)
  PROVE  StepOk
<1>1. RegistryOk' /\ Evolves /\ OthersOk'
  BY RegistryUnchanged, OthersKept DEF RequestFails
<1>2. CallsStep
  BY FailsStep DEF RequestFails, Errors
<1> QED BY <1>1, <1>2 DEF StepOk

\* The strict stream that is refused keeps the continuation of its task.
LEMMA StrictStreamStep ==
  ASSUME IInv, NEW c \in Calls, At(c, "requesting"), NEW answer, NEW terminal \in BOOLEAN,
         answer.taskId \in Tasks, answer.contextId \in Contexts \union {None},
         StrictStreamGoes(c, answer, terminal)
  PROVE  RegistryOk' /\ Evolves /\ CallsStep
<1> DEFINE taskId == answer.taskId
           contextId == answer.contextId
           bound == Bind(call[c].target, taskId, contextId, call[c].handle)
           refused == /\ ~terminal /\ bound.error = None
                      /\ StreamingRefused(call[c].target.base, cards)
<1>0. taskId \in Tasks /\ contextId \in Contexts \union {None} /\ taskId # None
  BY RemoteAgentAssumption
<1>1. CASE refused
  <2>1. /\ call[c].target \in Targets /\ call[c].handle \in {None} \union 1..created
        /\ call[c].handle # None /\ entries[call[c].handle] # None =>
             entries[call[c].handle].target = call[c].target
        /\ call[c].sent
    BY DEF IInv, CallOk, At
  <2>2. BindOk(bound, call[c].target, taskId, contextId, call[c].handle)
    BY <1>0, <1>1, <2>1, BindEffect DEF StrictStreamGoes, Binds
  <2>3. /\ entries' = bound.entries /\ created' = bound.created
        /\ bindings' = bindings \union
             {b \in {[handle |-> bound.handle, taskId |-> taskId, contextId |-> contextId]} :
                taskId # None /\ bound.error = None}
    BY <1>1 DEF StrictStreamGoes, Binds
  <2>4. given' = given \union {Continuation(call[c].target, taskId, contextId, bound.handle)}
    BY <1>0, <1>1 DEF StrictStreamGoes, Tells
  <2>5. call' = Fails(c, "STREAMING_NOT_SUPPORTED")
    BY <1>1 DEF StrictStreamGoes
  <2> HIDE DEF bound, taskId, contextId
  <2>6. RegistryOk' /\ Evolves
    BY <1>0, <2>1, <2>2, <2>3, <2>4, BindRegistry
  <2> QED BY <2>1, <2>5, <2>6, FailsStep DEF Errors
<1>2. CASE ~refused
  <2>1. BindsAndGoes(c, taskId, contextId, contextId,
                     IF terminal THEN "answered" ELSE "streaming", 0)
    BY <1>2 DEF StrictStreamGoes
  <2>2. 0 \in 0..MaxEvents
    BY BoundsAreNatural
  <2> HIDE DEF taskId, contextId
  <2> QED BY <1>0, <2>1, <2>2, BindsStep
<1> QED BY <1>1, <1>2

\* What an answer may name.
LEMMA AnswerNames ==
  ASSUME IInv, NEW c \in Calls
  PROVE  /\ NamedTasks(c) \subseteq Tasks /\ NamedContexts(c) \subseteq Contexts
         /\ \A taskId \in Tasks \union {None} : MergedTask(c, taskId) \in Tasks \union {None}
         /\ \A contextId \in Contexts \union {None} :
              MergedContext(c, contextId) \in Contexts \union {None}
         /\ call[c].taskId \in Tasks \union {None}
         /\ call[c].contextId \in Contexts \union {None}
<1>1. /\ call[c].taskId \in Tasks \union {None}
      /\ call[c].contextId \in Contexts \union {None}
  BY DEF IInv, CallRecords
<1> QED BY <1>1 DEF NamedTasks, NamedContexts, MergedTask, MergedContext, Given

LEMMA SendAnswerStep ==
  ASSUME IInv, NEW c \in Calls, SendAnswer(c)
  PROVE  StepOk
<1>1. PICK answer \in Answers(c) :
        \/ /\ call[c].action \in Strict /\ answer.kind = "message"
           /\ call' = Fails(c, "TASK_REQUIRED_BUT_MESSAGE_RETURNED")
           /\ UNCHANGED <<registry, given>>
        \/ /\ call[c].action = "strict_stream" /\ answer.kind = "task"
           /\ \E terminal \in BOOLEAN : StrictStreamGoes(c, answer, terminal)
        \/ BindsAndGoes(c, MergedTask(c, answer.taskId), MergedContext(c, answer.contextId),
                        MergedContext(c, answer.contextId), "answered", 0)
  BY DEF SendAnswer
<1>2. At(c, "requesting") /\ call[c].sent /\ 0 \in 0..MaxEvents
  BY BoundsAreNatural DEF SendAnswer, IInv, CallOk, At
<1>3. /\ answer.taskId \in Tasks \union {None} /\ answer.contextId \in Contexts \union {None}
      /\ answer.kind = "task" => answer.taskId \in Tasks
  BY AnswerNames DEF Answers
<1>4. RegistryOk' /\ Evolves /\ CallsStep
  <2>1. CASE call' = Fails(c, "TASK_REQUIRED_BUT_MESSAGE_RETURNED")
             /\ UNCHANGED <<registry, given>>
    BY <1>2, <2>1, RegistryUnchanged, FailsStep DEF Errors
  <2>2. CASE answer.kind = "task"
             /\ \E terminal \in BOOLEAN : StrictStreamGoes(c, answer, terminal)
    BY <1>2, <1>3, <2>2, StrictStreamStep
  <2>3. CASE BindsAndGoes(c, MergedTask(c, answer.taskId),
                          MergedContext(c, answer.contextId),
                          MergedContext(c, answer.contextId), "answered", 0)
    <3>1. /\ MergedTask(c, answer.taskId) \in Tasks \union {None}
          /\ MergedContext(c, answer.contextId) \in Contexts \union {None}
      BY <1>3, AnswerNames
    <3> QED BY <1>2, <2>3, <3>1, BindsStep
  <2> QED BY <1>1, <2>1, <2>2, <2>3
<1>5. OthersOk'
  BY OthersKept DEF SendAnswer
<1> QED BY <1>4, <1>5 DEF StepOk

LEMMA TaskAnswerStep ==
  ASSUME IInv, NEW c \in Calls, TaskAnswer(c)
  PROVE  StepOk
<1>1. PICK contextId \in NamedContexts(c) :
        BindsAndGoes(c, call[c].taskId, contextId, contextId, "answered", 0)
  BY DEF TaskAnswer
<1>2. /\ call[c].taskId \in Tasks \union {None} /\ contextId \in Contexts \union {None}
      /\ 0 \in 0..MaxEvents /\ At(c, "requesting")
  BY AnswerNames, BoundsAreNatural DEF TaskAnswer
<1>3. RegistryOk' /\ Evolves /\ CallsStep
  BY <1>1, <1>2, BindsStep
<1> QED BY <1>3, OthersKept DEF StepOk, TaskAnswer

LEMMA EventBinds ==
  ASSUME IInv, NEW c \in Calls, StreamEvent(c)
  PROVE  \E taskId \in Tasks \union {None}, context \in Contexts \union {None},
            contextId \in Contexts \union {None} :
           BindsAndGoes(c, taskId, context, contextId, "streaming", call[c].events + 1)
<1>1. CASE SendStreamEvent(c)
  <2>1. PICK taskId \in IF call[c].events = 0 THEN NamedTasks(c) \union {None} ELSE {None},
             contextId \in NamedContexts(c) \union {None} :
          BindsAndGoes(c, MergedTask(c, taskId), MergedContext(c, contextId),
                       MergedContext(c, contextId), "streaming", call[c].events + 1)
    BY <1>1 DEF SendStreamEvent
  <2>2. /\ MergedTask(c, taskId) \in Tasks \union {None}
        /\ MergedContext(c, contextId) \in Contexts \union {None}
    BY AnswerNames
  <2> QED BY <2>1, <2>2
<1>2. CASE WatchEvent(c)
  <2>1. PICK contextId \in NamedContexts(c) \union {None} :
          BindsAndGoes(c, call[c].taskId, call[c].contextId, MergedContext(c, contextId),
                       "streaming", call[c].events + 1)
    BY <1>2 DEF WatchEvent
  <2>2. /\ call[c].taskId \in Tasks \union {None}
        /\ call[c].contextId \in Contexts \union {None}
        /\ MergedContext(c, contextId) \in Contexts \union {None}
    BY AnswerNames
  <2> QED BY <2>1, <2>2
<1> QED BY <1>1, <1>2 DEF StreamEvent

LEMMA StreamStep ==
  ASSUME IInv, NEW c \in Calls, StreamEvent(c) \/ StreamEnd(c)
  PROVE  StepOk
<1>1. /\ At(c, "streaming") /\ call[c].sent /\ call[c].events \in 0..MaxEvents
      /\ MaxEvents \in Nat
  BY BoundsAreNatural DEF StreamEvent, StreamEnd, IInv, CallOk, At, CallRecords
<1>2. OthersOk'
  BY OthersKept DEF StreamEvent, StreamEnd
<1>3. CASE StreamEvent(c)
  <2>1. call[c].events + 1 \in 0..MaxEvents
    BY <1>1, <1>3 DEF StreamEvent
  <2>2. PICK taskId \in Tasks \union {None}, context \in Contexts \union {None},
             contextId \in Contexts \union {None} :
          BindsAndGoes(c, taskId, context, contextId, "streaming", call[c].events + 1)
    BY <1>3, EventBinds
  <2> QED BY <1>1, <1>2, <2>1, <2>2, BindsStep DEF StepOk
<1>4. CASE StreamEnd(c)
  <2>0. /\ call[c].taskId \in Tasks \union {None}
        /\ call[c].contextId \in Contexts \union {None}
    BY AnswerNames
  <2>1. CASE call' = Fails(c, "A2A_SDK_ERROR") /\ UNCHANGED <<registry, given>>
    BY <1>1, <1>2, <2>1, RegistryUnchanged, FailsStep DEF Errors, StepOk
  <2>2. CASE /\ call' = Finishes(c, call[c].taskId, call[c].contextId, call[c].handle)
             /\ UNCHANGED <<registry, given>>
    <3>1. RegistryOk' /\ Evolves
      BY <2>2, RegistryUnchanged
    <3>2. /\ call[c].handle \in Handles \union {None}
          /\ call[c].handle # None =>
               /\ call[c].handle \in 1..created'
               /\ entries'[call[c].handle] # None =>
                    entries'[call[c].handle].target = call[c].target
      BY <2>2 DEF IInv, CallOk, CallRecords, registry
    <3>3. CallsStep
      BY <1>1, <2>0, <2>2, <3>2, FinishesStep
    <3> QED BY <1>2, <3>1, <3>3 DEF StepOk
  <2>3. CASE BindsAndGoes(c, call[c].taskId, call[c].contextId, call[c].contextId,
                          "answered", call[c].events)
    BY <1>1, <1>2, <2>0, <2>3, BindsStep DEF StepOk
  <2> QED BY <1>4, <2>1, <2>2, <2>3 DEF StreamEnd
<1> QED BY <1>3, <1>4

LEMMA ListTargetsStep ==
  ASSUME IInv, NEW c \in Calls, ListTargets(c) \/ ListTargetsEnds(c)
  PROVE  StepOk
<1>1. RegistryOk' /\ Evolves
  BY RegistryUnchanged DEF ListTargets, ListTargetsEnds
<1>2. CASE ListTargets(c)
  <2> DEFINE r == [Idle EXCEPT !.pc = "listing", !.waits = Uncached,
                               !.action = "list_targets"]
  <2>1. r \in CallRecords
    <3>1. 0 \in 0..MaxEvents /\ Uncached \subseteq Bases
      BY BoundsAreNatural, RemoteAgentAssumption DEF Uncached, ConfiguredBases, Bases
    <3> QED BY <3>1 DEF Idle, CallRecords, Pcs, AllActions
  <2>2. /\ call' = [call EXCEPT ![c] = r] /\ call'[c] = r /\ r.pc = "listing"
        /\ r.handle = None /\ r.sent = FALSE
    BY <1>2 DEF ListTargets, Idle, IInv
  <2>3. CallOk(c)' /\ Forward(c)
    BY <2>1, <2>2 DEF CallOk, Honoured, Forward
  <2>4. OthersOk'
    BY <1>2 DEF ListTargets, IInv, OthersOk
  <2> QED BY <1>1, <2>1, <2>2, <2>3, <2>4, OneCall DEF StepOk, IInv
<1>3. CASE ListTargetsEnds(c)
  <2>1. OthersOk' /\ CallsStep
    BY <1>1, <1>3, OthersKept, EndsStep DEF ListTargetsEnds
  <2> QED BY <1>1, <2>1 DEF StepOk
<1> QED BY <1>2, <1>3

LEMMA CallsUnchanged ==
  ASSUME IInv, UNCHANGED call
  PROVE  CallsStep
  BY DEF IInv, CallsStep

LEMMA RefreshEndsStep ==
  ASSUME IInv, NEW b \in Bases, RefreshEnds(b)
  PROVE  StepOk
<1>1. RegistryOk' /\ Evolves /\ CallsStep
  BY RegistryUnchanged, CallsUnchanged DEF RefreshEnds
<1>2. PICK card \in CardRecords : cards' = [cards EXCEPT ![b] = card]
  BY DEF RefreshEnds, CardRecords
<1>3. OthersOk'
  BY <1>2 DEF RefreshEnds, IInv, OthersOk
<1> QED BY <1>1, <1>3 DEF StepOk

LEMMA TickStep ==
  ASSUME IInv, Tick
  PROVE  StepOk
<1>1. RegistryOk' /\ Evolves /\ CallsStep
  BY RegistryUnchanged, CallsUnchanged DEF Tick
<1>2. OthersOk'
  BY BoundsAreNatural DEF Tick, catalog, IInv, OthersOk
<1> QED BY <1>1, <1>2 DEF StepOk

LEMMA RestartStep ==
  ASSUME IInv, Restart
  PROVE  StepOk
<1>1. /\ created' = created /\ given' = given /\ bindings' = bindings
      /\ entries' = NoEntries /\ created \in 0..MaxHandles /\ MaxHandles \in Nat
      /\ 1..created \subseteq Handles
  BY RegistryAssumption DEF Restart, IInv, RegistryOk, Handles
<1>2. RegistryOk' /\ Evolves
  <2>1. \A h \in Handles : entries'[h] = None
    BY <1>1 DEF NoEntries
  <2>2. \A g \in given' : GivenOk(g)'
    BY <1>1, <2>1 DEF IInv, RegistryOk, GivenOk
  <2>3. entries' \in Registry
    BY <1>1 DEF Registry, NoEntries
  <2> QED BY <1>1, <2>1, <2>2, <2>3 DEF IInv, RegistryOk, Evolves
<1>3. OthersOk'
  BY BoundsAreNatural DEF Restart, IInv, OthersOk
<1>4. ASSUME NEW d \in Calls
      PROVE  /\ call'[d] \in CallRecords
             /\ call'[d] = call[d] \/ (CallOk(d)' /\ Forward(d))
  <2>1. CASE call'[d] = call[d]
    BY <2>1 DEF IInv
  <2>2. CASE call'[d] # call[d]
    <3> DEFINE r == [Idle EXCEPT !.pc = "lost"]
    <3>1. call'[d] = r
      BY <2>2 DEF Restart, IInv
    <3>2. r \in CallRecords /\ r.pc = "lost" /\ r.handle = None /\ r.sent = FALSE
      BY IdleOk DEF Idle, CallRecords, Pcs, Ended
    <3> HIDE DEF r
    <3> QED BY <3>1, <3>2 DEF CallOk, Honoured, Forward
  <2> QED BY <2>1, <2>2
<1>5. CallsStep
  BY <1>4 DEF Restart, CallsStep
<1> QED BY <1>2, <1>3, <1>5 DEF StepOk

LEMMA StutterStep ==
  ASSUME IInv, UNCHANGED vars
  PROVE  StepOk
<1>1. RegistryOk' /\ Evolves /\ CallsStep /\ OthersOk'
  BY RegistryUnchanged, CallsUnchanged, OthersKept DEF vars, registry, catalog
<1> QED BY <1>1 DEF StepOk

LEMMA EveryStepOk ==
  ASSUME IInv, [Next]_vars
  PROVE  StepOk
<1>1. ASSUME NEW c \in Calls,
             \/ Begin(c) \/ CreateClientFails(c) \/ FetchCard(c) \/ FetchCardFails(c)
             \/ SendAnswer(c) \/ TaskAnswer(c) \/ StreamEvent(c) \/ StreamEnd(c)
             \/ RequestFails(c) \/ ListTargets(c) \/ ListTargetsEnds(c)
      PROVE  StepOk
  BY <1>1, BeginStep, ConnectStep, SendAnswerStep, TaskAnswerStep, StreamStep,
     RequestFailsStep, ListTargetsStep
<1> QED BY <1>1, RefreshEndsStep, TickStep, RestartStep, StutterStep DEF Next

-----------------------------------------------------------------------------
(* How the calls change.                                                   *)

Busy == {"connecting", "requesting", "streaming"}

\* A call that asks a peer was not made for the list of targets.
Asks(c) == call[c].pc \in Busy => call[c].action # "list_targets"

BindsAnswer(c) ==
  /\ At(c, "requesting") \/ At(c, "streaming")
  /\ \E taskId \in Tasks \union {None}, contextId \in Contexts \union {None},
        events \in 0..MaxEvents :
       BindsAndGoes(c, taskId, contextId, contextId, "answered", events)

\* The ways a call comes to be answered, or to list the targets.
Outcome(c) ==
  \/ call'[c].pc \notin {"answered", "listing"}
  \/ At(c, "streaming") /\ call[c].action = "strict_stream"
  \/ BindsAnswer(c)
  \/ ListTargets(c)
  \/ ListTargetsEnds(c)

\* Only c changes, in one of these ways.
Changes(c) ==
  /\ \A d \in Calls \ {c} : call'[d] = call[d]
  /\ Asks(c)'
  /\ call'[c].pc = "listing" => ListTargets(c)
  /\ Outcome(c)

LEMMA FailsChanges ==
  ASSUME IInv, NEW c \in Calls, NEW error, call' = Fails(c, error)
  PROVE  Changes(c)
<1>1. call \in [Calls -> CallRecords]
  BY DEF IInv
<1>2. \A i, sent : Failed(i, sent, error).pc = "failed"
  BY DEF Failed, Idle
<1>3. /\ \A d \in Calls \ {c} : call'[d] = call[d]
      /\ call'[c].pc = "failed"
  BY <1>1, <1>2 DEF Fails
<1> QED BY <1>3 DEF Changes, Outcome, Asks, Busy

LEMMA FinishesChanges ==
  ASSUME IInv, NEW c \in Calls, NEW taskId, NEW contextId, NEW handle,
         call' = Finishes(c, taskId, contextId, handle)
  PROVE  (\A d \in Calls \ {c} : call'[d] = call[d]) /\ call'[c].pc = "answered"
  BY DEF IInv, Finishes, Idle

LEMMA ProceedChanges ==
  ASSUME IInv, NEW c \in Calls, Asks(c), At(c, "connecting"), NEW known,
         call' = Proceed(c, known)
  PROVE  Changes(c)
<1>1. CASE call[c].action = "watch" /\ StreamingRefused(call[c].target.base, known)
  BY <1>1, FailsChanges DEF Proceed
<1>2. CASE ~(call[c].action = "watch" /\ StreamingRefused(call[c].target.base, known))
  <2>1. call \in [Calls -> CallRecords]
    BY DEF IInv
  <2>2. /\ \A d \in Calls \ {c} : call'[d] = call[d]
        /\ call'[c].pc \in {"streaming", "requesting"}
        /\ call'[c].action = call[c].action
    BY <1>2, <2>1 DEF Proceed, CallRecords
  <2> QED BY <2>2 DEF Changes, Outcome, Asks, Busy, At
<1> QED BY <1>1, <1>2

LEMMA BindsChanges ==
  ASSUME IInv, NEW c \in Calls, Asks(c), At(c, "requesting") \/ At(c, "streaming"),
         NEW taskId \in Tasks \union {None}, NEW context \in Contexts \union {None},
         NEW contextId \in Contexts \union {None}, NEW pc \in {"answered", "streaming"},
         NEW events \in 0..MaxEvents, pc = "answered" => context = contextId,
         BindsAndGoes(c, taskId, context, contextId, pc, events)
  PROVE  Changes(c)
<1> DEFINE bound == Bind(call[c].target, taskId, context, call[c].handle)
<1>1. call \in [Calls -> CallRecords]
  BY DEF IInv
<1>2. CASE bound.error # None
  BY <1>2, FailsChanges DEF BindsAndGoes
<1>3. CASE bound.error = None /\ pc = "answered"
  <2>1. call' = Finishes(c, taskId, contextId, bound.handle)
    BY <1>3 DEF BindsAndGoes
  <2>2. BindsAnswer(c)
    BY <1>3 DEF BindsAnswer
  <2> QED BY <2>1, <2>2, FinishesChanges DEF Changes, Outcome, Asks, Busy
<1>4. CASE bound.error = None /\ pc = "streaming"
  <2>1. call' = [call EXCEPT ![c] = GoesOn(call[c], taskId, contextId, bound.handle, events)]
    BY <1>4 DEF BindsAndGoes, GoesOn
  <2> HIDE DEF bound
  <2>2. /\ \A d \in Calls \ {c} : call'[d] = call[d]
        /\ call'[c].pc = "streaming" /\ call'[c].action = call[c].action
    BY <1>1, <2>1 DEF GoesOn, CallRecords
  <2> QED BY <2>2 DEF Changes, Outcome, Asks, Busy, At
<1> QED BY <1>2, <1>3, <1>4

LEMMA GoesChanges ==
  ASSUME IInv, NEW c \in Calls, ListTargetsEnds(c)
  PROVE  Changes(c)
<1>1. call \in [Calls -> CallRecords]
  BY DEF IInv
<1>2. /\ \A d \in Calls \ {c} : call'[d] = call[d]
      /\ call'[c].pc = "answered"
  BY <1>1 DEF ListTargetsEnds, Goes, CallRecords
<1> QED BY <1>2 DEF Changes, Outcome, Asks, Busy

LEMMA BeginChanges ==
  ASSUME IInv, NEW c \in Calls, Begin(c)
  PROVE  Changes(c)
<1>1. PICK i \in Inputs(c) :
        /\ i.action # "list_targets" \/ ~Valid(i)
        /\ LET to == Route(i)
           IN  call' = [call EXCEPT ![c] =
                 IF to.error # None THEN Failed(i, FALSE, to.error)
                 ELSE [Idle EXCEPT !.pc = "connecting", !.action = i.action,
                                   !.continuation = i.continuation,
                                   !.target = to.target, !.taskId = to.taskId,
                                   !.contextId = to.contextId, !.handle = to.handle]]
  BY DEF Begin
<1> DEFINE to == Route(i)
<1>2. InputOk(i)
  BY InputsOk DEF IInv, RegistryOk
<1>3. to.error = None => Valid(i)
  BY <1>1, <1>2, RouteResolved DEF IInv, RegistryOk
<1>4. \A sent, error : Failed(i, sent, error).pc = "failed"
  BY DEF Failed, Idle
<1> HIDE DEF to
<1>5. \A d \in Calls \ {c} : call'[d] = call[d]
  BY <1>1 DEF IInv
<1>6. CASE to.error # None
  <2>1. call'[c].pc = "failed"
    BY <1>1, <1>4, <1>6 DEF to, IInv
  <2> QED BY <1>5, <2>1 DEF Changes, Outcome, Asks, Busy
<1>7. CASE to.error = None
  <2>1. call'[c].pc = "connecting" /\ call'[c].action = i.action
    BY <1>1, <1>7 DEF Idle, to, IInv
  <2> QED BY <1>1, <1>3, <1>5, <1>7, <2>1 DEF Changes, Outcome, Asks, Busy
<1> QED BY <1>6, <1>7

LEMMA ListTargetsChanges ==
  ASSUME IInv, NEW c \in Calls, ListTargets(c)
  PROVE  Changes(c)
<1>1. /\ \A d \in Calls \ {c} : call'[d] = call[d]
      /\ call'[c].pc = "listing"
  BY DEF IInv, ListTargets, Idle
<1> QED BY <1>1 DEF Changes, Outcome, Asks, Busy

LEMMA AnswerChanges ==
  ASSUME IInv, NEW c \in Calls, Asks(c), SendAnswer(c) \/ TaskAnswer(c)
  PROVE  Changes(c)
<1>1. At(c, "requesting") /\ 0 \in 0..MaxEvents
  BY BoundsAreNatural DEF SendAnswer, TaskAnswer
<1>2. CASE TaskAnswer(c)
  <2>1. PICK contextId \in NamedContexts(c) :
          BindsAndGoes(c, call[c].taskId, contextId, contextId, "answered", 0)
    BY <1>2 DEF TaskAnswer
  <2>2. call[c].taskId \in Tasks \union {None} /\ contextId \in Contexts \union {None}
    BY AnswerNames
  <2> QED BY <1>1, <2>1, <2>2, BindsChanges
<1>3. CASE SendAnswer(c)
  <2>1. PICK answer \in Answers(c) :
          \/ call' = Fails(c, "TASK_REQUIRED_BUT_MESSAGE_RETURNED")
          \/ /\ answer.kind = "task"
             /\ \E terminal \in BOOLEAN : StrictStreamGoes(c, answer, terminal)
          \/ BindsAndGoes(c, MergedTask(c, answer.taskId), MergedContext(c, answer.contextId),
                          MergedContext(c, answer.contextId), "answered", 0)
    BY <1>3 DEF SendAnswer
  <2>2. answer.taskId \in Tasks \union {None} /\ answer.contextId \in Contexts \union {None}
    BY AnswerNames DEF Answers
  <2>3. CASE call' = Fails(c, "TASK_REQUIRED_BUT_MESSAGE_RETURNED")
    BY <2>3, FailsChanges
  <2>4. ASSUME NEW terminal \in BOOLEAN, StrictStreamGoes(c, answer, terminal)
        PROVE  Changes(c)
    <3>1. CASE call' = Fails(c, "STREAMING_NOT_SUPPORTED")
      BY <3>1, FailsChanges
    <3>2. CASE BindsAndGoes(c, answer.taskId, answer.contextId, answer.contextId,
                            IF terminal THEN "answered" ELSE "streaming", 0)
      BY <1>1, <2>2, <3>2, BindsChanges
    <3> QED BY <2>4, <3>1, <3>2 DEF StrictStreamGoes
  <2>5. CASE BindsAndGoes(c, MergedTask(c, answer.taskId),
                          MergedContext(c, answer.contextId),
                          MergedContext(c, answer.contextId), "answered", 0)
    <3>1. /\ MergedTask(c, answer.taskId) \in Tasks \union {None}
          /\ MergedContext(c, answer.contextId) \in Contexts \union {None}
      BY <2>2, AnswerNames
    <3> QED BY <1>1, <2>5, <3>1, BindsChanges
  <2> QED BY <2>1, <2>3, <2>4, <2>5
<1> QED BY <1>2, <1>3

LEMMA StreamChanges ==
  ASSUME IInv, NEW c \in Calls, Asks(c), StreamEvent(c) \/ StreamEnd(c)
  PROVE  Changes(c)
<1>1. /\ At(c, "streaming") /\ call[c].events \in 0..MaxEvents
      /\ call[c].taskId \in Tasks \union {None}
      /\ call[c].contextId \in Contexts \union {None} /\ MaxEvents \in Nat
  BY BoundsAreNatural DEF StreamEvent, StreamEnd, IInv, CallOk, CallRecords
<1>2. CASE StreamEvent(c)
  <2>1. PICK taskId \in Tasks \union {None}, context \in Contexts \union {None},
             contextId \in Contexts \union {None} :
          BindsAndGoes(c, taskId, context, contextId, "streaming", call[c].events + 1)
    BY <1>2, EventBinds
  <2>2. call[c].events + 1 \in 0..MaxEvents
    BY <1>1, <1>2 DEF StreamEvent
  <2> QED BY <1>1, <2>1, <2>2, BindsChanges
<1>3. CASE StreamEnd(c)
  <2>1. CASE call' = Fails(c, "A2A_SDK_ERROR")
    BY <2>1, FailsChanges
  <2>2. CASE /\ call[c].action = "strict_stream"
             /\ call' = Finishes(c, call[c].taskId, call[c].contextId, call[c].handle)
    BY <1>1, <2>2, FinishesChanges DEF Changes, Outcome, Asks, Busy
  <2>3. CASE BindsAndGoes(c, call[c].taskId, call[c].contextId, call[c].contextId,
                          "answered", call[c].events)
    BY <1>1, <2>3, BindsChanges
  <2> QED BY <1>3, <2>1, <2>2, <2>3 DEF StreamEnd
<1> QED BY <1>2, <1>3

CallStep(c) ==
  \/ Begin(c) \/ CreateClientFails(c) \/ FetchCard(c) \/ FetchCardFails(c)
  \/ SendAnswer(c) \/ TaskAnswer(c) \/ StreamEvent(c) \/ StreamEnd(c)
  \/ RequestFails(c) \/ ListTargets(c) \/ ListTargetsEnds(c)

LEMMA CallStepChanges ==
  ASSUME IInv, NEW c \in Calls, Asks(c), CallStep(c)
  PROVE  Changes(c)
<1>1. CASE CreateClientFails(c) \/ RequestFails(c)
  BY <1>1, FailsChanges DEF CreateClientFails, RequestFails
<1>2. CASE FetchCard(c)
  <2>1. PICK known : call' = Proceed(c, known)
    BY <1>2 DEF FetchCard
  <2> QED BY <1>2, <2>1, ProceedChanges DEF FetchCard
<1>3. CASE FetchCardFails(c)
  BY <1>3, ProceedChanges DEF FetchCardFails
<1>4. CASE ListTargetsEnds(c)
  BY <1>4, GoesChanges
<1> QED BY <1>1, <1>2, <1>3, <1>4, BeginChanges, AnswerChanges, StreamChanges,
           ListTargetsChanges DEF CallStep

-----------------------------------------------------------------------------
(* How the registry changes.                                               *)

Creates ==
  \E target \in Targets, taskId \in Tasks, contextId \in Contexts \union {None} :
    /\ created + 1 \in Handles
    /\ entries' = Create(entries, created + 1, target, taskId, contextId, clock)

Refreshes ==
  \E h \in 1..created, target \in Targets, taskId \in Tasks,
     contextId \in Contexts \union {None} :
    entries' = Refresh(entries, h, target, taskId, contextId, clock)

Moves ==
  \/ entries' = entries
  \/ entries' = NoEntries /\ restarts' # restarts
  \/ \E h : entries' = Resolve(entries, h, clock)
  \/ Creates
  \/ Refreshes

LEMMA BindMoves ==
  ASSUME IInv, NEW c \in Calls, At(c, "requesting") \/ At(c, "streaming"),
         NEW taskId \in Tasks \union {None}, NEW contextId \in Contexts \union {None},
         Binds(c, taskId, contextId)
  PROVE  Moves
<1>1. /\ call[c].target \in Targets /\ call[c].handle \in {None} \union 1..created
      /\ created \in 0..MaxHandles
  BY DEF IInv, CallOk, At, RegistryOk
<1>2. /\ CanBind(taskId, call[c].handle)
      /\ entries' = Bind(call[c].target, taskId, contextId, call[c].handle).entries
  BY DEF Binds
<1>3. CASE taskId = None
  BY <1>2, <1>3 DEF Bind, Moves
<1>4. CASE taskId # None /\ call[c].handle = None
  <2>1. created + 1 \in Handles
    BY <1>1, <1>2, <1>4, RegistryAssumption DEF CanBind, Handles
  <2>2. entries' = Create(entries, created + 1, call[c].target, taskId, contextId, clock)
    BY <1>2, <1>4 DEF Bind
  <2> QED BY <1>1, <1>4, <2>1, <2>2 DEF Creates, Moves
<1>5. CASE taskId # None /\ call[c].handle # None
  <2>1. entries' = Refresh(entries, call[c].handle, call[c].target, taskId, contextId, clock)
    BY <1>2, <1>5 DEF Bind
  <2> QED BY <1>1, <1>5, <2>1 DEF Refreshes, Moves
<1> QED BY <1>3, <1>4, <1>5

LEMMA CallStepMoves ==
  ASSUME IInv, NEW c \in Calls, CallStep(c)
  PROVE  Moves /\ clock' = clock
<1>1. CASE Begin(c)
  <2>1. PICK h : entries' \in {entries, Resolve(entries, h, clock)}
    BY <1>1 DEF Begin
  <2> QED BY <1>1, <2>1 DEF Begin, Moves
<1>2. CASE SendAnswer(c)
  <2>1. PICK answer \in Answers(c) :
          \/ entries' = entries
          \/ Binds(c, answer.taskId, answer.contextId)
          \/ Binds(c, MergedTask(c, answer.taskId), MergedContext(c, answer.contextId))
    BY <1>2 DEF SendAnswer, StrictStreamGoes, BindsAndGoes, registry
  <2>2. answer.taskId \in Tasks \union {None} /\ answer.contextId \in Contexts \union {None}
    BY AnswerNames DEF Answers
  <2>3. /\ MergedTask(c, answer.taskId) \in Tasks \union {None}
        /\ MergedContext(c, answer.contextId) \in Contexts \union {None}
    BY <2>2, AnswerNames
  <2>4. Moves
    BY <1>2, <2>1, <2>2, <2>3, BindMoves DEF SendAnswer, Moves
  <2>5. clock' = clock
    BY <1>2, SMTT(20) DEF SendAnswer
  <2> QED BY <2>4, <2>5, Zenon
<1>3. CASE TaskAnswer(c)
  <2>1. PICK contextId \in NamedContexts(c) : Binds(c, call[c].taskId, contextId)
    BY <1>3 DEF TaskAnswer, BindsAndGoes
  <2>2. call[c].taskId \in Tasks \union {None} /\ contextId \in Contexts \union {None}
    BY AnswerNames
  <2> QED BY <1>3, <2>1, <2>2, BindMoves DEF TaskAnswer
<1>4. CASE StreamEvent(c)
  <2>1. PICK taskId \in Tasks \union {None}, contextId \in Contexts \union {None} :
          Binds(c, taskId, contextId)
    BY <1>4, EventBinds DEF BindsAndGoes
  <2>2. At(c, "streaming") /\ clock' = clock
    BY <1>4, SMTT(20) DEF StreamEvent
  <2>3. Moves
    BY <2>1, <2>2, BindMoves
  <2> QED BY <2>2, <2>3, Zenon
<1>5. CASE StreamEnd(c)
  <2>1. entries' = entries \/ Binds(c, call[c].taskId, call[c].contextId)
    BY <1>5 DEF StreamEnd, BindsAndGoes, registry
  <2>2. Moves
    BY <1>5, <2>1, AnswerNames, BindMoves DEF StreamEnd, Moves
  <2> QED BY <1>5, <2>2 DEF StreamEnd
<1>6. CASE \/ CreateClientFails(c) \/ FetchCard(c) \/ FetchCardFails(c)
           \/ RequestFails(c) \/ ListTargets(c) \/ ListTargetsEnds(c)
  BY <1>6 DEF CreateClientFails, FetchCard, FetchCardFails, RequestFails, ListTargets,
              ListTargetsEnds, registry, Moves
<1> QED BY <1>1, <1>2, <1>3, <1>4, <1>5, <1>6 DEF CallStep

LEMMA StepMoves ==
  ASSUME IInv, [Next]_vars
  PROVE  Moves /\ clock' \in Nat /\ clock' >= clock
<1>1. clock \in Nat /\ restarts \in Nat
  BY DEF IInv, OthersOk
<1>2. ASSUME NEW c \in Calls, CallStep(c) PROVE Moves /\ clock' = clock
  BY <1>2, CallStepMoves
<1>3. CASE (\E b \in Bases : RefreshEnds(b)) \/ UNCHANGED vars
  BY <1>1, <1>3 DEF RefreshEnds, vars, registry, Moves
<1>4. CASE Tick
  BY <1>1, <1>4 DEF Tick, registry, Moves
<1>5. CASE Restart
  <2>1. restarts' # restarts
    BY <1>1, <1>5 DEF Restart
  <2>2. entries' = NoEntries /\ clock' = clock
    BY <1>5 DEF Restart
  <2> QED BY <1>1, <2>1, <2>2 DEF Moves
<1> QED BY <1>1, <1>2, <1>3, <1>4, <1>5 DEF Next, CallStep

\* The registry is within its bound, and no handle was used in the future.
UsedOk ==
  /\ Cardinality(Present(entries)) <= MaxEntries
  /\ \A h \in Present(entries) : entries[h].lastAccessedAt <= clock

LEMMA EntriesStamped ==
  ASSUME IInv
  PROVE  /\ \A h \in Present(entries) : entries[h] \in Records
         /\ Stamped(entries) /\ clock \in Nat /\ 1..created \subseteq Handles
         /\ \A h \in Present(entries) : h < created + 1
<1>1. /\ entries \in Registry /\ clock \in Nat
      /\ \A h \in Handles : h > created => entries[h] = None
      /\ 1..created \subseteq Handles /\ created \in Nat
  BY BoundsAreNatural, RegistryAssumption DEF IInv, RegistryOk, OthersOk, Handles
<1>2. \A h \in Present(entries) : entries[h] \in Records
  BY <1>1 DEF Registry, Present
<1> QED BY <1>1, <1>2 DEF Stamped, Records, Present, Handles

\* What Create and Refresh hand to the eviction.
AfterBinding(h, entry) == [PruneExpired(entries, clock) EXCEPT ![h] = entry]

LEMMA BoundEntries ==
  ASSUME IInv, UsedOk, NEW h \in Handles, NEW target \in Targets, NEW taskId \in Tasks,
         NEW contextId \in Contexts \union {None}
  PROVE  LET entry == Entry(target, taskId, contextId, clock)
             f == AfterBinding(h, entry)
         IN  /\ Stamped(f) /\ f[h] = entry
             /\ \A g \in Present(f) : f[g].lastAccessedAt <= clock
             /\ \A g \in Handles \ {h} : Live(entries, g, clock) => f[g] = entries[g]
             /\ \A g \in Present(f) : g # h => f[g] = entries[g]
<1> DEFINE entry == Entry(target, taskId, contextId, clock)
           f == AfterBinding(h, entry)
<1>1. /\ f[h] = entry /\ f[h].lastAccessedAt = clock
      /\ f[h] # None
  BY EntryType, EntriesStamped, RemoteAgentAssumption DEF PruneExpired, Entry, AfterBinding
<1>2. \A g \in Handles \ {h} :
        f[g] = IF Expired(entries, g, clock) THEN None ELSE entries[g]
  BY DEF PruneExpired, AfterBinding
<1> HIDE DEF f, entry
<1>3. \A g \in Present(f) : g # h => f[g] = entries[g] /\ g \in Present(entries)
  BY <1>2 DEF Present
<1>4. \A g \in Present(f) : f[g].lastAccessedAt \in Nat /\ f[g].lastAccessedAt <= clock
  BY <1>1, <1>3, EntriesStamped DEF Stamped, UsedOk
<1>5. \A g \in Handles \ {h} : Live(entries, g, clock) => f[g] = entries[g]
  BY <1>2 DEF Live
<1> QED BY <1>1, <1>3, <1>4, <1>5 DEF Stamped, f, entry

\* A live handle that is refreshed has the context it is given or had.
LEMMA RefreshKnown ==
  ASSUME IInv, NEW h, Live(entries, h, clock), NEW target, NEW taskId,
         NEW contextId \in Contexts \union {None}
  PROVE  /\ Known(entries, h, contextId) \in Contexts \union {None}
         /\ Refresh(entries, h, target, taskId, contextId, clock) =
              EvictLeastRecentlyUsed([PruneExpired(entries, clock) EXCEPT
                ![h] = Entry(target, taskId, Known(entries, h, contextId), clock)])
<1>1. entries[h] \in Records
  BY LiveEntry DEF IInv, RegistryOk
<1>2. Known(entries, h, contextId) \in Contexts \union {None}
  BY <1>1 DEF Known, Records
<1> QED BY <1>2 DEF Refresh, Known

LEMMA UsedStep ==
  ASSUME IInv, UsedOk, Moves, clock' \in Nat, clock' >= clock
  PROVE  UsedOk'
<1> USE EntriesStamped
<1>1. CASE entries' = entries
  BY <1>1 DEF UsedOk, Stamped
<1>2. CASE entries' = NoEntries
  <2>1. Present(entries') = {}
    BY <1>2 DEF Present, NoEntries
  <2> QED BY <2>1, FS_EmptySet, RegistryAssumption DEF UsedOk
<1>3. ASSUME NEW h, entries' = Resolve(entries, h, clock)
      PROVE  UsedOk'
  <2>1. /\ Present(entries') \subseteq Present(entries)
        /\ \A g \in Present(entries') :
             entries'[g].lastAccessedAt \in {clock, entries[g].lastAccessedAt}
    <3>1. CASE ~Live(entries, h, clock)
      BY <1>3, <3>1 DEF Resolve, PruneExpired, Present
    <3>2. CASE Live(entries, h, clock)
      <4>1. h \in Present(entries) /\ entries[h] \in Records
        BY <3>2 DEF Live
      <4>2. [entries[h] EXCEPT !.lastAccessedAt = clock].lastAccessedAt = clock
        BY <4>1 DEF Records
      <4> QED BY <1>3, <3>2, <4>1, <4>2 DEF Resolve, PruneExpired, Present
    <3> QED BY <3>1, <3>2
  <2>2. Cardinality(Present(entries')) <= Cardinality(Present(entries))
    BY <2>1, PresentFinite, FS_Subset
  <2>3. /\ Cardinality(Present(entries')) \in Nat
        /\ Cardinality(Present(entries)) \in Nat
    BY PresentFinite
  <2> QED BY <2>1, <2>2, <2>3, RegistryAssumption DEF UsedOk, Stamped
<1>4. ASSUME NEW h \in Handles, NEW target \in Targets, NEW taskId \in Tasks,
             NEW contextId \in Contexts \union {None},
             entries' = EvictLeastRecentlyUsed([PruneExpired(entries, clock) EXCEPT
                          ![h] = Entry(target, taskId, contextId, clock)])
      PROVE  UsedOk'
  <2> DEFINE f == AfterBinding(h, Entry(target, taskId, contextId, clock))
  <2>1. Stamped(f) /\ \A g \in Present(f) : f[g].lastAccessedAt <= clock
    BY BoundEntries
  <2>2. entries' = EvictLeastRecentlyUsed(f)
    BY <1>4 DEF AfterBinding
  <2> HIDE DEF f
  <2>3. Cardinality(Present(entries')) <= MaxEntries
    BY <2>1, <2>2, EvictionBounds
  <2>4. \A g \in Present(entries') : g \in Present(f) /\ entries'[g] = f[g]
    BY <2>2 DEF EvictLeastRecentlyUsed, Present
  <2> QED BY <2>1, <2>3, <2>4 DEF UsedOk, Stamped
<1>5. CASE Creates
  BY <1>4, <1>5 DEF Creates, Create
<1>6. CASE Refreshes
  <2>1. PICK h \in 1..created, target \in Targets, taskId \in Tasks,
             contextId \in Contexts \union {None} :
          entries' = Refresh(entries, h, target, taskId, contextId, clock)
    BY <1>6 DEF Refreshes
  <2>2. h \in Handles
    BY <2>1
  <2>3. CASE Live(entries, h, clock)
    <3> DEFINE known == Known(entries, h, contextId)
    <3>1. /\ known \in Contexts \union {None}
          /\ entries' = EvictLeastRecentlyUsed([PruneExpired(entries, clock) EXCEPT
                          ![h] = Entry(target, taskId, known, clock)])
      BY <2>1, <2>3, RefreshKnown
    <3> HIDE DEF known
    <3> QED BY <1>4, <2>2, <3>1
  <2>4. CASE ~Live(entries, h, clock)
    <3>1. Resolve(entries, h, clock) = entries'
      BY <2>1, <2>4 DEF Refresh, Resolve
    <3> QED BY <1>3, <3>1
  <2> QED BY <2>3, <2>4
<1> QED BY <1>1, <1>2, <1>3, <1>5, <1>6 DEF Moves

LEMMA KeptStep ==
  ASSUME IInv, UsedOk, Moves, NEW h \in Handles, Live(entries, h, clock),
         entries'[h] = None, restarts' = restarts
  PROVE  Cardinality({g \in Present(entries') :
           entries'[g].lastAccessedAt >= entries[h].lastAccessedAt}) >= MaxEntries
<1> DEFINE Later == {g \in Present(entries') :
                       entries'[g].lastAccessedAt >= entries[h].lastAccessedAt}
<1>0. /\ h \in Present(entries) /\ entries[h] # None
      /\ entries[h].lastAccessedAt \in Nat /\ entries[h].lastAccessedAt <= clock
      /\ clock \in Nat
  BY EntriesStamped DEF Live, Present, UsedOk, Stamped
<1>1. entries' # entries
  BY <1>0
<1>2. ASSUME NEW k, entries' = Resolve(entries, k, clock) PROVE FALSE
  <2>1. PruneExpired(entries, clock)[h] = entries[h]
    BY DEF PruneExpired, Live
  <2>2. CASE Live(entries, k, clock)
    <3>1. k \in Handles /\ entries[k] \in Records
      BY <2>2, EntriesStamped DEF Live, Present
    <3>2. [entries[k] EXCEPT !.lastAccessedAt = clock] \in Records
      BY <3>1, <1>0 DEF Records
    <3> QED BY <1>0, <1>2, <2>1, <2>2, <3>1, <3>2, RemoteAgentAssumption
            DEF Resolve, Records, PruneExpired
  <2>3. CASE ~Live(entries, k, clock)
    BY <1>0, <1>2, <2>1, <2>3 DEF Resolve
  <2> QED BY <2>2, <2>3
<1>3. ASSUME NEW k \in Handles, NEW target \in Targets, NEW taskId \in Tasks,
             NEW contextId \in Contexts \union {None},
             entries' = EvictLeastRecentlyUsed([PruneExpired(entries, clock) EXCEPT
                          ![k] = Entry(target, taskId, contextId, clock)])
      PROVE  Cardinality(Later) >= MaxEntries
  <2> DEFINE entry == Entry(target, taskId, contextId, clock)
             f == AfterBinding(k, entry)
             Kept == {g \in Present(entries') :
                        entries'[g].lastAccessedAt >= f[h].lastAccessedAt}
  <2>1. /\ Stamped(f) /\ f[k] = entry
        /\ \A g \in Handles \ {k} : Live(entries, g, clock) => f[g] = entries[g]
        /\ \A g \in Present(f) : f[g].lastAccessedAt <= clock
    BY BoundEntries
  <2>2. entry # None /\ entry.lastAccessedAt = clock
    BY <1>0, EntryType, RemoteAgentAssumption DEF Entry
  <2>3. entries' = EvictLeastRecentlyUsed(f)
    BY <1>3 DEF AfterBinding
  <2> HIDE DEF f, entry
  <2>4. h \in Present(f) /\ f[h].lastAccessedAt >= entries[h].lastAccessedAt
    BY <1>0, <2>1, <2>2 DEF Present
  <2>5. Cardinality(Kept) >= MaxEntries
    BY <2>1, <2>3, <2>4, EvictionKeepsRecent
  <2>6. Kept \subseteq Later
    <3>1. \A g \in Present(entries') : g \in Present(f) /\ entries'[g] = f[g]
      BY <2>3 DEF EvictLeastRecentlyUsed, Present
    <3>2. \A g \in Present(entries') : entries'[g].lastAccessedAt \in Nat
      BY <2>1, <3>1 DEF Stamped
    <3>3. f[h].lastAccessedAt \in Nat
      BY <2>1, <2>4 DEF Stamped
    <3> QED BY <1>0, <2>4, <3>2, <3>3
  <2>7. /\ IsFiniteSet(Later) /\ Cardinality(Later) \in Nat
        /\ Cardinality(Kept) \in Nat
    BY PresentFinite
  <2> HIDE DEF Later, Kept
  <2>8. Cardinality(Kept) <= Cardinality(Later)
    BY <2>6, <2>7, FS_Subset
  <2> QED BY <2>5, <2>7, <2>8, RegistryAssumption
<1>4. CASE Creates
  BY <1>3, <1>4 DEF Creates, Create
<1>5. CASE Refreshes
  <2>1. PICK k \in 1..created, target \in Targets, taskId \in Tasks,
             contextId \in Contexts \union {None} :
          entries' = Refresh(entries, k, target, taskId, contextId, clock)
    BY <1>5 DEF Refreshes
  <2>2. k \in Handles
    BY <2>1, EntriesStamped
  <2>3. CASE Live(entries, k, clock)
    <3> DEFINE known == Known(entries, k, contextId)
    <3>1. /\ known \in Contexts \union {None}
          /\ entries' = EvictLeastRecentlyUsed([PruneExpired(entries, clock) EXCEPT
                          ![k] = Entry(target, taskId, known, clock)])
      BY <2>1, <2>3, RefreshKnown
    <3> HIDE DEF known
    <3> QED BY <1>3, <2>2, <3>1
  <2>4. CASE ~Live(entries, k, clock)
    <3>1. entries' = Resolve(entries, k, clock)
      BY <2>1, <2>4 DEF Refresh, Resolve
    <3> QED BY <1>2, <3>1
  <2> QED BY <2>3, <2>4
<1>6. (\E k : entries' = Resolve(entries, k, clock)) \/ Creates \/ Refreshes
  BY <1>1 DEF Moves
<1>7. ~ \E k : entries' = Resolve(entries, k, clock)
  BY <1>2
<1> QED BY <1>4, <1>5, <1>6, <1>7

-----------------------------------------------------------------------------
(* The whole invariant.                                                    *)

\* A call that lists the targets waits for every card that is missing, and
\* the card is being refreshed.
Listing(c) ==
  call[c].pc = "listing" =>
    /\ call[c].taskId = None
    /\ \A b \in ConfiguredBases : cards[b] = None => b \in call[c].waits /\ refreshes[b]

FullInv ==
  /\ IInv /\ UsedOk
  /\ \A c \in Calls : Asks(c) /\ Listing(c)

LEMMA InitFull == Init => FullInv
<1> SUFFICES ASSUME Init PROVE FullInv
  OBVIOUS
<1>1. IInv
  BY InitOk
<1>2. Present(entries) = {}
  BY DEF Init, NoEntries, Present
<1>3. UsedOk
  BY <1>2, FS_EmptySet, RegistryAssumption DEF UsedOk
<1>4. \A c \in Calls : call[c].pc = "idle"
  BY DEF Init, Idle
<1> QED BY <1>1, <1>3, <1>4 DEF FullInv, Asks, Listing, Busy

\* No call removes a card or ends a refresh.
LEMMA CatalogGrows ==
  ASSUME IInv, NEW c \in Calls, CallStep(c)
  PROVE  \A b \in Bases : /\ cards'[b] = None => cards[b] = None
                          /\ refreshes[b] => refreshes'[b]
<1>1. CASE FetchCard(c)
  <2>1. PICK streaming \in {"yes", "no"} :
          cards' = [cards EXCEPT ![call[c].target.base] =
                     [streaming |-> streaming, error |-> FALSE]]
    BY <1>1 DEF FetchCard
  <2> DEFINE card == [streaming |-> streaming, error |-> FALSE]
  <2>3. card # None
    <3>1. card \in CardRecords
      BY DEF CardRecords
    <3> QED BY <3>1, RemoteAgentAssumption
  <2>2. cards \in [Bases -> CardRecords \union {None}] /\ refreshes' = refreshes
    BY <1>1 DEF FetchCard, IInv, OthersOk
  <2> HIDE DEF card
  <2> QED BY <2>1, <2>2, <2>3 DEF card
<1>2. CASE ListTargets(c)
  <2>1. cards' = cards
    BY <1>2 DEF ListTargets
  <2>2. \A b \in Bases : refreshes[b] => refreshes'[b]
    BY <1>2 DEF ListTargets
  <2> QED BY <2>1, <2>2
<1>3. CASE ~FetchCard(c) /\ ~ListTargets(c)
  <2>1. cards' = cards /\ refreshes' = refreshes
    BY <1>3 DEF CallStep, Begin, CreateClientFails, FetchCardFails, SendAnswer, TaskAnswer,
                StreamEvent, StreamEnd, RequestFails, ListTargetsEnds, catalog
  <2> QED BY <2>1
<1> QED BY <1>1, <1>2, <1>3

LEMMA BasesConfigured == ConfiguredBases \subseteq Bases
  BY RemoteAgentAssumption DEF ConfiguredBases, Bases

LEMMA ListTargetsListing ==
  ASSUME IInv, NEW c \in Calls, ListTargets(c)
  PROVE  Listing(c)'
<1>1. call'[c].waits = Uncached /\ call'[c].taskId = None
  BY DEF ListTargets, Idle, IInv
<1>2. cards' = cards
  BY DEF ListTargets
<1>3. \A b \in Uncached : refreshes'[b]
  <2> TAKE b \in Uncached
  <2>1. b \in Bases
    BY BasesConfigured DEF Uncached
  <2> QED BY <2>1 DEF ListTargets
<1> QED BY <1>1, <1>2, <1>3 DEF Listing, Uncached

LEMMA CallStepFull ==
  ASSUME FullInv, NEW c \in Calls, CallStep(c)
  PROVE  \A d \in Calls : Asks(d)' /\ Listing(d)'
<1>1. Changes(c)
  BY CallStepChanges DEF FullInv
<1>2. Asks(c)' /\ Listing(c)'
  <2>1. CASE call'[c].pc = "listing"
    BY <1>1, <2>1, ListTargetsListing DEF Changes, FullInv
  <2>2. CASE call'[c].pc # "listing"
    BY <1>1, <2>2 DEF Changes, Listing
  <2> QED BY <2>1, <2>2
<1>3. ASSUME NEW d \in Calls \ {c} PROVE Asks(d)' /\ Listing(d)'
  <2>1. call'[d] = call[d]
    BY <1>1 DEF Changes
  <2>2. Asks(d) /\ Listing(d)
    BY DEF FullInv
  <2>3. \A b \in ConfiguredBases : /\ cards'[b] = None => cards[b] = None
                                   /\ refreshes[b] => refreshes'[b]
    BY CatalogGrows, BasesConfigured DEF FullInv
  <2> QED BY <2>1, <2>2, <2>3 DEF Asks, Listing
<1> QED BY <1>2, <1>3

LEMMA FullStep == FullInv /\ [Next]_vars => FullInv'
<1> SUFFICES ASSUME FullInv, [Next]_vars PROVE FullInv'
  OBVIOUS
<1>1. IInv'
  BY EveryStepOk, StepKeepsInvariant DEF FullInv
<1>2. UsedOk'
  BY StepMoves, UsedStep DEF FullInv
<1>3. \A d \in Calls : Asks(d) /\ Listing(d)
  BY DEF FullInv
<1>4. ASSUME NEW c \in Calls, CallStep(c) PROVE \A d \in Calls : Asks(d)' /\ Listing(d)'
  BY <1>4, CallStepFull
<1>5. ASSUME NEW b \in Bases, RefreshEnds(b) PROVE \A d \in Calls : Asks(d)' /\ Listing(d)'
  <2>1. cards'[b] # None /\ \A a \in Bases \ {b} : cards'[a] = cards[a]
    <3>1. PICK card \in CardRecords : cards' = [cards EXCEPT ![b] = card]
      BY <1>5 DEF RefreshEnds, CardRecords
    <3> QED BY <3>1, RemoteAgentAssumption DEF FullInv, IInv, OthersOk
  <2>2. \A a \in Bases \ {b} : refreshes'[a] = refreshes[a]
    BY <1>5 DEF RefreshEnds, FullInv, IInv, OthersOk
  <2>3. call' = call
    BY <1>5 DEF RefreshEnds
  <2> QED BY <1>3, <2>1, <2>2, <2>3, BasesConfigured DEF Asks, Listing
<1>6. ASSUME Tick \/ UNCHANGED vars PROVE \A d \in Calls : Asks(d)' /\ Listing(d)'
  <2>1. call' = call /\ cards' = cards /\ refreshes' = refreshes
    BY <1>6 DEF Tick, vars, catalog
  <2> QED BY <1>3, <2>1 DEF Asks, Listing
<1>7. ASSUME Restart PROVE \A d \in Calls : Asks(d)' /\ Listing(d)'
  <2>1. \A d \in Calls : call'[d].pc \in Ended \union {"idle"}
    <3> TAKE d \in Calls
    <3>1. CASE call[d].pc \in Ended \union {"idle"}
      BY <1>7, <3>1 DEF Restart
    <3>2. CASE call[d].pc \notin Ended \union {"idle"}
      BY <1>7, <3>2 DEF Restart, Idle, Ended
    <3> QED BY <3>1, <3>2
  <2> QED BY <2>1 DEF Asks, Listing, Busy, Ended
<1>8. \A d \in Calls : Asks(d)' /\ Listing(d)'
  BY <1>4, <1>5, <1>6, <1>7 DEF Next, CallStep
<1> QED BY <1>1, <1>2, <1>8 DEF FullInv

\* The step that answers a call is a step of it.
LEMMA AnswerIsOwn ==
  ASSUME FullInv, [Next]_vars, NEW c \in Calls, Answered(c)
  PROVE  \/ At(c, "streaming") /\ call[c].action = "strict_stream"
         \/ BindsAnswer(c)
         \/ ListTargetsEnds(c)
<1>1. CASE CallStep(c)
  <2>1. Changes(c)
    BY <1>1, CallStepChanges DEF FullInv
  <2>2. ~ListTargets(c)
    BY DEF FullInv, IInv, Answered, ListTargets, Idle
  <2> QED BY <2>1, <2>2 DEF Changes, Outcome, Answered
<1>2. ASSUME NEW d \in Calls \ {c}, CallStep(d) PROVE FALSE
  <2>1. Changes(d)
    BY <1>2, CallStepChanges DEF FullInv
  <2> QED BY <2>1 DEF Changes, Answered
<1>3. CASE (\E b \in Bases : RefreshEnds(b)) \/ Tick \/ UNCHANGED vars
  BY <1>3 DEF RefreshEnds, Tick, vars, Answered
<1>4. CASE Restart
  <2>1. CASE call[c].pc \in Ended \union {"idle"}
    BY <1>4, <2>1 DEF Restart, Answered
  <2>2. CASE call[c].pc \notin Ended \union {"idle"}
    BY <1>4, <2>2 DEF Restart, Idle, Answered
  <2> QED BY <2>1, <2>2
<1> QED BY <1>1, <1>2, <1>3, <1>4 DEF Next, CallStep

LEMMA AnswerUsable ==
  ASSUME FullInv, [Next]_vars, NEW c \in Calls, Answered(c), call'[c].taskId # None,
         call[c].pc = "streaming" => call[c].action # "strict_stream"
  PROVE  LET h == call'[c].handle
         IN  /\ h # None /\ Live(entries', h, clock)
             /\ entries'[h].taskId = call'[c].taskId
             /\ entries'[h].target = call'[c].target
             /\ call'[c].contextId \in {None, entries'[h].contextId}
<1>0. call[c] \in CallRecords /\ CallOk(c) /\ IInv /\ UsedOk /\ Listing(c)
  BY DEF FullInv, IInv
<1>1. ~ListTargetsEnds(c)
  <2> SUFFICES ASSUME ListTargetsEnds(c) PROVE FALSE
    OBVIOUS
  <2>1. call'[c].taskId = call[c].taskId /\ call[c].pc = "listing"
    BY <1>0 DEF ListTargetsEnds, Goes, CallRecords, IInv, At
  <2> QED BY <1>0, <2>1 DEF Listing
<1>2. PICK taskId \in Tasks \union {None}, contextId \in Contexts \union {None},
           events \in 0..MaxEvents :
        /\ At(c, "requesting") \/ At(c, "streaming")
        /\ BindsAndGoes(c, taskId, contextId, contextId, "answered", events)
  BY <1>1, AnswerIsOwn DEF BindsAnswer, At
<1> DEFINE target == call[c].target
           handle == call[c].handle
           bound == Bind(target, taskId, contextId, handle)
<1>3. bound.error = None
  <2> SUFFICES ASSUME bound.error # None PROVE FALSE
    OBVIOUS
  <2>1. call' = Fails(c, bound.error)
    BY <1>2 DEF BindsAndGoes
  <2> HIDE DEF bound
  <2>2. call'[c].pc = "failed"
    BY <1>0, <2>1 DEF Fails, Failed, Idle, IInv
  <2> QED BY <2>2 DEF Answered
<1>4. /\ call'[c].taskId = taskId /\ call'[c].handle = bound.handle
      /\ call'[c].target = target /\ call'[c].contextId = contextId
  <2>1. call' = Finishes(c, taskId, contextId, bound.handle)
    BY <1>2, <1>3 DEF BindsAndGoes
  <2> HIDE DEF bound
  <2> QED BY <1>0, <2>1 DEF Finishes, Idle, IInv
<1>5. /\ target \in Targets /\ taskId \in Tasks /\ clock \in Nat
      /\ handle \in {None} \union 1..created /\ 1..created \subseteq Handles
  BY <1>0, <1>2, <1>4, EntriesStamped DEF CallOk, At
<1>6. ASSUME NEW context \in Contexts \union {None}
      PROVE  /\ Entry(target, taskId, context, clock) # None
             /\ Entry(target, taskId, context, clock).expiresAt > clock
             /\ Entry(target, taskId, context, clock).expiresAt \in Nat
             /\ Entry(target, taskId, context, clock).target = target
             /\ Entry(target, taskId, context, clock).taskId = taskId
             /\ Entry(target, taskId, context, clock).contextId = context
  BY <1>5, EntryType, RegistryAssumption, RemoteAgentAssumption DEF Entry
<1>7. PICK context \in Contexts \union {None} :
        /\ bound.handle \in Handles /\ contextId \in {None, context}
        /\ entries'[bound.handle] = Entry(target, taskId, context, clock)
  <2>1. /\ Cardinality(Present(entries)) <= MaxEntries
        /\ \A g \in Present(entries) : /\ entries[g].lastAccessedAt \in Nat
                                       /\ entries[g].lastAccessedAt <= clock
    BY <1>0, EntriesStamped DEF UsedOk, Stamped
  <2>2. entries' = bound.entries /\ CanBind(taskId, handle)
    BY <1>2 DEF BindsAndGoes, Binds
  <2>3. CASE handle = None
    <3> DEFINE n == created + 1
    <3>1. bound = [entries |-> Create(entries, n, target, taskId, contextId, clock),
                   created |-> n, handle |-> n, error |-> None]
      BY <1>4, <2>3 DEF Bind
    <3>2. n \in Handles
      BY <1>0, <1>4, <2>2, <2>3, RegistryAssumption
         DEF CanBind, Handles, IInv, RegistryOk
    <3>3. Newest(entries, n)
      BY <1>0, EntriesStamped DEF Newest
    <3>4. EvictLeastRecentlyUsed([PruneExpired(entries, clock) EXCEPT
            ![n] = Entry(target, taskId, contextId, clock)])[n]
            = Entry(target, taskId, contextId, clock)
      <4> HIDE DEF n, target
      <4> QED BY <1>5, <2>1, <3>2, <3>3, BoundHandleStays
    <3>5. Create(entries, n, target, taskId, contextId, clock)[n]
            = Entry(target, taskId, contextId, clock)
      BY <3>4 DEF Create
    <3> HIDE DEF n
    <3> QED BY <2>2, <3>1, <3>2, <3>5
  <2>4. CASE handle # None
    <3> DEFINE error == IF Live(entries, handle, clock) THEN None
                        ELSE LookupError(entries, handle, clock)
               known == Known(entries, handle, contextId)
    <3>1. bound = [entries |-> Refresh(entries, handle, target, taskId, contextId, clock),
                   created |-> created, handle |-> handle, error |-> error]
      BY <1>4, <2>4 DEF Bind
    <3>2. error = None
      BY <1>3, <3>1
    <3>3. Live(entries, handle, clock)
      <4>1. LookupError(entries, handle, clock) # None
        BY RemoteAgentAssumption DEF LookupError, Errors
      <4> QED BY <3>2, <4>1
    <3>4. handle \in Handles /\ handle \in Present(entries)
      BY <1>5, <2>4, <3>3 DEF Live
    <3>5. /\ known \in Contexts \union {None}
          /\ Refresh(entries, handle, target, taskId, contextId, clock) =
               EvictLeastRecentlyUsed([PruneExpired(entries, clock) EXCEPT
                 ![handle] = Entry(target, taskId, known, clock)])
      BY <1>0, <3>3, RefreshKnown
    <3>6. contextId \in {None, known}
      BY DEF Known
    <3>7. EvictLeastRecentlyUsed([PruneExpired(entries, clock) EXCEPT
            ![handle] = Entry(target, taskId, known, clock)])[handle]
            = Entry(target, taskId, known, clock)
      <4> HIDE DEF target, handle, known
      <4> QED BY <1>5, <2>1, <3>4, BoundHandleStays
    <3> HIDE DEF known
    <3> QED BY <2>2, <3>1, <3>4, <3>5, <3>6, <3>7
  <2> QED BY <2>3, <2>4
<1> HIDE DEF bound
<1> DEFINE entry == Entry(target, taskId, context, clock)
<1>8. /\ entry # None /\ entry.expiresAt > clock /\ entry.expiresAt \in Nat
      /\ entry.target = target /\ entry.taskId = taskId /\ entry.contextId = context
  BY <1>6
<1> HIDE DEF entry
<1>9. entries'[bound.handle] = entry
  BY <1>7 DEF entry
<1>10. bound.handle # None
  BY <1>7, HandlesAreNumbers
<1>11. Live(entries', bound.handle, clock)
  <2>1. bound.handle \in Present(entries')
    BY <1>7, <1>8, <1>9 DEF Present
  <2>2. ~(entries'[bound.handle].expiresAt <= clock)
    BY <1>5, <1>8, <1>9
  <2> QED BY <2>1, <2>2 DEF Live, Expired
<1> QED BY <1>4, <1>7, <1>8, <1>9, <1>10, <1>11

LEMMA TargetsListed ==
  ASSUME FullInv, [Next]_vars, NEW c \in Calls, Answered(c),
         call[c].action = "list_targets"
  PROVE  \A b \in ConfiguredBases : cards[b] # None
<1>1. Asks(c) /\ Listing(c)
  BY DEF FullInv
<1>2. ListTargetsEnds(c)
  BY <1>1, AnswerIsOwn DEF Asks, Busy, BindsAnswer, At
<1> QED BY <1>1, <1>2 DEF ListTargetsEnds, Listing, At

-----------------------------------------------------------------------------
(* The theorems.                                                           *)

LEMMA Inductive == Spec => []FullInv
  BY InitFull, FullStep, PTL DEF Spec

LEMMA FullInvImplies == FullInv => IInv
  BY DEF FullInv

\* Every variable of the outbound service keeps its shape: a resolution, a
\* binding and a restart leave records, handles and calls the next operation
\* can use, and a handle that was not created names nothing.
THEOREM TypeCorrect == Spec => []TypeOK
<1>1. FullInv => TypeOK
  BY FullInvImplies, IInvImplies
<1> QED BY <1>1, Inductive, PTL

\* The registry never holds more than maxEntries handles
\* (evictLeastRecentlyUsedEntries runs in every create and refresh).
THEOREM RegistryBounded == Spec => [](Cardinality(Present(entries)) <= MaxEntries)
<1>1. FullInv => Cardinality(Present(entries)) <= MaxEntries
  BY DEF FullInv, UsedOk
<1> QED BY <1>1, Inductive, PTL

\* A continuation that is passed on is never refused because its handle
\* expired, was evicted or went with the process (resolveTaskContext): only
\* when the handle was bound to another task or another conversation.
THEOREM ContinuationsHonouredCorrect == Spec => []ContinuationsHonoured
<1>1. FullInv => ContinuationsHonoured
  BY FullInvImplies, IInvImplies
<1> QED BY <1>1, Inductive, PTL

\* A call with a continuation reaches the peer and the task the continuation
\* names, in the conversation it names, for any number of calls and any mixture
\* of them.
THEOREM RoutedCorrect == Spec => RoutedAsContinued
<1>1. FullInv /\ [Next]_vars =>
        [\A c \in Calls :
           LET k == call[c].continuation
           IN  ~call[c].sent /\ call'[c].sent /\ k # None =>
                 /\ call'[c].target = k.target
                 /\ call'[c].taskId = k.taskId
                 /\ call'[c].contextId = k.contextId \/ k.contextId = None]_vars
  BY FullInvImplies, EveryStepOk, StepIsRouted DEF Forward, Follows
<1> QED BY <1>1, Inductive, PTL DEF Spec, RoutedAsContinued

\* A task handle keeps its peer as long as the registry holds it, however
\* often it is bound again and whatever target is named beside it.
THEOREM HandleTargetCorrect == Spec => HandleTargetKept
<1>1. FullInv /\ [Next]_vars =>
        [\A h \in Handles :
           entries[h] # None /\ entries'[h] # None =>
             entries'[h].target = entries[h].target]_vars
  BY FullInvImplies, EveryStepOk, StepIsRouted
<1> QED BY <1>1, Inductive, PTL DEF Spec, HandleTargetKept

\* The handle a call reports with its task is live and names this task at the
\* peer that was asked: its own binding never evicts it, however full the
\* registry is and whatever other calls created while it waited.
THEOREM AnsweredHandleCorrect == Spec => AnsweredHandleUsable
<1>1. FullInv /\ [Next]_vars =>
        [\A c \in Calls :
           /\ Answered(c) /\ call'[c].taskId # None
           /\ call[c].pc = "streaming" => call[c].action # "strict_stream"
           => LET h == call'[c].handle
              IN  /\ h # None /\ Live(entries', h, clock)
                  /\ entries'[h].taskId = call'[c].taskId
                  /\ entries'[h].target = call'[c].target
                  /\ call'[c].contextId \in {None, entries'[h].contextId}]_vars
  BY AnswerUsable
<1> QED BY <1>1, Inductive, PTL DEF Spec, AnsweredHandleUsable

\* A handle that has not expired is dropped only for as many handles as the
\* registry may hold, all used at the same time or later.
THEOREM LiveHandlesCorrect == Spec => LiveHandlesKept
<1>1. FullInv /\ [Next]_vars =>
        [\A h \in Handles :
           Live(entries, h, clock) /\ entries'[h] = None /\ restarts' = restarts =>
             Cardinality({g \in Present(entries') :
               entries'[g].lastAccessedAt >= entries[h].lastAccessedAt}) >= MaxEntries]_vars
  BY FullInvImplies, StepMoves, KeptStep DEF FullInv
<1> QED BY <1>1, Inductive, PTL DEF Spec, LiveHandlesKept

\* list_targets answers when every configured target has a card or an error,
\* although the refreshes it waits for were started by other calls.
THEOREM ListedTargetsCorrect == Spec => ListedTargetsKnown
<1>1. FullInv /\ [Next]_vars =>
        [\A c \in Calls :
           Answered(c) /\ call[c].action = "list_targets" =>
             \A b \in ConfiguredBases : cards[b] # None]_vars
  BY TargetsListed
<1> QED BY <1>1, Inductive, PTL DEF Spec, ListedTargetsKnown
=============================================================================
