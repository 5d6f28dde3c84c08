-------------------------- MODULE PluginHostProofs --------------------------
(***************************************************************************)
(* Theorems about the writer lock of a task directory and the host that    *)
(* opens its stores.  Without any condition, the entry of a process counts *)
(* the stores that share it.  One writer at a time, with the lock file its *)
(* own, follows when no holder outlives staleMs and no two stores are      *)
(* about to reclaim a lock at once: the two steps of a reclaim, looking at *)
(* the lock and removing what is at its path, are then as one.  Stores     *)
(* that lost their lock to a signal their process survived are out of it.  *)
(***************************************************************************)
EXTENDS PluginHost, FiniteSetTheorems, TLAPS

\* What follows the creation of the lock.
Past == {"holding", "releasing", "released"}

\* The store an entry is named after belongs to the process and is past the
\* creation of its lock.
EntriesOwned ==
  /\ \A a \in Stores : store[a].entry # None =>
       ProcessOf[store[a].entry] = ProcessOf[a] /\ store[store[a].entry].pc \in Past
  /\ \A p \in Processes : held[p] # None =>
       ProcessOf[held[p].by] = p /\ store[held[p].by].pc \in Past

\* Nothing is left of a process that died, save the file.
DeadRest ==
  /\ \A a \in Stores : ProcessOf[a] \notin up => store[a].pc = "idle"
  /\ \A p \in Processes : p \notin up => held[p] = None

FileNamesOwner == file # None => file.owner = ProcessOf[file.by]

\* The part of the inductive invariant that holds without any condition.
CountInv == TypeOK /\ EntriesOwned /\ CountsStores /\ DeadRest /\ FileNamesOwner

-----------------------------------------------------------------------------
LEMMA SharersFinite ==
  \A p : IsFiniteSet(Sharers(p)) /\ Cardinality(Sharers(p)) \in 0..Cardinality(Stores)
<1> SUFFICES ASSUME NEW p
             PROVE  IsFiniteSet(Sharers(p)) /\ Cardinality(Sharers(p)) \in 0..Cardinality(Stores)
  OBVIOUS
<1>1. Sharers(p) \in SUBSET Stores
  BY DEF Sharers
<1>2. IsFiniteSet(Stores) /\ Cardinality(Stores) \in Nat
  BY LockAssumption, FS_CardinalityType
<1>3. IsFiniteSet(Sharers(p)) /\ Cardinality(Sharers(p)) <= Cardinality(Stores)
  BY <1>1, <1>2, FS_Subset
<1>4. Cardinality(Sharers(p)) \in Nat
  BY <1>3, FS_CardinalityType
<1> QED BY <1>2, <1>3, <1>4

\* A step of a store that neither opens nor closes it, and that leaves the
\* entries alone, shares nothing.
LEMMA WaitingShares ==
  ASSUME CountInv, UNCHANGED <<held, up, signalled>>, NEW a \in Stores, NEW pc \in Pcs,
         store' = Goes(a, pc), store[a].pc \notin Past, pc \notin Past,
         ProcessOf[a] \in up,
         file' \in Files \union {None}, FileNamesOwner'
  PROVE  CountInv'
<1>1. TypeOK'
  BY LockAssumption DEF CountInv, TypeOK, Goes, Pcs, signalled
<1>2. /\ \A b \in Stores : store'[b].entry = store[b].entry
      /\ \A b \in Stores : store[b].pc \in Past => store'[b].pc = store[b].pc
      /\ \A b \in Stores : store'[b].pc \in Past => store'[b].pc = store[b].pc
      /\ \A b \in Stores : ProcessOf[b] \notin up => store'[b].pc = store[b].pc
  BY DEF CountInv, TypeOK, Goes
<1>3. EntriesOwned'
  BY <1>2 DEF CountInv, EntriesOwned, TypeOK, Entries
<1>4. \A p \in Processes : Sharers(p)' = Sharers(p)
  BY <1>2 DEF Sharers, Holding, Past
<1>5. CountsStores' /\ DeadRest'
  BY <1>2, <1>4 DEF CountInv, CountsStores, DeadRest
<1> QED BY <1>1, <1>3, <1>5 DEF CountInv

-----------------------------------------------------------------------------
\* The entry of a store that takes a share.
LEMMA SharerJoins ==
  ASSUME CountInv, NEW a \in Stores, Acquire(a), held[ProcessOf[a]] # None
  PROVE  LET p == ProcessOf[a] IN
         /\ store' = [store EXCEPT ![a] = [pc |-> "holding", entry |-> held[p].by]]
         /\ held' \in [Processes -> Entries \union {None}] /\ held'[p] \in Entries
         /\ held'[p].by = held[p].by /\ ~held[p].releasing /\ ~held'[p].releasing
         /\ held'[p].count = Cardinality(Sharers(p) \union {a})
         /\ Sharers(p)' = Sharers(p) \union {a}
         /\ \A q \in Processes \ {p} : held'[q] = held[q]
<1> DEFINE p == ProcessOf[a]
           n == held[p].count + 1
<1>1. /\ p \in Processes /\ store[a].pc = "idle" /\ ~held[p].releasing
      /\ held' = [held EXCEPT ![p].count = @ + 1]
      /\ store' = [store EXCEPT ![a] = [pc |-> "holding", entry |-> held[p].by]]
  BY LockAssumption DEF Acquire, At, EntryOf
<1>2. held[p] \in Entries /\ held \in [Processes -> Entries \union {None}]
  BY <1>1 DEF CountInv, TypeOK
<1>3. held[p].count = Cardinality(Sharers(p)) /\ a \notin Sharers(p)
  BY <1>1 DEF CountInv, CountsStores, Sharers, Holding
<1>4. n = Cardinality(Sharers(p) \union {a})
  BY <1>3, SharersFinite, FS_AddElement
<1>5. n \in 0..Cardinality(Stores)
  <2>1. Sharers(p) \union {a} \in SUBSET Stores
    BY DEF Sharers
  <2>2. /\ IsFiniteSet(Sharers(p) \union {a}) /\ Cardinality(Stores) \in Nat
        /\ Cardinality(Sharers(p) \union {a}) <= Cardinality(Stores)
    BY <2>1, LockAssumption, FS_Subset, FS_CardinalityType
  <2>3. Cardinality(Sharers(p) \union {a}) \in Nat
    BY <2>2, FS_CardinalityType
  <2> QED BY <1>4, <2>2, <2>3
<1>6. /\ held'[p] = [held[p] EXCEPT !.count = n]
      /\ \A q \in Processes \ {p} : held'[q] = held[q]
  BY <1>1, <1>2
<1>7. /\ held'[p] \in Entries /\ held'[p].by = held[p].by /\ held'[p].count = n
      /\ held'[p].releasing = held[p].releasing
  BY <1>2, <1>5, <1>6 DEF Entries
<1>8. held' \in [Processes -> Entries \union {None}]
  BY <1>1, <1>2, <1>6, <1>7
<1>9. Sharers(p)' = Sharers(p) \union {a}
  BY <1>1, <1>2, <1>7 DEF CountInv, TypeOK, Sharers, Holding, Entries
<1> QED BY <1>1, <1>4, <1>6, <1>7, <1>8, <1>9

LEMMA AcquireCounts ==
  ASSUME CountInv, NEW a \in Stores, Acquire(a)
  PROVE  CountInv'
<1> DEFINE p == ProcessOf[a]
<1>1. p \in Processes /\ p \in up /\ store[a].pc = "idle"
      /\ UNCHANGED <<file, up, signalled>>
  BY LockAssumption DEF Acquire, At
<1>2. CASE held[p] = None
  <2>1. store' = Goes(a, "opening") /\ UNCHANGED held
    BY <1>2 DEF Acquire, EntryOf
  <2>2. FileNamesOwner' /\ file' \in Files \union {None}
    BY <1>1 DEF CountInv, FileNamesOwner, TypeOK
  <2> QED BY <1>1, <2>1, <2>2, WaitingShares DEF Past, Pcs
<1>3. CASE held[p] # None
  <2>1. /\ store' = [store EXCEPT ![a] = [pc |-> "holding", entry |-> held[p].by]]
        /\ held' \in [Processes -> Entries \union {None}] /\ held'[p] \in Entries
        /\ held'[p].by = held[p].by /\ held'[p].count = Cardinality(Sharers(p)')
        /\ \A q \in Processes \ {p} : held'[q] = held[q]
    BY <1>3, SharerJoins
  <2>2. held[p].by \in Stores
    BY <1>1, <1>3 DEF CountInv, TypeOK, Entries
  <2>3. \A q \in Processes \ {p} : Sharers(q)' = Sharers(q)
    BY <1>1, <2>1 DEF CountInv, TypeOK, Sharers, Holding
  <2>4. CountsStores'
    BY <1>1, <2>1, <2>3 DEF CountInv, CountsStores
  <2>5. TypeOK'
    BY <1>1, <2>1, <2>2 DEF CountInv, TypeOK, Pcs, signalled
  <2>6. EntriesOwned'
    BY <1>1, <1>3, <2>1, <2>2 DEF CountInv, EntriesOwned, TypeOK, Past, Entries
  <2>7. DeadRest' /\ FileNamesOwner'
    BY <1>1, <2>1 DEF CountInv, DeadRest, FileNamesOwner, TypeOK
  <2> QED BY <2>4, <2>5, <2>6, <2>7 DEF CountInv
<1> QED BY <1>2, <1>3

\* Open, Inspect, CheckAge, Reclaim and GivesUp, and a write that fails.
LEMMA WaitingCounts ==
  ASSUME CountInv, NEW a \in Stores,
         Open(a) \/ WriteFails(a) \/ Inspect(a) \/ CheckAge(a) \/ Reclaim(a) \/ GivesUp(a)
  PROVE  CountInv'
<1>1. ProcessOf[a] \in Processes
  BY LockAssumption
<1>2. CASE Open(a) /\ file = None
  <2>1. /\ file' = [by |-> a, owner |-> ProcessOf[a], written |-> FALSE, old |-> FALSE]
        /\ store' = Goes(a, "writing") /\ UNCHANGED <<held, up, signalled>>
        /\ store[a].pc \notin Past /\ ProcessOf[a] \in up
    BY <1>2 DEF Open, At, Past
  <2>2. FileNamesOwner' /\ file' \in Files
    BY <1>1, <2>1 DEF FileNamesOwner, Files
  <2> QED BY <2>1, <2>2, WaitingShares DEF Past, Pcs
<1>3. CASE ~(Open(a) /\ file = None)
  <2>1. PICK pc \in Pcs \ Past : store' = Goes(a, pc)
    BY <1>3 DEF Open, WriteFails, Inspect, CheckAge, Reclaim, GivesUp, Pcs, Past
  <2>2. /\ file' \in {file, None} /\ UNCHANGED <<held, up, signalled>>
        /\ store[a].pc \notin Past /\ ProcessOf[a] \in up
    BY <1>3 DEF Open, WriteFails, Inspect, CheckAge, Reclaim, GivesUp, At, Past
  <2>3. FileNamesOwner' /\ file' \in Files \union {None}
    BY <2>2 DEF CountInv, FileNamesOwner, TypeOK
  <2> QED BY <2>1, <2>2, <2>3, WaitingShares
<1> QED BY <1>2, <1>3

LEMMA NewEntry ==
  \A a \in Stores : LET h == [by |-> a, count |-> 1, releasing |-> FALSE]
                     IN  h \in Entries /\ h # None
<1> SUFFICES ASSUME NEW a \in Stores
             PROVE  [by |-> a, count |-> 1, releasing |-> FALSE] \in Entries
  BY LockAssumption
<1>1. IsFiniteSet(Stores) /\ Cardinality(Stores) \in Nat
  BY LockAssumption, FS_CardinalityType
<1>2. Cardinality(Stores) # 0
  BY <1>1, FS_EmptySet
<1> QED BY <1>1, <1>2 DEF Entries

LEMMA WriteCounts ==
  ASSUME CountInv, NEW a \in Stores, WritePayload(a)
  PROVE  CountInv'
<1> DEFINE p == ProcessOf[a]
<1>1. /\ p \in Processes /\ p \in up /\ store[a].pc = "writing"
      /\ file' = IF file # None /\ file.by = a THEN [file EXCEPT !.written = TRUE] ELSE file
      /\ held' = [held EXCEPT ![p] = [by |-> a, count |-> 1, releasing |-> FALSE]]
      /\ store' = [store EXCEPT ![a] = [pc |-> "holding", entry |-> a]]
      /\ UNCHANGED <<up, signalled>>
  BY LockAssumption DEF WritePayload, At
<1>3. file' \in Files \union {None} /\ FileNamesOwner'
  BY <1>1, LockAssumption DEF CountInv, FileNamesOwner, TypeOK, Files
<1>4. held' \in [Processes -> Entries \union {None}]
  BY <1>1, NewEntry DEF CountInv, TypeOK
<1>5. TypeOK'
  BY <1>1, <1>3, <1>4 DEF CountInv, TypeOK, Pcs, signalled
<1>6. \A b \in Stores : store[b].entry # a
  BY <1>1, LockAssumption DEF CountInv, EntriesOwned, Past
<1>7. Sharers(p)' = {a}
  BY <1>1, <1>6 DEF CountInv, TypeOK, Sharers, Holding
<1>8. \A q \in Processes \ {p} : Sharers(q)' = Sharers(q)
  BY <1>1 DEF CountInv, TypeOK, Sharers, Holding
<1>9. CountsStores'
  BY <1>1, <1>7, <1>8, FS_Singleton DEF CountInv, CountsStores, TypeOK
<1>10. EntriesOwned'
  BY <1>1, <1>6 DEF CountInv, EntriesOwned, TypeOK, Past, Entries
<1>11. DeadRest'
  BY <1>1 DEF CountInv, DeadRest, TypeOK
<1> QED BY <1>3, <1>5, <1>9, <1>10, <1>11 DEF CountInv

\* The entry of a store that gives up its share.
LEMMA SharerLeaves ==
  ASSUME CountInv, NEW a \in Stores, Release(a),
         held[ProcessOf[a]] # None, held[ProcessOf[a]].by = store[a].entry
  PROVE  LET p == ProcessOf[a] IN
         /\ held' \in [Processes -> Entries \union {None}] /\ held'[p] \in Entries
         /\ held'[p].by = held[p].by /\ held'[p].releasing = (held[p].count = 1)
         /\ held'[p].count = Cardinality(Sharers(p) \ {a})
         /\ held[p].count = 1 <=> Sharers(p) = {a}
         /\ \A q \in Processes \ {p} : held'[q] = held[q]
<1> DEFINE p == ProcessOf[a]
           last == held[p].count = 1
           n == held[p].count - 1
<1>1. p \in Processes /\ store[a].pc = "holding"
  BY LockAssumption DEF Release, At
<1>2. held[p] \in Entries /\ held \in [Processes -> Entries \union {None}]
  BY <1>1 DEF CountInv, TypeOK
<1>3. held[p].count = Cardinality(Sharers(p)) /\ a \in Sharers(p)
  BY <1>1 DEF CountInv, CountsStores, Sharers, Holding
<1>4. /\ IsFiniteSet(Sharers(p) \ {a})
      /\ Cardinality(Sharers(p) \ {a}) = Cardinality(Sharers(p)) - 1
  BY <1>3, SharersFinite, FS_RemoveElement
<1>5. Cardinality(Sharers(p) \ {a}) \in Nat /\ Cardinality(Stores) \in Nat
  BY <1>4, LockAssumption, FS_CardinalityType
<1>6. n \in 0..Cardinality(Stores) /\ last \in BOOLEAN
  BY <1>2, <1>3, <1>4, <1>5 DEF Entries
<1>7. held' = [held EXCEPT ![p].count = @ - 1, ![p].releasing = last]
  BY DEF Release
<1>8. held' = [held EXCEPT ![p].count = n, ![p].releasing = last]
  BY <1>7, Zenon
<1>9. last <=> Sharers(p) = {a}
  <2>1. last <=> Cardinality(Sharers(p) \ {a}) = 0
    BY <1>2, <1>3, <1>4 DEF Entries
  <2>2. Cardinality(Sharers(p) \ {a}) = 0 <=> Sharers(p) \ {a} = {}
    BY <1>4, FS_EmptySet
  <2> QED BY <1>3, <2>1, <2>2
<1> HIDE DEF p, n, last
<1>10. /\ held' \in [Processes -> Entries \union {None}] /\ held'[p] \in Entries
       /\ held'[p].by = held[p].by /\ held'[p].count = n /\ held'[p].releasing = last
       /\ \A q \in Processes \ {p} : held'[q] = held[q]
  <2> DEFINE f == [held EXCEPT ![p].count = n]
  <2>1. f[p] = [held[p] EXCEPT !.count = n] /\ f[p] \in Entries
    BY <1>1, <1>2, <1>6 DEF Entries
  <2>2. f \in [Processes -> Entries \union {None}]
    BY <1>1, <1>2, <1>6 DEF Entries
  <2>3. held' = [f EXCEPT ![p].releasing = last]
    BY <1>1, <1>2, <1>8, <2>1
  <2>4. f[p].by = held[p].by /\ f[p].count = n /\ \A q \in Processes \ {p} : f[q] = held[q]
    BY <1>1, <1>2, <2>1 DEF Entries
  <2> HIDE DEF f
  <2>5. [f EXCEPT ![p].releasing = last] \in [Processes -> Entries \union {None}]
    BY <1>1, <1>6, <2>1, <2>2 DEF Entries
  <2> QED BY <1>1, <1>6, <2>1, <2>2, <2>3, <2>4, <2>5 DEF Entries
<1> QED BY <1>3, <1>4, <1>9, <1>10 DEF p, n, last

LEMMA ReleaseCounts ==
  ASSUME CountInv, NEW a \in Stores, Release(a)
  PROVE  CountInv'
<1> DEFINE p == ProcessOf[a]
<1>1. /\ p \in Processes /\ p \in up /\ store[a].pc = "holding"
      /\ UNCHANGED <<file, up, signalled>>
  BY LockAssumption DEF Release, At
<1>2. FileNamesOwner' /\ file' \in Files \union {None}
  BY <1>1 DEF CountInv, FileNamesOwner, TypeOK
<1>3. PICK pc \in {"releasing", "released"} : store' = Goes(a, pc)
  BY DEF Release
<1>4. /\ \A b \in Stores : store'[b].entry = store[b].entry
      /\ \A b \in Stores \ {a} : store'[b] = store[b]
      /\ store'[a].pc = pc
      /\ store' \in [Stores -> [pc : Pcs, entry : Stores \union {None}]]
  BY <1>3 DEF CountInv, TypeOK, Goes, Pcs
<1>5. DeadRest' /\ EntriesOwned' /\ TypeOK' /\ CountsStores'
  <2>1. CASE held[p] # None /\ held[p].by = store[a].entry
    <3>1. /\ held' \in [Processes -> Entries \union {None}] /\ held'[p].by = held[p].by
          /\ held'[p].count = Cardinality(Sharers(p) \ {a})
          /\ \A q \in Processes \ {p} : held'[q] = held[q]
      BY <2>1, SharerLeaves
    <3>2. /\ Sharers(p)' = Sharers(p) \ {a}
          /\ \A q \in Processes \ {p} : Sharers(q)' = Sharers(q)
      BY <1>1, <1>4, <3>1 DEF Sharers, Holding
    <3>3. CountsStores'
      BY <1>1, <3>1, <3>2 DEF CountInv, CountsStores
    <3>4. TypeOK'
      BY <1>1, <1>4, <3>1 DEF CountInv, TypeOK, signalled
    <3>5. EntriesOwned'
      <4>1. \A b \in Stores : store[b].pc \in Past => store'[b].pc \in Past
        BY <1>3, <1>4 DEF Past
      <4>2. \A b \in Stores : store'[b].entry = store[b].entry
        BY <1>3, <1>4
      <4>3. \A b \in Stores : store[b].entry # None => store[b].entry \in Stores
        BY DEF CountInv, TypeOK
      <4>4. \A q \in Processes : held'[q] # None =>
              held[q] # None /\ held'[q].by = held[q].by /\ held[q].by \in Stores
        BY <2>1, <3>1 DEF CountInv, TypeOK, Entries
      <4> QED BY <4>1, <4>2, <4>3, <4>4 DEF CountInv, EntriesOwned
    <3>6. DeadRest'
      BY <1>1, <1>4, <3>1 DEF CountInv, DeadRest
    <3> QED BY <3>3, <3>4, <3>5, <3>6
  <2>2. CASE ~(held[p] # None /\ held[p].by = store[a].entry)
    <3>1. UNCHANGED held
      BY <2>2 DEF Release
    <3>2. \A q \in Processes : held[q] # None => Sharers(q)' = Sharers(q)
      BY <1>1, <1>4, <2>2, <3>1 DEF Sharers, Holding
    <3>3. EntriesOwned'
      BY <1>1, <1>3, <1>4, <3>1 DEF CountInv, EntriesOwned, TypeOK, Past, Entries
    <3> QED BY <1>1, <1>4, <3>1, <3>2, <3>3
           DEF CountInv, CountsStores, DeadRest, TypeOK, signalled
  <2> QED BY <2>1, <2>2
<1> QED BY <1>2, <1>5 DEF CountInv

LEMMA RemoveCounts ==
  ASSUME CountInv, NEW a \in Stores, RemoveFile(a)
  PROVE  CountInv'
<1>1. /\ ProcessOf[a] \in Processes /\ ProcessOf[a] \in up /\ store[a].pc = "releasing"
      /\ file' = None /\ held' = [held EXCEPT ![ProcessOf[a]] = None]
      /\ store' = Goes(a, "released") /\ UNCHANGED <<up, signalled>>
  BY LockAssumption DEF RemoveFile, At
<1>2. TypeOK'
  BY <1>1 DEF CountInv, TypeOK, Goes, Pcs, signalled
<1>3. /\ \A b \in Stores : store'[b].entry = store[b].entry
      /\ \A b \in Stores : store[b].pc \in Past => store'[b].pc \in Past
      /\ \A b \in Stores \ {a} : store'[b] = store[b]
      /\ store'[a].pc = "released"
  BY <1>1 DEF CountInv, TypeOK, Goes, Past
<1>4. EntriesOwned'
  BY <1>1, <1>3 DEF CountInv, EntriesOwned, TypeOK, Entries
<1>5. \A p \in Processes \ {ProcessOf[a]} : Sharers(p)' = Sharers(p)
  BY <1>1, <1>3 DEF CountInv, TypeOK, Sharers, Holding
<1>6. CountsStores'
  BY <1>1, <1>5 DEF CountInv, CountsStores, TypeOK
<1>7. DeadRest' /\ FileNamesOwner'
  BY <1>1, <1>3 DEF CountInv, DeadRest, FileNamesOwner, TypeOK
<1> QED BY <1>2, <1>4, <1>6, <1>7 DEF CountInv

\* A survived signal takes the entry of its process, whatever it counted.
LEMMA SignalCounts ==
  ASSUME CountInv, NEW p \in Processes, Signal(p)
  PROVE  CountInv'
<1>1. /\ file' = None /\ held' = [held EXCEPT ![p] = None] /\ UNCHANGED <<store, up>>
      /\ lost' = lost \union {a \in Stores : ProcessOf[a] = p /\ store[a].pc = "holding"}
      /\ overtaken' = (overtaken \/ held[p].releasing) /\ held[p] # None
  BY DEF Signal
<1>2. held[p].releasing \in BOOLEAN
  BY <1>1 DEF CountInv, TypeOK, Entries
<1>3. lost' \subseteq Stores /\ overtaken' \in BOOLEAN
  BY <1>1, <1>2 DEF CountInv, TypeOK
<1>4. TypeOK'
  BY <1>1, <1>3 DEF CountInv, TypeOK
<1>5. EntriesOwned'
  BY <1>1 DEF CountInv, EntriesOwned, TypeOK
<1>6. \A q \in Processes \ {p} : Sharers(q)' = Sharers(q)
  BY <1>1 DEF CountInv, TypeOK, Sharers, Holding
<1>7. CountsStores'
  BY <1>1, <1>6 DEF CountInv, CountsStores, TypeOK
<1>8. DeadRest' /\ FileNamesOwner'
  BY <1>1 DEF CountInv, DeadRest, FileNamesOwner, TypeOK
<1> QED BY <1>4, <1>5, <1>7, <1>8 DEF CountInv

LEMMA DieCounts ==
  ASSUME CountInv, NEW p \in Processes, Die(p)
  PROVE  CountInv'
<1>1. /\ up' = up \ {p} /\ file' \in {file, None}
      /\ held' = [held EXCEPT ![p] = None]
      /\ store' = [a \in Stores |-> IF ProcessOf[a] = p THEN [pc |-> "idle", entry |-> None]
                                                        ELSE store[a]]
      /\ UNCHANGED signalled
  BY DEF Die
<1>2. TypeOK'
  BY <1>1 DEF CountInv, TypeOK, Pcs, signalled
<1>3. EntriesOwned'
  BY <1>1, LockAssumption DEF CountInv, EntriesOwned, TypeOK, Entries
<1>4. \A q \in Processes \ {p} : Sharers(q)' = Sharers(q)
  BY <1>1 DEF CountInv, TypeOK, Sharers, Holding
<1>5. CountsStores'
  BY <1>1, <1>4 DEF CountInv, CountsStores, TypeOK
<1>6. DeadRest' /\ FileNamesOwner'
  BY <1>1, LockAssumption DEF CountInv, DeadRest, FileNamesOwner, TypeOK
<1> QED BY <1>2, <1>3, <1>5, <1>6 DEF CountInv

LEMMA AgeCounts ==
  ASSUME CountInv, Age
  PROVE  CountInv'
<1>1. /\ file # None /\ file' = [file EXCEPT !.old = TRUE] /\ UNCHANGED <<held, store, up, signalled>>
  BY DEF Age
<1>2. TypeOK' /\ FileNamesOwner'
  BY <1>1, LockAssumption DEF CountInv, TypeOK, FileNamesOwner, Files, signalled
<1>3. \A p \in Processes : Sharers(p)' = Sharers(p)
  BY <1>1 DEF Sharers, Holding
<1> QED BY <1>1, <1>2, <1>3 DEF CountInv, EntriesOwned, CountsStores, DeadRest

LEMMA StepCounts == CountInv /\ [Next]_vars => CountInv'
<1> SUFFICES ASSUME CountInv, [Next]_vars
             PROVE  CountInv'
  OBVIOUS
<1>1. CASE UNCHANGED vars
  <2>1. UNCHANGED <<file, held, store, up, lost, overtaken>>
    BY <1>1 DEF vars, signalled
  <2>2. \A p \in Processes : Sharers(p)' = Sharers(p)
    BY <2>1 DEF Sharers, Holding
  <2> QED BY <2>1, <2>2 DEF CountInv, TypeOK, EntriesOwned, CountsStores, DeadRest, FileNamesOwner
<1>2. ASSUME NEW a \in Stores, Acquire(a) \/ Acquiring(a) \/ GivesUp(a) \/ Releasing(a)
      PROVE  CountInv'
  BY <1>2, AcquireCounts, WaitingCounts, WriteCounts, ReleaseCounts, RemoveCounts
     DEF Acquiring, Releasing
<1>3. ASSUME NEW p \in Processes, Signal(p) \/ Die(p)
      PROVE  CountInv'
  BY <1>3, SignalCounts, DieCounts
<1> QED BY <1>1, <1>2, <1>3, AgeCounts DEF Next

LEMMA InitCounts == Init => CountInv
<1> SUFFICES ASSUME Init
             PROVE  CountInv
  OBVIOUS
<1>1. TypeOK
  BY DEF Init, TypeOK, Pcs
<1> QED BY <1>1 DEF Init, CountInv, EntriesOwned, CountsStores, DeadRest, FileNamesOwner

LEMMA CountHolds == Spec => []CountInv
<1>1. Init => CountInv
  BY InitCounts
<1>2. CountInv /\ [Next]_vars => CountInv'
  BY StepCounts
<1> QED BY <1>1, <1>2, PTL DEF Spec

\* The entry of HELD_LOCKS counts the stores that share it, with the type
\* invariant of the lock (acquireTaskStoreWriteLock, releaseHeldLock): so also
\* when two waiters reclaim one lock, or a holder outlives staleMs.
THEOREM CountCorrect == Spec => [](TypeOK /\ CountsStores)
<1>1. CountInv => TypeOK /\ CountsStores
  BY DEF CountInv
<1> QED BY <1>1, CountHolds, PTL

-----------------------------------------------------------------------------
(***************************************************************************)
(* One writer at a time.  The writer finds its own file at the path all    *)
(* the time it holds the lock, for a file is removed by the store that     *)
(* created it, by its process, or by a waiter after its process died.  The *)
(* last is so because nothing happens to the lock of a dead process        *)
(* between the look and the removal, unless another waiter reclaims it.    *)
(* A signal that the process survives removes the file too; it takes the   *)
(* stores that are open then out of the account, and all of it when it     *)
(* comes during a removal.                                                 *)
(***************************************************************************)

\* No two stores are between the look at a lock that is stale and its removal.
ReclaimsAlone ==
  \A a, b \in Stores : store[a].pc = "reclaiming" /\ store[b].pc = "reclaiming" => a = b

\* A lock that is old was left behind, and so is one that is being reclaimed.
AbandonedLocks ==
  /\ file # None /\ file.old => file.owner \notin up
  /\ \A a \in Stores : store[a].pc = "reclaiming" => file # None /\ file.owner \notin up

\* The file is the one of the store that writes it, or of the entry.
OwnFiles ==
  /\ \A a \in Stores : store[a].pc = "writing" =>
       file # None /\ file.by = a /\ held[ProcessOf[a]] = None
  /\ \A p \in Processes : held[p] # None => file # None /\ file.by = held[p].by

\* A store that is open has its share of the entry, one that is being released
\* is the last of it.
OwnEntries ==
  /\ \A a \in Stores \ lost : store[a].pc = "holding" =>
       LET h == held[ProcessOf[a]] IN h # None /\ h.by = store[a].entry /\ ~h.releasing
  /\ \A a \in Stores : store[a].pc = "releasing" =>
       LET h == held[ProcessOf[a]] IN h # None /\ h.releasing
  /\ \A a, b \in Stores :
       store[a].pc = "releasing" /\ store[b].pc = "releasing" /\ ProcessOf[a] = ProcessOf[b] => a = b

\* A store that lost its lock shares no entry any more, and never gets another.
LostStores ==
  \A a \in Stores : a \in lost =>
    /\ store[a].pc \in {"holding", "released"} \/ ProcessOf[a] \notin up
    /\ held[ProcessOf[a]] # None => held[ProcessOf[a]].by # store[a].entry

LockInv == AbandonedLocks /\ OwnFiles /\ OwnEntries /\ LostStores

\* A process whose store writes or has the lock is the owner of the file, and
\* alive: its file is not reclaimed, and not the file of another process.
LEMMA LockOwner ==
  ASSUME CountInv, LockInv, NEW a \in Stores,
         \/ store[a].pc \in {"writing", "releasing"}
         \/ store[a].pc = "holding" /\ a \notin lost
  PROVE  /\ file # None /\ file.owner = ProcessOf[a] /\ ProcessOf[a] \in up
         /\ \A b \in Stores : store[b].pc # "reclaiming"
         /\ \A b \in Stores : store[b].pc = "writing" => b = file.by
         /\ \A q \in Processes : held[q] # None => q = ProcessOf[a]
<1>1. ProcessOf[a] \in up
  BY DEF CountInv, DeadRest
<1>2. file # None /\ file.owner = ProcessOf[a]
  BY LockAssumption DEF CountInv, FileNamesOwner, EntriesOwned, LockInv, OwnFiles, OwnEntries
<1> QED BY <1>1, <1>2 DEF CountInv, FileNamesOwner, EntriesOwned, LockInv, OwnFiles, AbandonedLocks

LEMMA LockImplies ==
  ASSUME CountInv, overtaken \/ LockInv
  PROVE  SingleWriter /\ HolderHasFile
<1>1. CASE overtaken
  BY <1>1 DEF SingleWriter, HolderHasFile
<1>2. CASE LockInv
  <2>1. HolderHasFile
    BY <1>2, LockAssumption, LockOwner DEF HolderHasFile, Holding, LockInv, OwnFiles, OwnEntries
  <2>2. \A a, b \in Stores \ lost : Holding(a) /\ Holding(b) => ProcessOf[a] = ProcessOf[b]
    BY <1>2, LockOwner DEF Holding
  <2> QED BY <2>1, <2>2 DEF SingleWriter
<1> QED BY <1>1, <1>2

-----------------------------------------------------------------------------
\* What a step of another store leaves of a store that lost its lock.
LEMMA LostStay ==
  ASSUME LostStores, UNCHANGED lost, up' \subseteq up, NEW a \in Stores,
         \A b \in Stores \ {a} : store'[b] = store[b],
         store[a].pc \notin {"holding", "released"}, ProcessOf[a] \in up,
         \A p \in Processes :
           held'[p] # None => held[p] # None /\ held'[p].by = held[p].by
  PROVE  LostStores'
<1>1. a \notin lost
  BY DEF LostStores
<1>2. \A b \in Stores : ProcessOf[b] \in Processes
  BY LockAssumption
<1> QED BY <1>1, <1>2 DEF LostStores

LEMMA AcquireLocks ==
  ASSUME CountInv, LockInv, NEW a \in Stores, Acquire(a)
  PROVE  LockInv'
<1> DEFINE p == ProcessOf[a]
<1>1. p \in Processes /\ store[a].pc = "idle" /\ UNCHANGED <<file, up, lost>>
  BY LockAssumption DEF Acquire, At, signalled
<1>2. CASE held[p] = None
  <2>1. /\ UNCHANGED held /\ store'[a].pc = "opening" /\ p \in up
        /\ \A b \in Stores \ {a} : store'[b] = store[b]
    BY <1>2 DEF Acquire, At, EntryOf, Goes, CountInv, TypeOK
  <2>2. LostStores'
    BY <1>1, <2>1, LostStay DEF LockInv
  <2> QED BY <1>1, <2>1, <2>2 DEF LockInv, AbandonedLocks, OwnFiles, OwnEntries
<1>3. CASE held[p] # None
  <2>1. /\ held'[p] \in Entries /\ held'[p].by = held[p].by
        /\ ~held[p].releasing /\ ~held'[p].releasing
        /\ store' = [store EXCEPT ![a] = [pc |-> "holding", entry |-> held[p].by]]
        /\ \A q \in Processes \ {p} : held'[q] = held[q]
    BY <1>3, SharerJoins
  <2>2. held'[p] # None
    BY <2>1, LockAssumption
  <2>3. /\ \A b \in Stores \ {a} : store'[b] = store[b]
        /\ store'[a].pc = "holding" /\ store'[a].entry = held[p].by
    BY <2>1 DEF CountInv, TypeOK
  <2>4. AbandonedLocks'
    BY <1>1, <2>3 DEF LockInv, AbandonedLocks
  <2>5. OwnFiles'
    BY <1>1, <1>3, <2>1, <2>3, LockAssumption DEF LockInv, OwnFiles
  <2>6. LostStores'
    <3>1. p \in up
      BY DEF Acquire, At
    <3> QED BY <1>1, <1>3, <2>1, <2>3, <3>1, LostStay DEF LockInv
  <2>7. OwnEntries'
    <3>1. \A b \in Stores \ {a} : ProcessOf[b] # p => held'[ProcessOf[b]] = held[ProcessOf[b]]
      BY <2>1, LockAssumption
    <3>2. \A b \in Stores \ {a} : ProcessOf[b] = p =>
            /\ store[b].pc # "releasing"
            /\ store[b].pc = "holding" /\ b \notin lost => store[b].entry = held'[p].by
      BY <2>1 DEF LockInv, OwnEntries
    <3> QED BY <1>1, <2>1, <2>2, <2>3, <3>1, <3>2 DEF LockInv, OwnEntries
  <2> QED BY <2>4, <2>5, <2>6, <2>7 DEF LockInv
<1> QED BY <1>2, <1>3

LEMMA OpenLocks ==
  ASSUME CountInv, LockInv, NEW a \in Stores, Open(a)
  PROVE  LockInv'
<1>1. /\ ProcessOf[a] \in Processes /\ ProcessOf[a] \in up
      /\ store[a].pc \in {"opening", "retrying"} /\ UNCHANGED <<held, up, lost>>
      /\ \A b \in Stores \ {a} : store'[b] = store[b]
  BY LockAssumption DEF Open, At, Goes, CountInv, TypeOK, signalled
<1>2. LostStores'
  BY <1>1, LostStay DEF LockInv
<1>3. CASE file = None
  <2>1. /\ file' = [by |-> a, owner |-> ProcessOf[a], written |-> FALSE, old |-> FALSE]
        /\ store'[a].pc = "writing"
    BY <1>3 DEF Open, Goes, CountInv, TypeOK
  <2>2. file' # None
    <3>1. file' \in Files
      BY <1>1, <2>1 DEF Files
    <3> QED BY <3>1, LockAssumption
  <2>3. \A p \in Processes : held[p] = None
    BY <1>3 DEF LockInv, OwnFiles
  <2>4. \A b \in Stores : /\ store[b].pc \notin {"reclaiming", "writing", "releasing"}
                          /\ store[b].pc = "holding" => b \in lost
    BY <1>3, LockOwner DEF LockInv, AbandonedLocks
  <2> QED BY <1>1, <1>2, <2>1, <2>2, <2>3, <2>4 DEF LockInv, AbandonedLocks, OwnFiles, OwnEntries
<1>4. CASE file # None
  <2>1. UNCHANGED file /\ store'[a].pc = "reading"
    BY <1>4 DEF Open, Goes, CountInv, TypeOK
  <2> QED BY <1>1, <1>2, <2>1 DEF LockInv, AbandonedLocks, OwnFiles, OwnEntries
<1> QED BY <1>3, <1>4

LEMMA WriteLocks ==
  ASSUME CountInv, LockInv, NEW a \in Stores, WritePayload(a)
  PROVE  LockInv'
<1> DEFINE p == ProcessOf[a]
<1>1. /\ p \in Processes /\ p \in up /\ store[a].pc = "writing" /\ UNCHANGED <<up, lost>>
      /\ held'[p] = [by |-> a, count |-> 1, releasing |-> FALSE]
      /\ \A q \in Processes \ {p} : held'[q] = held[q]
      /\ store'[a] = [pc |-> "holding", entry |-> a]
      /\ \A b \in Stores \ {a} : store'[b] = store[b]
  BY LockAssumption DEF WritePayload, At, CountInv, TypeOK, signalled
<1>2. /\ file # None /\ file.by = a /\ file.owner = p
      /\ \A b \in Stores : store[b].pc # "reclaiming"
      /\ \A b \in Stores : store[b].pc = "writing" => b = a
      /\ \A q \in Processes : held[q] = None
  BY <1>1, LockOwner DEF LockInv, OwnFiles
<1>3. file' # None /\ file'.by = a /\ file'.owner = p /\ file'.old = file.old
  <2>1. file \in Files /\ file' = [file EXCEPT !.written = TRUE]
    BY <1>2 DEF WritePayload, CountInv, TypeOK
  <2>2. file' \in Files /\ file'.by = file.by /\ file'.owner = file.owner /\ file'.old = file.old
    BY <2>1 DEF Files
  <2> QED BY <1>2, <2>2, LockAssumption
<1>4. held'[p] # None
  BY <1>1, NewEntry
<1>5. AbandonedLocks'
  BY <1>1, <1>2, <1>3 DEF LockInv, AbandonedLocks
<1>6. OwnFiles'
  BY <1>1, <1>2, <1>3 DEF LockInv, OwnFiles
<1>7. OwnEntries'
  BY <1>1, <1>2, <1>4, LockAssumption DEF LockInv, OwnEntries, LostStores
<1>8. LostStores'
  <2>1. a \notin lost
    BY <1>1 DEF LockInv, LostStores
  <2>2. \A b \in Stores : store[b].entry # a
    BY <1>1, LockAssumption DEF CountInv, EntriesOwned, Past
  <2> QED BY <1>1, <2>1, <2>2, LockAssumption DEF LockInv, LostStores, CountInv, TypeOK
<1> QED BY <1>5, <1>6, <1>7, <1>8 DEF LockInv

\* The file is removed by the store that writes it or by the last that had it.
LEMMA RemoveLocks ==
  ASSUME CountInv, LockInv, NEW a \in Stores, WriteFails(a) \/ RemoveFile(a)
  PROVE  LockInv'
<1> DEFINE p == ProcessOf[a]
<1>1. /\ p \in Processes /\ store[a].pc \in {"writing", "releasing"}
      /\ file' = None /\ UNCHANGED <<up, lost>>
      /\ store'[a].pc \in {"failed", "released"}
      /\ \A b \in Stores \ {a} : store'[b] = store[b]
      /\ \A q \in Processes : held'[q] \in {held[q], None}
      /\ held' = held \/ held'[p] = None
  BY LockAssumption DEF WriteFails, RemoveFile, At, Goes, CountInv, TypeOK, signalled
<1>2. /\ \A b \in Stores : store[b].pc # "reclaiming"
      /\ \A b \in Stores : store[b].pc = "writing" => b = file.by
      /\ \A q \in Processes : held[q] # None => q = p
      /\ file # None
  BY <1>1, LockOwner
<1>3. \A q \in Processes : held'[q] = None
  BY <1>1, <1>2 DEF WriteFails, RemoveFile, At, LockInv, OwnFiles, CountInv, TypeOK
<1>4. \A b \in Stores \ {a} : /\ store[b].pc \notin {"writing", "releasing"}
                              /\ store[b].pc = "holding" => b \in lost
  <2>1. CASE WriteFails(a)
    BY <1>2, <2>1, LockAssumption DEF WriteFails, At, LockInv, OwnFiles, OwnEntries
  <2>2. CASE RemoveFile(a)
    <3>1. store[a].pc = "releasing"
      BY <2>2 DEF RemoveFile, At
    <3>2. held[p] # None /\ held[p].releasing
      BY <3>1 DEF LockInv, OwnEntries
    <3>3. \A b \in Stores \ {a} : store[b].pc # "writing" /\ (store[b].pc = "holding" => b \in lost)
      BY <1>1, <1>2, <3>2, LockAssumption DEF CountInv, EntriesOwned, LockInv, OwnFiles, OwnEntries
    <3>4. \A b \in Stores \ {a} : store[b].pc # "releasing"
      BY <1>2, <3>1, LockAssumption DEF LockInv, OwnEntries
    <3> QED BY <3>3, <3>4
  <2> QED BY <1>1, <2>1, <2>2
<1>5. LostStores'
  <2>1. p \in up
    BY DEF WriteFails, RemoveFile, At
  <2> QED BY <1>1, <1>3, <2>1, LostStay DEF LockInv
<1> QED BY <1>1, <1>2, <1>3, <1>4, <1>5 DEF LockInv, AbandonedLocks, OwnFiles, OwnEntries

\* The look at a lock and the wait for it: only a lock of a dead process is
\* reclaimed, when no holder outlives staleMs.
LEMMA LookLocks ==
  ASSUME CountInv, LockInv, NEW a \in Stores, Inspect(a) \/ CheckAge(a) \/ GivesUp(a)
  PROVE  LockInv'
<1>1. /\ store[a].pc \in {"opening", "reading", "checking", "retrying", "reclaiming"} /\ UNCHANGED <<file, held, up, lost>>
      /\ store'[a].pc \in {"checking", "reclaiming", "retrying", "failed"}
      /\ \A b \in Stores \ {a} : store'[b] = store[b]
      /\ store'[a].pc = "reclaiming" => file # None /\ (Stale(file) \/ file.old)
  BY DEF Inspect, CheckAge, GivesUp, At, Goes, CountInv, TypeOK, signalled
<1>2. store'[a].pc = "reclaiming" => file # None /\ file.owner \notin up
  BY <1>1 DEF Stale, LockInv, AbandonedLocks
<1>3. LostStores'
  <2>1. ProcessOf[a] \in up
    BY DEF Inspect, CheckAge, GivesUp, At
  <2> QED BY <1>1, <2>1, LostStay DEF LockInv
<1> QED BY <1>1, <1>2, <1>3 DEF LockInv, AbandonedLocks, OwnFiles, OwnEntries

\* No process has the lock that is reclaimed, and no other store reclaims it.
LEMMA ReclaimLocks ==
  ASSUME CountInv, LockInv, ReclaimsAlone, NEW a \in Stores, Reclaim(a)
  PROVE  LockInv'
<1>1. /\ store[a].pc = "reclaiming" /\ file' = None /\ UNCHANGED <<held, up, lost>>
      /\ store'[a].pc = "retrying"
      /\ \A b \in Stores \ {a} : store'[b] = store[b]
  BY DEF Reclaim, At, Goes, CountInv, TypeOK, signalled
<1>2. \A b \in Stores : /\ store[b].pc \notin {"writing", "releasing"}
                        /\ store[b].pc = "holding" => b \in lost
  BY <1>1, LockOwner
<1>3. \A b \in Stores \ {a} : store[b].pc # "reclaiming"
  BY <1>1 DEF ReclaimsAlone
<1>4. \A p \in Processes : held[p] = None
  BY <1>1 DEF CountInv, EntriesOwned, FileNamesOwner, DeadRest, LockInv, AbandonedLocks, OwnFiles
<1>5. LostStores'
  <2>1. ProcessOf[a] \in up
    BY DEF Reclaim, At
  <2> QED BY <1>1, <2>1, LostStay DEF LockInv
<1> QED BY <1>1, <1>2, <1>3, <1>4, <1>5 DEF LockInv, AbandonedLocks, OwnFiles, OwnEntries

\* A store that lost its lock closes without a release.
LEMMA LostReleaseLocks ==
  ASSUME CountInv, LockInv, NEW a \in lost, Release(a)
  PROVE  LockInv'
<1>1. /\ a \in Stores /\ store[a].pc = "holding" /\ UNCHANGED <<file, up, lost, held>>
      /\ \A b \in Stores \ {a} : store'[b] = store[b]
      /\ store'[a].pc = "released" /\ store'[a].entry = store[a].entry
  BY DEF Release, At, Goes, CountInv, TypeOK, LockInv, LostStores, signalled
<1>2. LostStores'
  BY <1>1 DEF LockInv, LostStores
<1> QED BY <1>1, <1>2 DEF LockInv, AbandonedLocks, OwnFiles, OwnEntries

LEMMA ReleaseLocks ==
  ASSUME CountInv, LockInv, NEW a \in Stores \ lost, Release(a)
  PROVE  LockInv'
<1> DEFINE p == ProcessOf[a]
<1>1. /\ p \in Processes /\ store[a].pc = "holding" /\ UNCHANGED <<file, up, lost>>
      /\ \A b \in Stores \ {a} : store'[b] = store[b]
      /\ held[p] # None /\ held[p].by = store[a].entry /\ ~held[p].releasing
  BY LockAssumption DEF Release, At, Goes, CountInv, TypeOK, LockInv, OwnEntries, signalled
<1>2. /\ held'[p] \in Entries /\ held'[p].by = held[p].by
      /\ held'[p].releasing = (held[p].count = 1)
      /\ held[p].count = 1 <=> Sharers(p) = {a}
      /\ \A q \in Processes \ {p} : held'[q] = held[q]
  BY <1>1, SharerLeaves
<1>3. store'[a].pc = IF held[p].count = 1 THEN "releasing" ELSE "released"
  BY <1>1 DEF Release, Goes, CountInv, TypeOK
<1>4. held'[p] # None
  BY <1>2, LockAssumption
<1>5. \A b \in Stores : ProcessOf[b] = p => store[b].pc # "releasing" /\ store[b].pc # "writing"
  BY <1>1 DEF LockInv, OwnFiles, OwnEntries
<1>6. \A b \in Stores : ProcessOf[b] = p /\ store[b].pc = "holding" /\ b \notin lost => b \in Sharers(p)
  BY <1>1 DEF Sharers, Holding, LockInv, OwnEntries
<1>7. AbandonedLocks'
  BY <1>1, <1>3 DEF LockInv, AbandonedLocks
<1>8. OwnFiles'
  <2>1. \A q \in Processes : held'[q] # None => file' # None /\ file'.by = held'[q].by
    BY <1>1, <1>2 DEF LockInv, OwnFiles
  <2>2. \A b \in Stores : store'[b].pc = "writing" =>
          store[b].pc = "writing" /\ ProcessOf[b] # p
    BY <1>1, <1>3, <1>5
  <2>3. \A b \in Stores : ProcessOf[b] # p => held'[ProcessOf[b]] = held[ProcessOf[b]]
    BY <1>2, LockAssumption
  <2> QED BY <1>1, <2>1, <2>2, <2>3 DEF LockInv, OwnFiles
<1>9. OwnEntries'
  <2>1. \A b \in Stores \ {a} : ProcessOf[b] # p =>
          held'[ProcessOf[b]] = held[ProcessOf[b]] /\ store'[b] = store[b]
    BY <1>1, <1>2, LockAssumption
  <2>2. ASSUME NEW b \in Stores \ {a}, ProcessOf[b] = p
        PROVE  /\ store'[b].pc # "releasing"
               /\ store'[b].pc = "holding" /\ b \notin lost =>
                    ~held'[p].releasing /\ store'[b].entry = held'[p].by
    <3>1. store'[b] = store[b] /\ store[b].pc # "releasing"
      BY <1>1, <1>5, <2>2
    <3>2. ASSUME store[b].pc = "holding", b \notin lost
          PROVE  ~held'[p].releasing /\ store[b].entry = held'[p].by
      <4>1. b \in Sharers(p) /\ b # a
        BY <1>6, <2>2, <3>2
      <4>2. held[p].count # 1
        BY <1>2, <4>1
      <4>3. store[b].entry = held[p].by
        BY <2>2, <3>2 DEF LockInv, OwnEntries
      <4> QED BY <1>2, <4>2, <4>3
    <3> QED BY <3>1, <3>2
  <2>3. store'[a].pc = "releasing" => held'[p].releasing
    BY <1>2, <1>3
  <2>4. store'[a].pc # "holding"
    BY <1>3
  <2> QED BY <1>1, <1>4, <2>1, <2>2, <2>3, <2>4 DEF LockInv, OwnEntries
<1>10. LostStores'
  BY <1>1, <1>2, LockAssumption DEF LockInv, LostStores, CountInv, TypeOK
<1> QED BY <1>7, <1>8, <1>9, <1>10 DEF LockInv

\* A survived signal takes the file of its own process, and every store that is
\* open then has lost its lock.
LEMMA SignalLocks ==
  ASSUME CountInv, LockInv, NEW p \in Processes, Signal(p), ~overtaken'
  PROVE  LockInv'
<1>1. /\ p \in up /\ held[p] # None /\ ~held[p].releasing /\ file' = None
      /\ held'[p] = None /\ \A q \in Processes \ {p} : held'[q] = held[q]
      /\ lost' = lost \union {a \in Stores : ProcessOf[a] = p /\ store[a].pc = "holding"}
      /\ UNCHANGED <<store, up>>
  BY DEF Signal, CountInv, TypeOK
<1>2. file # None /\ file.by = held[p].by /\ file.owner = p
  BY <1>1 DEF CountInv, EntriesOwned, FileNamesOwner, LockInv, OwnFiles
<1>3. \A q \in Processes : q # p => held[q] = None
  BY <1>1, <1>2 DEF CountInv, EntriesOwned, FileNamesOwner, LockInv, OwnFiles
<1>4. \A q \in Processes : held'[q] = None
  BY <1>1, <1>3
<1>5. \A b \in Stores : store[b].pc # "writing" /\ store[b].pc # "reclaiming"
  BY <1>1, <1>2, LockAssumption
     DEF CountInv, EntriesOwned, FileNamesOwner, LockInv, AbandonedLocks, OwnFiles
<1>6. \A b \in Stores : store[b].pc # "releasing"
  BY <1>1, <1>3, LockAssumption DEF LockInv, OwnEntries
<1>7. \A b \in Stores : store[b].pc = "holding" => b \in lost'
  BY <1>1, <1>3, LockAssumption DEF LockInv, OwnEntries
<1>8. LostStores'
  BY <1>1, <1>4, LockAssumption DEF LockInv, LostStores
<1> QED BY <1>1, <1>4, <1>5, <1>6, <1>7, <1>8 DEF LockInv, AbandonedLocks, OwnFiles, OwnEntries

\* A process that dies removes no lock but its own.
LEMMA DieLocks ==
  ASSUME CountInv, LockInv, NEW p \in Processes, Die(p)
  PROVE  LockInv'
<1>1. /\ up' = up \ {p} /\ file' \in {file, None} /\ (held[p] = None => file' = file)
      /\ held'[p] = None /\ \A q \in Processes \ {p} : held'[q] = held[q]
      /\ \A b \in Stores : ProcessOf[b] = p => store'[b].pc = "idle"
      /\ \A b \in Stores : ProcessOf[b] # p => store'[b] = store[b]
      /\ UNCHANGED lost
  BY DEF Die, CountInv, TypeOK, signalled
<1>2. CASE file' = file
  <2>1. AbandonedLocks' /\ OwnFiles'
    BY <1>1, <1>2, LockAssumption DEF LockInv, AbandonedLocks, OwnFiles
  <2>2. OwnEntries'
    BY <1>1, LockAssumption DEF LockInv, OwnEntries
  <2>3. LostStores'
    BY <1>1, LockAssumption DEF LockInv, LostStores, CountInv, TypeOK
  <2> QED BY <2>1, <2>2, <2>3 DEF LockInv
<1>3. CASE file' # file
  <2>1. /\ file' = None /\ held[p] # None /\ file # None /\ file.owner = p /\ p \in up
    BY <1>1, <1>3 DEF CountInv, EntriesOwned, FileNamesOwner, DeadRest, LockInv, OwnFiles
  <2>2. \A b \in Stores : ProcessOf[b] # p =>
          /\ store[b].pc \notin {"writing", "releasing", "reclaiming"}
          /\ store[b].pc = "holding" => b \in lost
    BY <2>1, LockOwner DEF LockInv, AbandonedLocks
  <2>3. \A q \in Processes : held'[q] = None
    BY <1>1, <2>1 DEF CountInv, EntriesOwned, FileNamesOwner, LockInv, OwnFiles
  <2>4. LostStores'
    BY <1>1, <2>3, LockAssumption DEF LockInv, LostStores, CountInv, TypeOK
  <2> QED BY <1>1, <2>1, <2>2, <2>3, <2>4 DEF LockInv, AbandonedLocks, OwnFiles, OwnEntries
<1> QED BY <1>2, <1>3

\* A lock gets old when it was left behind.
LEMMA AgeLocks ==
  ASSUME CountInv, LockInv, ~MayOutlive, Age
  PROVE  LockInv'
<1>1. /\ file # None /\ file.owner \notin up /\ file' = [file EXCEPT !.old = TRUE]
      /\ UNCHANGED <<held, store, up, lost>>
  BY DEF Age, signalled
<1>2. file' # None /\ file'.by = file.by /\ file'.owner = file.owner
  BY <1>1, LockAssumption DEF CountInv, TypeOK, Files
<1> QED BY <1>1, <1>2 DEF LockInv, AbandonedLocks, OwnFiles, OwnEntries, LostStores

LEMMA StepLocks ==
  ASSUME ~MayOutlive
  PROVE  CountInv /\ (overtaken \/ (LockInv /\ ReclaimsAlone)) /\ [Next]_vars
           => overtaken' \/ LockInv'
<1> SUFFICES ASSUME CountInv, overtaken \/ (LockInv /\ ReclaimsAlone), [Next]_vars, ~overtaken'
             PROVE  LockInv'
  OBVIOUS
<1>0. LockInv /\ ReclaimsAlone
  BY DEF Next, vars, signalled, Acquire, Acquiring, Open, WritePayload, WriteFails, Inspect,
         CheckAge, Reclaim, GivesUp, Releasing, Release, RemoveFile, Signal, Die, Age
<1>1. CASE UNCHANGED vars
  BY <1>0, <1>1 DEF vars, signalled, LockInv, AbandonedLocks, OwnFiles, OwnEntries, LostStores
<1>2. ASSUME NEW a \in Stores, Acquire(a) \/ Acquiring(a) \/ GivesUp(a) \/ Releasing(a)
      PROVE  LockInv'
  <2>1. CASE Acquire(a) \/ Acquiring(a) \/ GivesUp(a)
    BY <1>0, <2>1, AcquireLocks, OpenLocks, WriteLocks, RemoveLocks, LookLocks, ReclaimLocks
       DEF Acquiring
  <2>2. CASE Releasing(a)
    BY <1>0, <2>2, RemoveLocks, ReleaseLocks, LostReleaseLocks DEF Releasing
  <2> QED BY <1>2, <2>1, <2>2
<1>3. ASSUME NEW p \in Processes, Signal(p) \/ Die(p)
      PROVE  LockInv'
  BY <1>0, <1>3, SignalLocks, DieLocks
<1> QED BY <1>0, <1>1, <1>2, <1>3, AgeLocks DEF Next

LEMMA InitLocks == Init => LockInv
  BY DEF Init, LockInv, AbandonedLocks, OwnFiles, OwnEntries, LostStores

\* At no time do two processes have a store open on the directory
\* (acquireTaskStoreWriteLock), when no holder outlives staleMs and no two
\* waiters are between the look at a stale lock and its removal: but for stores
\* whose lock a survived signal took, and until such a signal comes while its
\* process removes the file (handleTerminationSignal).
THEOREM ReclaimsAloneWrite ==
  ASSUME ~MayOutlive
  PROVE  Spec /\ []ReclaimsAlone => [](SingleWriter /\ HolderHasFile)
<1>1. Init => LockInv
  BY InitLocks
<1>2. CountInv /\ (overtaken \/ LockInv) /\ ReclaimsAlone /\ [Next]_vars
        => overtaken' \/ LockInv'
  BY StepLocks
<1>3. CountInv /\ (overtaken \/ LockInv) => SingleWriter /\ HolderHasFile
  BY LockImplies
<1> QED BY <1>1, <1>2, <1>3, CountHolds, PTL DEF Spec

\* Each process that may die leaves at most one store of the others to wait.
OneWaiter ==
  \A p \in MayDie : \A a, b \in Stores : ProcessOf[a] # p /\ ProcessOf[b] # p => a = b

\* Then no two stores reclaim a lock at once.
LEMMA OneWaiterReclaims ==
  ASSUME OneWaiter, CountInv, LockInv, Processes \ MayDie \subseteq up
  PROVE  ReclaimsAlone
<1> SUFFICES ASSUME NEW a \in Stores, NEW b \in Stores,
                    store[a].pc = "reclaiming", store[b].pc = "reclaiming"
             PROVE  a = b
  BY DEF ReclaimsAlone
<1>1. file # None /\ file.owner \in Processes \ up
  BY DEF CountInv, TypeOK, Files, LockInv, AbandonedLocks
<1>2. ProcessOf[a] \in up /\ ProcessOf[b] \in up
  BY DEF CountInv, DeadRest
<1> QED BY <1>1, <1>2 DEF OneWaiter

\* So the lock of a directory has a single writer, with its own file at the
\* path, whatever the processes do, when at most one store waits for the lock
\* of a process that may die: with the exceptions that survived signals make.
THEOREM OneWaiterWrites ==
  ASSUME ~MayOutlive, OneWaiter
  PROVE  Spec => [](SingleWriter /\ HolderHasFile)
<1> DEFINE Living == Processes \ MayDie \subseteq up
<1>1. Init => LockInv /\ Living
  BY InitLocks DEF Init
<1>2. Living /\ [Next]_vars => Living'
  BY DEF Next, vars, Acquire, Acquiring, Open, WritePayload, WriteFails, Inspect, CheckAge,
         Reclaim, GivesUp, Releasing, Release, RemoveFile, Signal, Die, Age
<1>3. CountInv /\ (overtaken \/ LockInv) /\ Living /\ [Next]_vars => overtaken' \/ LockInv'
  <2>1. CountInv /\ LockInv /\ Living => ReclaimsAlone
    BY OneWaiterReclaims
  <2> QED BY <2>1, StepLocks
<1>4. CountInv /\ (overtaken \/ LockInv) => SingleWriter /\ HolderHasFile
  BY LockImplies
<1> QED BY <1>1, <1>2, <1>3, <1>4, CountHolds, PTL DEF Spec

-----------------------------------------------------------------------------
(***************************************************************************)
(* The host.  What it does to the lock are steps of the lock, so that the  *)
(* theorems above are about the host too; and a server that is registered  *)
(* is one whose store is open, for whatever closes a store of an account   *)
(* takes the server of the account out of the map.                         *)
(***************************************************************************)

HostTyped ==
  /\ start \in [Stores -> {"none", "creating", "waiting", "ended", "failed"}]
  /\ aborted \subseteq Stores
  /\ active \in [Processes -> Stores \union {None}]
  /\ running \subseteq Processes
  /\ overlapped \subseteq Processes

\* A server that is registered has its store open, in its own process.
ActiveHolds ==
  \A p \in Processes :
    /\ p \in running <=> active[p] # None
    /\ active[p] # None => ProcessOf[active[p]] = p /\ store[active[p]].pc = "holding"

HostInv == HostTyped /\ ActiveHolds

\* Every step of the host is one of the lock, or leaves it alone.
LEMMA HostStepsLock ==
  ASSUME HostTyped, [HostNext]_hostVars
  PROVE  [Next]_vars
<1>1. ASSUME NEW p \in Processes, NEW r \in Stores \union {None}, Stop(p, r)
      PROVE  [Next]_vars
  BY <1>1 DEF Stop, Next, Releasing
<1>2. CASE UNCHANGED hostVars
  BY <1>2 DEF hostVars
<1>3. ASSUME NEW s \in Stores, StartAccount(s) \/ StartFails(s)
      PROVE  [Next]_vars
  BY <1>3 DEF StartAccount, StartFails, vars
<1>4. ASSUME NEW s \in Stores, CreateServer(s) \/ CloseEnds(s)
      PROVE  [Next]_vars
  BY <1>4 DEF CreateServer, CloseEnds, Next, Releasing
<1>5. ASSUME NEW s \in Stores, Started(s) \/ Abort(s)
      PROVE  [Next]_vars
  <2>1. ProcessOf[s] \in Processes /\ active[ProcessOf[s]] \in Stores \union {None}
    BY LockAssumption DEF HostTyped
  <2>2. \/ Stop(ProcessOf[s], s) \/ Stop(ProcessOf[s], active[ProcessOf[s]])
        \/ UNCHANGED vars
    BY <1>5, Zenon DEF Started, Abort, vars
  <2> QED BY <1>1, <2>1, <2>2
<1>6. ASSUME NEW p \in Processes, StopAccount(p) \/ HostSignal(p) \/ HostDies(p)
      PROVE  [Next]_vars
  BY <1>1, <1>6 DEF StopAccount, HostSignal, HostDies, Next, HostTyped
<1>7. CASE LockAges
  BY <1>7 DEF LockAges, Next
<1> QED BY <1>2, <1>3, <1>4, <1>5, <1>6, <1>7 DEF HostNext

\* The server that is stopped is the registered one, or one that no longer
\* is: what closes is out of the map.
LEMMA StopKeeps ==
  ASSUME CountInv, HostInv, NEW p \in Processes, NEW r \in Stores \union {None}, Stop(p, r),
         r # None => ProcessOf[r] = p
  PROVE  /\ ActiveHolds' /\ active' \in [Processes -> Stores \union {None}]
         /\ running' \subseteq Processes
<1>1. /\ active' = [active EXCEPT ![p] = None] /\ running' = running \ {p}
      /\ \A q \in Processes \ {p} : active'[q] = active[q]
      /\ active'[p] = None
  BY DEF Stop, HostInv, HostTyped
<1>2. \A s \in Stores : s # r => store'[s] = store[s]
  BY DEF Stop, Release, Goes, vars, CountInv, TypeOK
<1>3. \A q \in Processes \ {p} : active[q] # None => active[q] # r /\ active[q] \in Stores
  BY DEF HostInv, HostTyped, ActiveHolds
<1> QED BY <1>1, <1>2, <1>3 DEF HostInv, HostTyped, ActiveHolds

\* The lock does not take a store that is open from its process.
LEMMA OpenStoresStay ==
  ASSUME CountInv, NEW s \in Stores, NEW a \in Stores, store[a].pc = "holding",
         Acquire(s) \/ Acquiring(s) \/ GivesUp(s) \/ RemoveFile(s)
  PROVE  store'[a] = store[a]
  BY DEF Acquire, Acquiring, GivesUp, RemoveFile, Open, WritePayload, WriteFails, Inspect,
         CheckAge, Reclaim, At, Goes, CountInv, TypeOK

LEMMA StepHost ==
  ASSUME CountInv, HostInv, [HostNext]_hostVars
  PROVE  HostInv'
<1>1. CASE UNCHANGED hostVars
  BY <1>1 DEF hostVars, host, vars, HostInv, HostTyped, ActiveHolds
<1>2. ASSUME NEW s \in Stores, StartAccount(s)
      PROVE  HostInv'
  <2>1. /\ start' = [start EXCEPT ![s] = "creating"] /\ overlapped' \subseteq overlapped \union {ProcessOf[s]}
        /\ UNCHANGED <<store, aborted, active, running>> /\ ProcessOf[s] \in Processes
    BY <1>2, LockAssumption DEF StartAccount, vars
  <2> QED BY <2>1 DEF HostInv, HostTyped, ActiveHolds
<1>3. ASSUME NEW s \in Stores, CreateServer(s) \/ CloseEnds(s)
      PROVE  HostInv'
  <2>1. UNCHANGED <<start, aborted, active, running, overlapped>>
    BY <1>3 DEF CreateServer, CloseEnds, host
  <2>2. \A a \in Stores : store[a].pc = "holding" => store'[a] = store[a]
    BY <1>3, OpenStoresStay DEF CreateServer, CloseEnds
  <2> QED BY <2>1, <2>2 DEF HostInv, HostTyped, ActiveHolds
<1>4. ASSUME NEW s \in Stores, Started(s)
      PROVE  HostInv'
  <2>1. ProcessOf[s] \in Processes /\ store[s].pc = "holding"
        /\ UNCHANGED <<aborted, overlapped>>
    BY <1>4, LockAssumption DEF Started, At
  <2>2. CASE s \in aborted
    BY <1>4, <2>1, <2>2, StopKeeps DEF Started, HostInv, HostTyped
  <2>3. CASE s \notin aborted
    <3>1. /\ start' = [start EXCEPT ![s] = "waiting"]
          /\ active' = [active EXCEPT ![ProcessOf[s]] = s]
          /\ running' = running \union {ProcessOf[s]}
          /\ UNCHANGED store
      BY <1>4, <2>3 DEF Started, vars
    <3>2. HostTyped'
      BY <2>1, <3>1 DEF HostInv, HostTyped
    <3>3. ActiveHolds'
      BY <2>1, <3>1, LockAssumption DEF HostInv, HostTyped, ActiveHolds
    <3> QED BY <3>2, <3>3 DEF HostInv
  <2> QED BY <2>2, <2>3
<1>5. ASSUME NEW s \in Stores, StartFails(s)
      PROVE  HostInv'
  BY <1>5 DEF StartFails, vars, HostInv, HostTyped, ActiveHolds
<1>6. ASSUME NEW s \in Stores, Abort(s)
      PROVE  HostInv'
  <2>1. /\ ProcessOf[s] \in Processes /\ aborted' = aborted \union {s} /\ UNCHANGED overlapped
        /\ active[ProcessOf[s]] \in Stores \union {None}
    BY <1>6, LockAssumption DEF Abort, HostInv, HostTyped
  <2>2. CASE start[s] = "waiting"
    <3>1. /\ start' = [start EXCEPT ![s] = "ended"]
          /\ Stop(ProcessOf[s], active[ProcessOf[s]])
      BY <1>6, <2>2 DEF Abort
    <3>2. active[ProcessOf[s]] # None => ProcessOf[active[ProcessOf[s]]] = ProcessOf[s]
      BY <2>1 DEF HostInv, ActiveHolds
    <3>3. /\ ActiveHolds' /\ active' \in [Processes -> Stores \union {None}]
          /\ running' \subseteq Processes
      BY <2>1, <3>1, <3>2, StopKeeps
    <3> QED BY <2>1, <3>1, <3>3 DEF HostInv, HostTyped
  <2>3. CASE start[s] # "waiting"
    BY <1>6, <2>1, <2>3 DEF Abort, vars, HostInv, HostTyped, ActiveHolds
  <2> QED BY <2>2, <2>3
<1>7. ASSUME NEW p \in Processes, StopAccount(p)
      PROVE  HostInv'
  <2>1. /\ active[p] \in Stores \union {None} /\ Stop(p, active[p])
        /\ UNCHANGED <<start, aborted, overlapped>>
        /\ active[p] # None => ProcessOf[active[p]] = p
    BY <1>7 DEF StopAccount, HostInv, HostTyped, ActiveHolds
  <2> QED BY <2>1, StopKeeps DEF HostInv, HostTyped
<1>8. ASSUME NEW p \in Processes, HostDies(p)
      PROVE  HostInv'
  <2>1. /\ active' = [active EXCEPT ![p] = None] /\ running' = running \ {p}
        /\ \A s \in Stores : ProcessOf[s] # p => store'[s] = store[s]
        /\ UNCHANGED <<aborted, overlapped>>
        /\ start' = [s \in Stores |-> IF ProcessOf[s] = p THEN "ended" ELSE start[s]]
    BY <1>8 DEF HostDies, Die
  <2> QED BY <2>1 DEF HostInv, HostTyped, ActiveHolds
<1>9. ASSUME NEW p \in Processes, HostSignal(p)
      PROVE  HostInv'
  BY <1>9 DEF HostSignal, Signal, host, HostInv, HostTyped, ActiveHolds
<1>10. CASE LockAges
  BY <1>10 DEF LockAges, Age, host, HostInv, HostTyped, ActiveHolds
<1> QED BY <1>1, <1>2, <1>3, <1>4, <1>5, <1>6, <1>7, <1>8, <1>9, <1>10 DEF HostNext

LEMMA InitHost == HostInit => Init /\ HostInv
  BY DEF HostInit, HostInv, HostTyped, ActiveHolds

\* The host only uses the lock as the lock is specified: every start, stop and
\* death of an account is, for the directory, a step of the writer lock.
THEOREM HostImplementsLock == HostSpec => Spec
<1>1. HostInit => Init /\ CountInv /\ HostInv
  BY InitHost, InitCounts
<1>2. CountInv /\ HostInv /\ [HostNext]_hostVars => [Next]_vars
  BY HostStepsLock DEF HostInv
<1>3. CountInv /\ HostInv /\ [HostNext]_hostVars => CountInv' /\ HostInv'
  BY <1>2, StepCounts, StepHost
<1> QED BY <1>1, <1>2, <1>3, PTL DEF HostSpec, Spec

LEMMA HostInvariant == HostSpec => [](CountInv /\ HostInv)
<1>1. HostInit => CountInv /\ HostInv
  BY InitHost, InitCounts
<1>2. CountInv /\ HostInv /\ [HostNext]_hostVars => CountInv' /\ HostInv'
  BY HostStepsLock, StepCounts, StepHost DEF HostInv
<1> QED BY <1>1, <1>2, PTL DEF HostSpec

\* Every variable of the host and of the lock holds a value of its shape.
THEOREM HostTypeCorrect == HostSpec => []HostTypeOK
<1>1. CountInv /\ HostInv => HostTypeOK
  BY DEF CountInv, HostInv, HostTyped, HostTypeOK
<1> QED BY <1>1, HostInvariant, PTL

LEMMA ActiveImplies ==
  ASSUME HostInv, HolderHasFile
  PROVE  ActiveServerOpen
  BY DEF HostInv, HostTyped, ActiveHolds, HolderHasFile, Holding, ActiveServerOpen

\* The server that requests of an account go to is open and the writer of its
\* directory (activeAccounts of A2AInboundPluginHost), under the condition of
\* ReclaimsAloneWrite.
THEOREM ActiveServerWrites ==
  ASSUME ~MayOutlive
  PROVE  HostSpec /\ []ReclaimsAlone => []ActiveServerOpen
<1>1. HostInv /\ SingleWriter /\ HolderHasFile => ActiveServerOpen
  BY ActiveImplies
<1> QED BY <1>1, HostInvariant, HostImplementsLock, ReclaimsAloneWrite, PTL

\* And whatever the processes and the gateway do, when at most one store waits
\* for the lock of a process that may die.
THEOREM OneWaiterServes ==
  ASSUME ~MayOutlive, OneWaiter
  PROVE  HostSpec => []ActiveServerOpen
<1>1. HostInv /\ SingleWriter /\ HolderHasFile => ActiveServerOpen
  BY ActiveImplies
<1> QED BY <1>1, HostInvariant, HostImplementsLock, OneWaiterWrites, PTL
=============================================================================
