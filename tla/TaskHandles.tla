----------------------------- MODULE TaskHandles -----------------------------
(***************************************************************************)
(* The task handle registry of the outbound plugin                         *)
(* (task-handle-registry.ts) as functions on its entries.                  *)
(*                                                                         *)
(* A handle stands for a random id; handles are numbered in the order they *)
(* are created, which is the order of the Map the code walks, and a number *)
(* is used once.  A registry maps every handle to its record, or to None.  *)
(***************************************************************************)
EXTENDS Integers, FiniteSets

CONSTANTS
  MaxHandles,  \* bound on the handles ever created
  MaxEntries,  \* taskHandles.maxEntries of the configuration
  TtlMs,       \* taskHandles.ttlMs, in ticks of the clock
  None

ASSUME RegistryAssumption ==
  /\ MaxHandles \in Nat \ {0}
  /\ MaxEntries \in Nat \ {0}
  /\ TtlMs \in Nat \ {0}
  /\ None \notin Nat

Handles == 1..MaxHandles

NoEntries == [h \in Handles |-> None]

Entry(target, taskId, contextId, now) ==
  [target |-> target, taskId |-> taskId, contextId |-> contextId,
   lastAccessedAt |-> now, expiresAt |-> now + TtlMs]

Present(entries) == {h \in Handles : entries[h] # None}

Expired(entries, h, now) == entries[h] # None /\ entries[h].expiresAt <= now

PruneExpired(entries, now) ==
  [h \in Handles |-> IF Expired(entries, h, now) THEN None ELSE entries[h]]

\* The handles requireLiveEntry returns a record for.
Live(entries, h, now) == h \in Present(entries) /\ ~Expired(entries, h, now)

\* The scan takes the first entry with the smallest lastAccessedAt.
EvictedBefore(entries, g, h) ==
  \/ entries[g].lastAccessedAt < entries[h].lastAccessedAt
  \/ entries[g].lastAccessedAt = entries[h].lastAccessedAt /\ g < h

\* Variant: an entry is evicted as soon as the registry is full.
EvictEarly(entries) ==
  [h \in Handles |->
     IF /\ h \in Present(entries)
        /\ Cardinality({g \in Present(entries) : EvictedBefore(entries, h, g)})
             >= MaxEntries - 1
       THEN None ELSE entries[h]]

\* The entries that are left when the least recently used ones are deleted
\* until maxEntries remain.
EvictLeastRecentlyUsed(entries) ==
  [h \in Handles |->
     IF /\ h \in Present(entries)
        /\ Cardinality({g \in Present(entries) : EvictedBefore(entries, h, g)})
             >= MaxEntries
       THEN None ELSE entries[h]]

Create(entries, h, target, taskId, contextId, now) ==
  EvictLeastRecentlyUsed(
    [PruneExpired(entries, now) EXCEPT ![h] = Entry(target, taskId, contextId, now)])

\* A resolved handle counts as used; its expiry stays.
Resolve(entries, h, now) ==
  LET pruned == PruneExpired(entries, now)
  IN  IF Live(entries, h, now)
        THEN [pruned EXCEPT ![h] = [entries[h] EXCEPT !.lastAccessedAt = now]]
        ELSE pruned

\* A refreshed handle names what it is given, with the context it had if none
\* is given, and expires ttlMs from now.
Refresh(entries, h, target, taskId, contextId, now) ==
  LET pruned == PruneExpired(entries, now)
      known == IF contextId = None THEN entries[h].contextId ELSE contextId
  IN  IF Live(entries, h, now)
        THEN EvictLeastRecentlyUsed(
               [pruned EXCEPT ![h] = Entry(target, taskId, known, now)])
        ELSE pruned

\* The error requireLiveEntry throws for a handle that is not live.
LookupError(entries, h, now) ==
  IF Expired(entries, h, now) THEN "EXPIRED_TASK_HANDLE" ELSE "UNKNOWN_TASK_HANDLE"
=============================================================================
