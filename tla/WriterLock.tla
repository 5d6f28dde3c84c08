----------------------------- MODULE WriterLock -----------------------------
(***************************************************************************)
(* The writer lock of a json-file task directory                           *)
(* (task-store-write-lock.ts): a file created exclusively, shared by the   *)
(* stores of one process through HELD_LOCKS, and reclaimed by others when  *)
(* its payload says that the owner is gone.                                *)
(*                                                                         *)
(* Each action is one call of the file system and the code up to the next  *)
(* one.  A process stands for one life of a host process: with the start   *)
(* time of the payload, a pid that was given to another process is told    *)
(* from the owner's.  A restarted host is another process of the set.      *)
(***************************************************************************)
EXTENDS Naturals, FiniteSets

CONSTANTS
  Processes,   \* lives of host processes
  Stores,      \* stores opened on the directory, each once
  ProcessOf,   \* store -> the process that opens it
  MayDie,      \* the processes that may die
  MaySurvive,  \* the processes whose host listens for termination signals too
  MayOutlive,  \* a holder may keep the lock for longer than staleMs
  None

\* What a lock file holds, and an entry of HELD_LOCKS.  Every store that
\* shares an entry is one of the stores that a process opened: finitely many.
Files == [by : Stores, owner : Processes, written : BOOLEAN, old : BOOLEAN]
Entries == [by : Stores, count : 0..Cardinality(Stores), releasing : BOOLEAN]

ASSUME LockAssumption ==
  /\ ProcessOf \in [Stores -> Processes]
  /\ MayOutlive \in BOOLEAN
  /\ MayDie \subseteq Processes
  /\ MaySurvive \subseteq Processes
  /\ IsFiniteSet(Stores)
  /\ None \notin Stores \union Files \union Entries

VARIABLES
  file,   \* the lock file, or None
  held,   \* HELD_LOCKS of each process: its entry for the lock, or None
  store,  \* store -> where its acquire or release stands, and its entry
  up      \* the processes that are alive

\* What survived signals took, for the properties: the stores that were open
\* then, and whether one came while its process was removing the file.
VARIABLES lost, overtaken

signalled == <<lost, overtaken>>
vars == <<file, held, store, up, signalled>>

EntryOf(a) == held[ProcessOf[a]]
At(a, pc) == store[a].pc = pc /\ ProcessOf[a] \in up
Goes(a, pc) == [store EXCEPT ![a].pc = pc]

-----------------------------------------------------------------------------
\* Variant: a second store of the process does not count its share.
AcquireUncounted(a) ==
  /\ At(a, "idle")
  /\ IF EntryOf(a) = None
       THEN store' = Goes(a, "opening")
       ELSE /\ ~EntryOf(a).releasing
            /\ store' = [store EXCEPT ![a] = [pc |-> "holding",
                                              entry |-> EntryOf(a).by]]
  /\ UNCHANGED <<file, held, up, signalled>>

\* An entry that is being released is waited for, any other is shared.
Acquire(a) ==
  /\ At(a, "idle")
  /\ IF EntryOf(a) = None
       THEN store' = Goes(a, "opening") /\ UNCHANGED held
       ELSE /\ ~EntryOf(a).releasing
            /\ held' = [held EXCEPT ![ProcessOf[a]].count = @ + 1]
            /\ store' = [store EXCEPT ![a] = [pc |-> "holding",
                                              entry |-> EntryOf(a).by]]
  /\ UNCHANGED <<file, up, signalled>>

\* open(path, "wx") creates the file or fails with EEXIST.
Open(a) ==
  /\ At(a, "opening") \/ At(a, "retrying")
  /\ IF file = None
       THEN /\ file' = [by |-> a, owner |-> ProcessOf[a], written |-> FALSE, old |-> FALSE]
            /\ store' = Goes(a, "writing")
       ELSE store' = Goes(a, "reading") /\ UNCHANGED file
  /\ UNCHANGED <<held, up, signalled>>

\* The payload is written to the file that was opened, wherever it is now.
WritePayload(a) ==
  /\ At(a, "writing")
  /\ file' = IF file # None /\ file.by = a THEN [file EXCEPT !.written = TRUE] ELSE file
  /\ held' = [held EXCEPT ![ProcessOf[a]] = [by |-> a, count |-> 1, releasing |-> FALSE]]
  /\ store' = [store EXCEPT ![a] = [pc |-> "holding", entry |-> a]]
  /\ UNCHANGED <<up, signalled>>

WriteFails(a) ==
  /\ At(a, "writing")
  /\ file' = None
  /\ store' = Goes(a, "failed")
  /\ UNCHANGED <<held, up, signalled>>

\* inspectLockPayload: dead-pid, recycled-pid or too-old.
Stale(f) == f.owner \notin up \/ f.old

\* Variant: a lock with an unreadable payload is reclaimed at once.
InspectAtOnce(a) ==
  /\ At(a, "reading")
  /\ store' = Goes(a, IF file = None \/ ~file.written \/ Stale(file)
                        THEN "reclaiming" ELSE "retrying")
  /\ UNCHANGED <<file, held, up, signalled>>

\* readLockPayload and what follows from it: a missing or unreadable payload
\* makes the age of the file decide.
Inspect(a) ==
  /\ At(a, "reading")
  /\ store' = Goes(a, IF file = None \/ ~file.written THEN "checking"
                      ELSE IF Stale(file) THEN "reclaiming" ELSE "retrying")
  /\ UNCHANGED <<file, held, up, signalled>>

\* Variant: a lock with an unreadable payload is never reclaimed.
CheckAgeKeeps(a) ==
  /\ At(a, "checking")
  /\ store' = Goes(a, "retrying")
  /\ UNCHANGED <<file, held, up, signalled>>

CheckAge(a) ==
  /\ At(a, "checking")
  /\ store' = Goes(a, IF file # None /\ file.old THEN "reclaiming" ELSE "retrying")
  /\ UNCHANGED <<file, held, up, signalled>>

\* rm(path, force): whatever lock is there by now.
Reclaim(a) ==
  /\ At(a, "reclaiming")
  /\ file' = None
  /\ store' = Goes(a, "retrying")
  /\ UNCHANGED <<held, up, signalled>>

\* The time is up, or a call of the file system failed for another reason than
\* that the file exists: the acquire throws.
GivesUp(a) ==
  /\ At(a, "opening") \/ At(a, "retrying") \/ At(a, "reclaiming")
  /\ store' = Goes(a, "failed")
  /\ UNCHANGED <<file, held, up, signalled>>

-----------------------------------------------------------------------------
\* Variant: the first store that closes releases the lock.
ReleaseFirst(a) ==
  LET p == ProcessOf[a] IN
  /\ At(a, "holding")
  /\ IF held[p] # None /\ held[p].by = store[a].entry
       THEN /\ held' = [held EXCEPT ![p].count = @ - 1, ![p].releasing = TRUE]
            /\ store' = Goes(a, "releasing")
       ELSE store' = Goes(a, "released") /\ UNCHANGED held
  /\ UNCHANGED <<file, up, signalled>>

\* releaseHeldLock: the last store of the entry removes the file.
Release(a) ==
  LET p == ProcessOf[a]
      last == held[p].count = 1
  IN  /\ At(a, "holding")
      /\ IF held[p] # None /\ held[p].by = store[a].entry
           THEN /\ held' = [held EXCEPT ![p].count = @ - 1, ![p].releasing = last]
                /\ store' = Goes(a, IF last THEN "releasing" ELSE "released")
           ELSE store' = Goes(a, "released") /\ UNCHANGED held
      /\ UNCHANGED <<file, up, signalled>>

\* rm(path, force), which is taken to succeed, and the entry is dropped,
\* whichever is there by now.
RemoveFile(a) ==
  /\ At(a, "releasing")
  /\ file' = None
  /\ held' = [held EXCEPT ![ProcessOf[a]] = None]
  /\ store' = Goes(a, "released")
  /\ UNCHANGED <<up, signalled>>

\* A termination signal that the host listens for too: handleTerminationSignal
\* removes the lock the process holds (releaseAllLocksSync) but leaves the end of
\* the process to the host.  Its stores stay open, without the lock.
Signal(p) ==
  /\ p \in up \intersect MaySurvive /\ held[p] # None
  /\ file' = None
  /\ held' = [held EXCEPT ![p] = None]
  /\ lost' = lost \union {a \in Stores : ProcessOf[a] = p /\ store[a].pc = "holding"}
  /\ overtaken' = (overtaken \/ held[p].releasing)
  /\ UNCHANGED <<store, up>>

\* The process dies.  A signal lets it remove the lock it holds
\* (releaseAllLocksSync), a crash does not.
Die(p) ==
  /\ p \in up \intersect MayDie
  /\ up' = up \ {p}
  /\ file' \in IF held[p] = None THEN {file} ELSE {file, None}
  /\ held' = [held EXCEPT ![p] = None]
  /\ store' = [a \in Stores |-> IF ProcessOf[a] = p THEN [pc |-> "idle", entry |-> None]
                                                    ELSE store[a]]
  /\ UNCHANGED signalled

\* staleMs go by.  Only a lock left behind, or held that long, gets this old.
Age ==
  /\ file # None /\ ~file.old
  /\ file.owner \notin up \/ (MayOutlive /\ file.written)
  /\ file' = [file EXCEPT !.old = TRUE]
  /\ UNCHANGED <<held, store, up, signalled>>

-----------------------------------------------------------------------------
Init ==
  /\ file = None
  /\ held = [p \in Processes |-> None]
  /\ store = [a \in Stores |-> [pc |-> "idle", entry |-> None]]
  /\ up = Processes
  /\ lost = {} /\ overtaken = FALSE

\* acquireTaskStoreWriteLock, after it was called
Acquiring(a) ==
  \/ Open(a) \/ WritePayload(a) \/ WriteFails(a)
  \/ Inspect(a) \/ CheckAge(a) \/ Reclaim(a)

Releasing(a) == Release(a) \/ RemoveFile(a)

Next ==
  \/ \E a \in Stores : Acquire(a) \/ Acquiring(a) \/ GivesUp(a) \/ Releasing(a)
  \/ \E p \in Processes : Signal(p) \/ Die(p)
  \/ Age

Spec == Init /\ [][Next]_vars

-----------------------------------------------------------------------------
Pcs == {"idle", "opening", "writing", "reading", "checking", "reclaiming",
        "retrying", "holding", "releasing", "released", "failed"}

\* Every variable holds a value of its shape; a share is never negative.
TypeOK ==
  /\ file \in Files \union {None}
  /\ held \in [Processes -> Entries \union {None}]
  /\ store \in [Stores -> [pc : Pcs, entry : Stores \union {None}]]
  /\ up \subseteq Processes
  /\ lost \subseteq Stores /\ overtaken \in BOOLEAN

Holding(a) == store[a].pc = "holding"

\* "A single-writer JSON file directory": at no time do two processes have a
\* store open on the directory.  The code does not keep this for stores that
\* were open at a signal their process survived, nor once such a signal came
\* while the process was removing its lock file: that removal may hit the lock
\* of the next owner.
SingleWriter ==
  \/ overtaken
  \/ \A a, b \in Stores \ lost : Holding(a) /\ Holding(b) => ProcessOf[a] = ProcessOf[b]

\* As long as a store is open the lock file is the one of its process: no
\* waiting process, and no other store of the process, has removed it.  Only a
\* survived signal does, with the exceptions of SingleWriter.
HolderHasFile ==
  \/ overtaken
  \/ \A a \in Stores \ lost :
       Holding(a) => file # None /\ file.owner = ProcessOf[a] /\ file.by = store[a].entry

\* The open stores that share the entry of their process.
Sharers(p) ==
  {a \in Stores : ProcessOf[a] = p /\ Holding(a) /\ store[a].entry = held[p].by}

\* The entry of a process counts the stores that share it: none is left
\* without the lock by another one that closes.
CountsStores == \A p \in Processes : held[p] # None => held[p].count = Cardinality(Sharers(p))
=============================================================================
