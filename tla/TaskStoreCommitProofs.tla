------------------------ MODULE TaskStoreCommitProofs ------------------------
(***************************************************************************)
(* More theorems about TaskStore, for every value of its constants: what   *)
(* an acknowledged commit and a later read can rely on, and the binding of *)
(* a task.                                                                 *)
(***************************************************************************)
EXTENDS TaskStoreProofs

-----------------------------------------------------------------------------
(* Operations.                                                             *)

\* A step of an operation never changes what it was called with.
SameCall(o) ==
  /\ ops'[o].kind = ops[o].kind /\ ops'[o].task = ops[o].task
  /\ ops'[o].arg = ops[o].arg

LEMMA EndedFields ==
  ASSUME TypeOK, NEW o \in DOMAIN ops, NEW pc
  PROVE  /\ Ended(o, pc).pc = pc /\ Ended(o, pc).kind = ops[o].kind
         /\ Ended(o, pc).task = ops[o].task /\ Ended(o, pc).arg = ops[o].arg
         /\ ops[o].kind = "load" /\ pc = "done" => Ended(o, pc).record = ops[o].record
<1>1. ops[o] \in OpRecord
  BY DEF TypeOK
<1> QED BY <1>1 DEF Ended, OpRecord

\* What a step of an operation does to it, action by action.
Loads(o) ==
  /\ ops[o].pc = "queued" /\ ops'[o].pc = "loaded"
  /\ ops'[o].record = records[ops[o].task]
  /\ UNCHANGED <<records, pending, subs, listeners, bound>>

\* It ends without an effect.
Stops(o) ==
  /\ ops[o].pc \in {"queued", "loaded", "saving"}
  /\ ops'[o].pc \in {"done", "failed"}
  /\ ops[o].kind = "event" => ops'[o].pc = "failed"
  /\ ops[o].kind = "load" /\ ops'[o].pc = "done" =>
       ops[o].pc = "loaded" /\ ops'[o].record = ops[o].record
  /\ UNCHANGED <<records, pending, subs, listeners, bound>>

Holds(o) ==
  /\ HoldBinding(o) /\ ops'[o].pc = "done"

Subscribes(o) ==
  /\ Subscribe(o) /\ ops'[o].pc = "done"

Saves(o) ==
  /\ SaveRecord(o) /\ ops'[o].record = NextRecord(o)
  /\ ops'[o].pc = IF Kind = "memory" THEN "saved" ELSE "saving"

Renames(o) ==
  /\ RenameRecord(o) /\ ops'[o].record = ops[o].record
  /\ ops'[o].pc = "saved"

Finishes(o) ==
  /\ FinishCommit(o) /\ ops'[o].pc = "done"

LEMMA StepForms ==
  ASSUME TypeOK, NEW o \in DOMAIN ops, Step(o), ~Cleanup(o)
  PROVE  /\ \/ Loads(o) \/ Stops(o) \/ Holds(o) \/ Subscribes(o)
            \/ Saves(o) \/ Renames(o) \/ Finishes(o)
         /\ \A p \in DOMAIN ops : SameCall(p)
         /\ closed' = closed /\ DOMAIN ops' = DOMAIN ops
         /\ \A p \in DOMAIN ops : p # o => ops'[p] = ops[p]
<1>0. /\ ops \in Seq(OpRecord) /\ ops[o] \in OpRecord
  BY DEF TypeOK
<1>1. closed' = closed
  BY DEF Step, LoadRecord, LoadFails, Return, SaveFails, HoldBinding, Subscribe,
         FinishCommit, SaveRecord, RenameRecord
<1>2. DOMAIN ops' = DOMAIN ops /\ \A p \in DOMAIN ops : p # o => ops'[p] = ops[p]
  BY StepShape
<1>3. ASSUME NEW pc, ops' = [ops EXCEPT ![o] = Ended(o, pc)]
      PROVE  /\ SameCall(o) /\ ops'[o].pc = pc
             /\ ops[o].kind = "load" /\ pc = "done" => ops'[o].record = ops[o].record
  BY <1>0, <1>3, EndedFields DEF SameCall
<1>4. CASE LoadRecord(o)
  <2>1. ops[o].pc = "queued" /\ UNCHANGED <<records, pending, subs, listeners, bound>>
    BY <1>4 DEF LoadRecord, CanStart
  <2>2. CASE AnswersPending(o)
    <3>1. ops' = [ops EXCEPT ![o] = Ended(o, "done")] /\ ops[o].kind = "loadBinding"
      BY <1>4, <2>2 DEF LoadRecord, AnswersPending
    <3> QED BY <1>1, <1>2, <1>3, <2>1, <3>1 DEF Stops, SameCall
  <2>3. CASE ~AnswersPending(o) /\ Readable(ops[o].task)
    <3>1. ops' = [ops EXCEPT ![o].pc = "loaded", ![o].record = records[ops[o].task]]
      BY <1>4, <2>3 DEF LoadRecord
    <3>2. /\ ops'[o].pc = "loaded" /\ ops'[o].record = records[ops[o].task]
          /\ SameCall(o)
      BY <1>0, <3>1 DEF SameCall, OpRecord
    <3> QED BY <1>1, <1>2, <2>1, <3>2 DEF Loads, SameCall
  <2>4. CASE ~AnswersPending(o) /\ ~Readable(ops[o].task)
    <3>1. ops' = [ops EXCEPT ![o] = Ended(o, "failed")]
      BY <1>4, <2>4 DEF LoadRecord
    <3> QED BY <1>1, <1>2, <1>3, <2>1, <3>1 DEF Stops, SameCall
  <2> QED BY <2>2, <2>3, <2>4
<1>5. CASE LoadFails(o) \/ SaveFails(o)
  <2>1. /\ ops' = [ops EXCEPT ![o] = Ended(o, "failed")]
        /\ ops[o].pc \in {"queued", "saving"}
        /\ UNCHANGED <<records, pending, subs, listeners, bound>>
    BY <1>5 DEF LoadFails, SaveFails, CanStart
  <2> QED BY <1>1, <1>2, <1>3, <2>1 DEF Stops, SameCall
<1>6. CASE Return(o)
  <2>1. /\ ops' = [ops EXCEPT ![o] = Ended(o, IF ops[o].kind = "event" THEN "failed"
                                                                      ELSE "done")]
        /\ ops[o].pc = "loaded"
        /\ UNCHANGED <<records, pending, subs, listeners, bound>>
    BY <1>6 DEF Return
  <2> QED BY <1>1, <1>2, <1>3, <2>1 DEF Stops, SameCall
<1>7. CASE HoldBinding(o) \/ Subscribe(o) \/ FinishCommit(o)
  <2>1. ops' = [ops EXCEPT ![o] = Ended(o, "done")]
    BY <1>7 DEF HoldBinding, Subscribe, FinishCommit
  <2> QED BY <1>1, <1>2, <1>3, <1>7, <2>1 DEF Holds, Subscribes, Finishes, SameCall
<1>8. CASE SaveRecord(o)
  <2> DEFINE pc == IF Kind = "memory" THEN "saved" ELSE "saving"
  <2>1. ops' = [ops EXCEPT ![o] = [ops[o] EXCEPT !.record = NextRecord(o), !.pc = pc]]
    BY <1>8 DEF SaveRecord
  <2>2. ops'[o].pc = pc /\ ops'[o].record = NextRecord(o) /\ SameCall(o)
    BY <1>0, <2>1 DEF SameCall, OpRecord
  <2> QED BY <1>1, <1>2, <1>8, <2>2 DEF Saves, SameCall
<1>9. CASE RenameRecord(o)
  <2>1. ops' = [ops EXCEPT ![o] = [ops[o] EXCEPT !.pc = "saved"]]
    BY <1>9 DEF RenameRecord
  <2>2. ops'[o].pc = "saved" /\ ops'[o].record = ops[o].record /\ SameCall(o)
    BY <1>0, <2>1 DEF SameCall, OpRecord
  <2> QED BY <1>1, <1>2, <1>9, <2>2 DEF Renames, SameCall
<1> QED BY <1>4, <1>5, <1>6, <1>7, <1>8, <1>9 DEF Step

\* An operation in flight is the only one of its task.
LEMMA AloneInFlight ==
  ASSUME TypeOK, QueueInv, NEW o \in DOMAIN ops, InFlight(o),
         NEW p \in DOMAIN ops, p # o, SameTask(o, p)
  PROVE  ~InFlight(p)
<1>1. DOMAIN ops = 1..Len(ops) /\ Len(ops) \in Nat
  BY DEF TypeOK
<1>2. CASE o < p
  BY <1>1, <1>2 DEF QueueInv, StartedInOrder, InFlight, Settled, SettledStates
<1>3. CASE p < o
  BY <1>1, <1>3 DEF QueueInv, StartedInOrder, InFlight, Settled, SettledStates, SameTask
<1> QED BY <1>1, <1>2, <1>3

-----------------------------------------------------------------------------
(* Commits.                                                                *)

EntryOf(o, old) == [sequence |-> SequenceOf(old) + 1, event |-> EventOf(o)]

Committing == {"snapshot", "event", "persist", "writeBinding"}

\* The record an operation makes of a stored one: it changes what it was called
\* to change, an event is appended to the journal, and nothing else touches it.
Follows(o, old, new) ==
  LET arg == ops[o].arg IN
  /\ ops[o].kind \in Committing
  /\ new \in StoredTaskRecord /\ new # None
  /\ ops[o].kind # "snapshot" => old # None
  /\ ops[o].kind = "snapshot" => new.task = WithMessage(arg.task, arg.message)
  /\ ops[o].kind = "event" => new.task = MergeEvent(old.task, EventOf(o))
  /\ ops[o].kind = "persist" =>
       new = [old EXCEPT !.task = EnsureHistoryContainsMessage(old.task, arg)]
  /\ ops[o].kind = "writeBinding" => new = [old EXCEPT !.binding = arg]
  /\ new.journal = IF ops[o].kind = "event"
                     THEN Append(JournalOf(old), EntryOf(o, old))
                     ELSE JournalOf(old)

\* Between its awaits an operation works on the record that is stored: nobody
\* replaced it meanwhile.
WorksOnStored(o) ==
  LET stored == records[ops[o].task] IN
  /\ ops[o].pc = "loaded" => ops[o].record = stored
  /\ ops[o].pc = "saving" => Follows(o, stored, ops[o].record)
  /\ ops[o].pc = "saved" => ops[o].kind \in Committing
  /\ ops[o].pc = "saved" /\ ops[o].kind = "event" =>
       /\ stored # None /\ stored.journal # <<>>
       /\ stored.journal[Len(stored.journal)].event = EventOf(o)

InJournal(event, record) ==
  record # None /\ \E i \in DOMAIN record.journal : record.journal[i].event = event

\* The event of a commit is in the journal once it was saved, and only then.
EventStored(o) ==
  LET stored == records[ops[o].task] IN
  ops[o].kind = "event" =>
    /\ ops[o].pc \in {"saved", "done"} => InJournal(EventOf(o), stored)
    /\ ops[o].pc \in {"queued", "loaded", "saving", "failed"} =>
         ~InJournal(EventOf(o), stored)

CommitInv ==
  ~Forgotten => \A o \in DOMAIN ops : WorksOnStored(o) /\ EventStored(o)

LEMMA NextFollows ==
  ASSUME TypeOK, NEW o \in DOMAIN ops, Writes(ops[o])
  PROVE  Follows(o, ops[o].record, NextRecord(o))
<1> DEFINE op == ops[o]
           current == op.record
<1>1. /\ op.kind \in Committing /\ current \in StoredTaskRecord \union {None}
      /\ NextRecord(o) \in StoredTaskRecord
      /\ op.kind # "snapshot" => current # None
  BY NextRecordType DEF TypeOK, OpRecord, Writes, Committing
<1>2. NextRecord(o) # None
  BY <1>1, NoneAssumption
<1>3. CASE op.kind = "snapshot"
  BY <1>1, <1>2, <1>3 DEF NextRecord, Follows
<1>4. CASE op.kind = "event"
  BY <1>1, <1>2, <1>4 DEF NextRecord, Follows, JournalOf, EntryOf
<1>5. CASE op.kind = "persist"
  <2>1. NextRecord(o) = [current EXCEPT !.task = EnsureHistoryContainsMessage(current.task, op.arg)]
    BY <1>5 DEF NextRecord
  <2>2. NextRecord(o).journal = current.journal
    BY <1>1, <1>5, <2>1 DEF StoredTaskRecord
  <2> QED BY <1>1, <1>2, <1>5, <2>1, <2>2 DEF Follows, JournalOf
<1>6. CASE op.kind = "writeBinding"
  <2>1. NextRecord(o) = [current EXCEPT !.binding = op.arg]
    BY <1>6 DEF NextRecord
  <2>2. NextRecord(o).journal = current.journal
    BY <1>1, <1>6, <2>1 DEF StoredTaskRecord
  <2> QED BY <1>1, <1>2, <1>6, <2>1, <2>2 DEF Follows, JournalOf
<1> QED BY <1>1, <1>3, <1>4, <1>5, <1>6 DEF Committing

\* The events of different calls differ.
LEMMA EventIdentity ==
  ASSUME TypeOK, NEW o \in DOMAIN ops, ops[o].kind = "event"
  PROVE  EventOf(o).id = o
<1>1. ops[o].arg \in JournalEvent
  BY StoreAssumption DEF TypeOK, OpRecord, ArgOf
<1> QED BY <1>1 DEF EventOf, JournalEvent, StatusUpdate, ArtifactUpdate

LEMMA JournaledMeans ==
  \A o, record : Journaled(o, record) <=> InJournal(EventOf(o), record)
BY DEF Journaled, EventsOf, InJournal

\* The journal that follows another holds its events and that of the call.
LEMMA FollowingJournal ==
  ASSUME TypeOK, NEW o \in DOMAIN ops,
         NEW old \in StoredTaskRecord \union {None}, NEW new, Follows(o, old, new)
  PROVE  /\ ops[o].kind = "event" =>
              /\ InJournal(EventOf(o), new) /\ new.journal # <<>>
              /\ new.journal[Len(new.journal)].event = EventOf(o)
         /\ \A p \in DOMAIN ops :
              ops[p].kind = "event" /\ p # o =>
                (InJournal(EventOf(p), new) <=> InJournal(EventOf(p), old))
<1>1. JournalOf(old) \in Seq(JournalEntry)
  BY DEF JournalOf, StoredTaskRecord
<1>2. new # None /\ (old # None => JournalOf(old) = old.journal)
      /\ (old = None => JournalOf(old) = <<>>)
  BY DEF Follows, JournalOf
<1>3. CASE ops[o].kind # "event"
  <2>1. new.journal = JournalOf(old)
    BY <1>3 DEF Follows
  <2>2. CASE old = None
    BY <1>2, <1>3, <2>1, <2>2 DEF InJournal
  <2>3. CASE old # None
    BY <1>2, <1>3, <2>1, <2>3 DEF InJournal
  <2> QED BY <2>2, <2>3
<1>4. CASE ops[o].kind = "event"
  <2> DEFINE j == JournalOf(old)
             n == Len(j)
             e == EntryOf(o, old)
  <2>1. new.journal = Append(j, e) /\ old # None
    BY <1>4 DEF Follows
  <2>2. /\ e.event = EventOf(o) /\ n \in Nat /\ DOMAIN j = 1..n
        /\ Len(Append(j, e)) = n + 1 /\ DOMAIN Append(j, e) = 1..(n + 1)
        /\ Append(j, e)[n + 1] = e
        /\ \A i \in 1..n : Append(j, e)[i] = j[i]
    <3>1. e.event = EventOf(o)
      BY DEF EntryOf
    <3> HIDE DEF j, e
    <3> QED BY <1>1, <3>1 DEF j
  <2>3. /\ InJournal(EventOf(o), new) /\ new.journal # <<>>
        /\ new.journal[Len(new.journal)].event = EventOf(o)
    <3> HIDE DEF j, e, n
    <3> QED BY <1>2, <2>1, <2>2 DEF InJournal
  <2>4. ASSUME NEW p \in DOMAIN ops, ops[p].kind = "event", p # o
        PROVE  InJournal(EventOf(p), new) <=> InJournal(EventOf(p), old)
    <3>1. EventOf(p) # EventOf(o)
      BY <1>4, <2>4, EventIdentity
    <3>2. /\ InJournal(EventOf(p), new) <=> \E i \in 1..(n + 1) : Append(j, e)[i].event = EventOf(p)
          /\ InJournal(EventOf(p), old) <=> \E i \in 1..n : j[i].event = EventOf(p)
      <4> HIDE DEF e, n
      <4> QED BY <1>2, <2>1, <2>2 DEF InJournal
    <3> HIDE DEF j, e, n
    <3> QED BY <2>2, <3>1, <3>2
  <2> QED BY <2>3, <2>4
<1> QED BY <1>3, <1>4

LEMMA FollowsStays ==
  ASSUME NEW o, SameCall(o)
  PROVE  /\ EventOf(o)' = EventOf(o)
         /\ \A old, new : Follows(o, old, new)' <=> Follows(o, old, new)
<1>1. EventOf(o)' = EventOf(o)
  BY DEF EventOf, SameCall
<1> QED BY <1>1 DEF Follows, EntryOf, SameCall

\* An operation that makes no step keeps what it knows while nobody writes the
\* record of its task.
LEMMA CommitQuiet ==
  ASSUME CommitInv, ~Forgotten, NEW o \in DOMAIN ops, ops'[o] = ops[o],
         records'[ops[o].task] = records[ops[o].task]
  PROVE  WorksOnStored(o)' /\ EventStored(o)'
<1>1. WorksOnStored(o) /\ EventStored(o) /\ SameCall(o)
  BY DEF CommitInv, SameCall
<1> QED BY <1>1, FollowsStays DEF WorksOnStored, EventStored

\* A step writes no record, or the one that follows the stored record.
LEMMA StepWrites ==
  ASSUME TypeOK, CommitInv, ~Forgotten, NEW o \in DOMAIN ops, Step(o), ~Cleanup(o)
  PROVE  \/ records' = records /\ (ops'[o].pc = "saved" => ops[o].pc = "saved")
         \/ \E new : /\ records' = [records EXCEPT ![ops[o].task] = new]
                     /\ Follows(o, records[ops[o].task], new)
                     /\ InFlight(o) /\ ops[o].pc # "saved" /\ ops'[o].pc = "saved"
<1>1. WorksOnStored(o)
  BY DEF CommitInv
<1>2. CASE Loads(o) \/ Stops(o)
  BY <1>2 DEF Loads, Stops
<1>3. CASE Holds(o) \/ Subscribes(o) \/ Finishes(o)
  BY <1>3 DEF Holds, Subscribes, Finishes, HoldBinding, Subscribe, FinishCommit
<1>4. CASE Saves(o)
  <2>1. ops[o].pc = "loaded" /\ Writes(ops[o])
    BY <1>4 DEF Saves, SaveRecord
  <2>2. Follows(o, records[ops[o].task], NextRecord(o))
    BY <1>1, <2>1, NextFollows DEF WorksOnStored
  <2>3. CASE Kind = "memory"
    BY <1>4, <2>1, <2>2, <2>3 DEF Saves, SaveRecord, Store, InFlight
  <2>4. CASE Kind # "memory"
    BY <1>4, <2>1, <2>4 DEF Saves, SaveRecord
  <2> QED BY <2>3, <2>4
<1>5. CASE Renames(o)
  <2>1. ops[o].pc = "saving" /\ records' = [records EXCEPT ![ops[o].task] = ops[o].record]
    BY <1>5 DEF Renames, RenameRecord, Store
  <2> QED BY <1>1, <1>5, <2>1 DEF WorksOnStored, Renames, InFlight
<1> QED BY <1>2, <1>3, <1>4, <1>5, StepForms

LEMMA CommitStep ==
  ASSUME TypeOK, QueueInv, CommitInv, ~Forgotten,
         NEW o \in DOMAIN ops, Step(o), ~Cleanup(o)
  PROVE  CommitInv'
<1> DEFINE t == ops[o].task
<1>0. /\ DOMAIN ops' = DOMAIN ops
      /\ \A p \in DOMAIN ops : SameCall(p) /\ (p # o => ops'[p] = ops[p])
      /\ \A p \in DOMAIN ops : ops[p].task \in Tasks
      /\ records \in [Tasks -> StoredTaskRecord \union {None}]
  BY StepForms DEF TypeOK, OpRecord
<1>1. WorksOnStored(o) /\ EventStored(o)
  BY DEF CommitInv
<1>2. /\ EventOf(o)' = EventOf(o)
      /\ \A old, new : Follows(o, old, new)' <=> Follows(o, old, new)
      /\ ops'[o].kind = ops[o].kind /\ ops'[o].task = t
  BY <1>0, FollowsStays DEF SameCall
<1>3. ASSUME records' = records
      PROVE  \A p \in DOMAIN ops : p # o => WorksOnStored(p)' /\ EventStored(p)'
  BY <1>0, <1>3, CommitQuiet
<1>4. ASSUME NEW new, records' = [records EXCEPT ![t] = new],
             Follows(o, records[t], new), InFlight(o), ops'[o].pc = "saved"
      PROVE  CommitInv'
  <2>1. records'[t] = new /\ records[t] \in StoredTaskRecord \union {None} /\ new # None
    BY <1>0, <1>4 DEF Follows
  <2>2. /\ ops[o].kind = "event" =>
             /\ InJournal(EventOf(o), new) /\ new.journal # <<>>
             /\ new.journal[Len(new.journal)].event = EventOf(o)
        /\ \A p \in DOMAIN ops :
             ops[p].kind = "event" /\ p # o =>
               (InJournal(EventOf(p), new) <=> InJournal(EventOf(p), records[t]))
    BY <1>4, <2>1, FollowingJournal, ZenonT(30)
  <2>3. WorksOnStored(o)' /\ EventStored(o)'
    BY <1>2, <1>4, <2>1, <2>2 DEF Follows, WorksOnStored, EventStored
  <2>4. ASSUME NEW p \in DOMAIN ops, p # o
        PROVE  WorksOnStored(p)' /\ EventStored(p)'
    <3>1. CASE ops[p].task # t
      <4>1. records'[ops[p].task] = records[ops[p].task]
        BY <1>0, <1>4, <3>1
      <4> QED BY <1>0, <2>4, <4>1, CommitQuiet
    <3>2. CASE ops[p].task = t
      <4>1. ~InFlight(p) /\ ops'[p] = ops[p] /\ EventStored(p)
        BY <1>0, <1>4, <2>4, <3>2, AloneInFlight DEF SameTask, CommitInv
      <4>2. EventOf(p)' = EventOf(p)
        BY <1>0, FollowsStays
      <4>3. WorksOnStored(p)'
        BY <4>1 DEF WorksOnStored, InFlight
      <4>4. EventStored(p)'
        BY <2>1, <2>2, <2>4, <3>2, <4>1, <4>2 DEF EventStored
      <4> QED BY <4>3, <4>4
    <3> QED BY <3>1, <3>2
  <2> QED BY <1>0, <2>3, <2>4 DEF CommitInv
<1>5. ASSUME records' = records, ops'[o].pc = "saved" => ops[o].pc = "saved"
      PROVE  WorksOnStored(o)' /\ EventStored(o)'
  <2>1. CASE Loads(o)
    BY <1>1, <1>2, <1>5, <2>1 DEF Loads, WorksOnStored, EventStored
  <2>2. CASE Stops(o)
    BY <1>1, <1>2, <1>5, <2>2 DEF Stops, WorksOnStored, EventStored
  <2>3. CASE Holds(o) \/ Subscribes(o)
    BY <1>1, <1>2, <1>5, <2>3
    DEF Holds, Subscribes, HoldBinding, Subscribe, WorksOnStored, EventStored
  <2>4. CASE Saves(o)
    <3>1. /\ ops[o].pc = "loaded" /\ Writes(ops[o])
          /\ ops'[o].record = NextRecord(o) /\ ops'[o].pc \in {"saved", "saving"}
      BY <2>4 DEF Saves, SaveRecord
    <3>2. Follows(o, records[t], NextRecord(o))
      BY <1>1, <3>1, NextFollows DEF WorksOnStored
    <3> QED BY <1>1, <1>2, <1>5, <3>1, <3>2 DEF WorksOnStored, EventStored
  <2>5. CASE Renames(o)
    BY <1>5, <2>5 DEF Renames, RenameRecord
  <2>6. CASE Finishes(o)
    BY <1>1, <1>2, <1>5, <2>6 DEF Finishes, FinishCommit, WorksOnStored, EventStored
  <2> QED BY <2>1, <2>2, <2>3, <2>4, <2>5, <2>6, StepForms
<1>6. CASE records' = records /\ (ops'[o].pc = "saved" => ops[o].pc = "saved")
  BY <1>0, <1>3, <1>5, <1>6 DEF CommitInv
<1> QED BY <1>4, <1>6, StepWrites

\* The event of a call that is still to be made is in no journal.
LEMMA CommitCall == TypeOK /\ JournalInv /\ CommitInv /\ ~Forgotten /\ Call => CommitInv'
<1> SUFFICES ASSUME TypeOK, JournalInv, CommitInv, ~Forgotten,
                    NEW kind \in Calls, NEW t \in Tasks, NEW arg \in ArgOf(kind),
                    Enqueue(kind, t, arg)
             PROVE  CommitInv'
  BY DEF Call
<1>0. PICK n \in Nat : n = Len(ops) + 1
  BY DEF TypeOK
<1>1. /\ DOMAIN ops = 1..Len(ops) /\ DOMAIN ops' = 1..n /\ Len(ops) \in Nat
      /\ \A p \in DOMAIN ops : ops'[p] = ops[p]
      /\ ops'[n].pc = "queued" /\ ops'[n].task = t /\ ops'[n].kind = kind
      /\ ops'[n].arg = arg
      /\ records' = records
  BY <1>0 DEF Enqueue, TypeOK
<1>2. \A p \in DOMAIN ops : WorksOnStored(p)' /\ EventStored(p)'
  BY <1>1, CommitQuiet
<1>3. WorksOnStored(n)'
  BY <1>1 DEF WorksOnStored
<1>4. EventStored(n)'
  <2> SUFFICES ASSUME kind = "event", InJournal(EventOf(n), records[t])'
               PROVE  FALSE
    BY <1>1 DEF EventStored
  <2>1. arg \in JournalEvent
    BY StoreAssumption DEF ArgOf
  <2>2. EventOf(n)'.id = n
    BY <1>1, <2>1 DEF EventOf, JournalEvent, StatusUpdate, ArtifactUpdate
  <2>3. /\ records[t] # None
        /\ \E i \in DOMAIN records[t].journal : records[t].journal[i].event.id = n
    BY <1>1, <2>2 DEF InJournal
  <2>4. FromCalls(ops, records[t], t)
    BY <2>3 DEF JournalInv, StoredInOrder
  <2> QED BY <1>1, <2>3, <2>4 DEF FromCalls
<1>5. \A p \in DOMAIN ops' : p \in DOMAIN ops \/ p = n
  BY <1>0, <1>1
<1> QED BY <1>2, <1>3, <1>4, <1>5 DEF CommitInv

LEMMA CrashOps ==
  ASSUME TypeOK, Crash
  PROVE  /\ DOMAIN ops' = DOMAIN ops /\ Kind = "json-file" /\ records' = records
         /\ \A p \in DOMAIN ops :
              SameCall(p) /\ (ops'[p] = ops[p] \/ ops'[p].pc = "lost")
         /\ \A p \in DOMAIN ops : ops'[p].pc \in SettledStates
<1>1. /\ ops' = [p \in DOMAIN ops |-> IF Settled(p) THEN ops[p] ELSE Ended(p, "lost")]
      /\ records' = records /\ Kind = "json-file"
  BY DEF Crash
<1>2. \A p \in DOMAIN ops : Settled(p) => ops[p].pc \in SettledStates
  BY DEF Settled, TypeOK
<1>3. \A p \in DOMAIN ops : /\ Ended(p, "lost").pc = "lost"
                            /\ Ended(p, "lost").kind = ops[p].kind
                            /\ Ended(p, "lost").task = ops[p].task
                            /\ Ended(p, "lost").arg = ops[p].arg
  BY EndedFields
<1> QED BY <1>1, <1>2, <1>3 DEF SameCall, SettledStates

LEMMA CommitNext ==
  TypeOK /\ QueueInv /\ JournalInv /\ CommitInv /\ [Next]_vars => CommitInv'
<1> SUFFICES ASSUME TypeOK, QueueInv, JournalInv, CommitInv, [Next]_vars, ~Forgotten'
             PROVE  CommitInv'
  BY DEF CommitInv
<1>1. ASSUME ops' = ops, records' = records, ~Forgotten PROVE CommitInv'
  BY <1>1, CommitQuiet DEF CommitInv
<1>2. CASE Call
  <2>1. ~Forgotten
    BY <1>2 DEF Call, Enqueue, Forgotten
  <2> QED BY <1>2, <2>1, CommitCall
<1>3. CASE \E o \in DOMAIN ops : Step(o)
  <2>1. PICK o \in DOMAIN ops : Step(o)
    BY <1>3
  <2>2. CASE Cleanup(o)
    BY <1>1, <2>2 DEF Cleanup, Forgotten
  <2>3. CASE ~Cleanup(o)
    <3>1. ~Forgotten
      BY <2>1, <2>3, StepForms DEF Forgotten
    <3> QED BY <2>1, <2>3, <3>1, CommitStep
  <2> QED BY <2>2, <2>3
<1>4. CASE Crash
  <2>1. ~Forgotten
    BY <1>4, CrashOps DEF Forgotten
  <2>2. ASSUME NEW p \in DOMAIN ops PROVE WorksOnStored(p)' /\ EventStored(p)'
    <3>1. CASE ops'[p] = ops[p]
      BY <1>4, <2>1, <2>2, <3>1, CrashOps, CommitQuiet
    <3>2. CASE ops'[p].pc = "lost"
      BY <3>2 DEF WorksOnStored, EventStored
    <3> QED BY <1>4, <3>1, <3>2, CrashOps
  <2> QED BY <1>4, <2>2, CrashOps DEF CommitInv
<1>5. CASE UNCHANGED vars
  BY <1>1, <1>5 DEF vars, Forgotten
<1>6. CASE \/ \E t \in Tasks, binding \in Bindings : PrimeBinding(t, binding)
           \/ \E t \in Tasks : DiscardPending(t)
           \/ \E s \in DOMAIN subs : NextEvent(s) \/ CloseSubscription(s)
  BY <1>1, <1>6 DEF PrimeBinding, DiscardPending, NextEvent, CloseSubscription, Forgotten
<1>7. CASE Close
  BY <1>1, <1>7 DEF Close, Forgotten
<1> QED BY <1>2, <1>3, <1>4, <1>5, <1>6, <1>7 DEF Next

\* Between its load and its rename an operation works on the record that is
\* still stored, and the event of a commit is in the stored journal from the
\* rename on and never before (commitJournalEvent).
THEOREM CommitCorrect == Spec => []CommitInv
<1>1. Init => CommitInv
  BY DEF Init, CommitInv
<1>2. Spec => []JournalInv
  BY InitJournal, JournalNext, TypeCorrect, QueueCorrect, PTL DEF Spec
<1> QED BY <1>1, <1>2, CommitNext, TypeCorrect, QueueCorrect, PTL DEF Spec

\* A commitEvent call that returned has its event in the stored journal, also
\* after a crash, and one that threw has not, although operations of the task
\* overlap with it, fail and die at every await.
THEOREM AcknowledgedCorrect == Spec => []AcknowledgedEventsStored
<1>1. CommitInv => AcknowledgedEventsStored
  BY JournaledMeans DEF CommitInv, EventStored, AcknowledgedEventsStored
<1> QED BY <1>1, CommitCorrect, PTL

-----------------------------------------------------------------------------
(* Reads.                                                                  *)

ReadInv ==
  ~Forgotten =>
    \A o, p \in DOMAIN ops :
      /\ o < p /\ SameTask(o, p)
      /\ ops[o].kind = "event" /\ ops[o].pc = "done"
      /\ ops[p].kind = "load" /\ ops[p].pc = "done"
      => InJournal(EventOf(o), ops[p].record)

LEMMA ReadStep ==
  ASSUME TypeOK, QueueInv, CommitInv, ReadInv, ~Forgotten,
         NEW q \in DOMAIN ops, Step(q), ~Cleanup(q)
  PROVE  ReadInv'
<1>0. /\ DOMAIN ops' = DOMAIN ops /\ DOMAIN ops \subseteq Nat
      /\ \A p \in DOMAIN ops : SameCall(p) /\ (p # q => ops'[p] = ops[p])
      /\ ops[q].pc \notin SettledStates
  BY StepForms, StepShape DEF TypeOK
<1> SUFFICES ASSUME NEW o \in DOMAIN ops, NEW p \in DOMAIN ops,
                    o < p, SameTask(o, p)',
                    ops'[o].kind = "event", ops'[o].pc = "done",
                    ops'[p].kind = "load", ops'[p].pc = "done"
             PROVE  InJournal(EventOf(o), ops[p].record)'
  BY <1>0 DEF ReadInv
<1>1. /\ SameTask(o, p) /\ ops[o].kind = "event" /\ ops[p].kind = "load"
      /\ EventOf(o)' = EventOf(o)
  BY <1>0, FollowsStays DEF SameCall, SameTask
<1>2. CASE p # q
  <2>1. ops'[p] = ops[p] /\ ops[p].pc = "done"
    BY <1>0, <1>2
  <2>2. Settled(o)
    BY <1>1, <2>1 DEF QueueInv, StartedInOrder
  <2>3. o # q /\ o # 0
    BY <1>0, <2>2 DEF Settled, TypeOK
  <2>4. ops'[o] = ops[o]
    BY <1>0, <2>3
  <2> QED BY <1>1, <2>1, <2>4 DEF ReadInv, InJournal
<1>3. CASE p = q
  <2>1. ops'[o] = ops[o] /\ ops[o].pc = "done"
    BY <1>0, <1>3
  <2>2. WorksOnStored(p) /\ EventStored(o)
    BY DEF CommitInv
  <2>3. ops[p].pc = "loaded" /\ ops'[p].record = ops[p].record
    <3>1. ~Loads(q) /\ ~Holds(q) /\ ~Subscribes(q)
      BY <1>1, <1>3 DEF Loads, Holds, HoldBinding, Subscribes, Subscribe
    <3>2. ~Saves(q) /\ ~Renames(q)
      BY <1>1, <1>3 DEF Saves, Renames
    <3>3. ~Finishes(q)
      BY <1>1, <1>3, <2>2 DEF Finishes, FinishCommit, WorksOnStored, Committing
    <3>4. Stops(q)
      BY <3>1, <3>2, <3>3, StepForms
    <3> QED BY <1>1, <1>3, <3>4 DEF Stops
  <2> QED BY <1>1, <2>1, <2>2, <2>3 DEF WorksOnStored, EventStored, SameTask, InJournal
<1> QED BY <1>2, <1>3

LEMMA ReadNext ==
  TypeOK /\ QueueInv /\ CommitInv /\ ReadInv /\ [Next]_vars => ReadInv'
<1> SUFFICES ASSUME TypeOK, QueueInv, CommitInv, ReadInv, [Next]_vars, ~Forgotten'
             PROVE  ReadInv'
  BY DEF ReadInv
<1>1. ASSUME DOMAIN ops \subseteq DOMAIN ops', ~Forgotten,
             \A p \in DOMAIN ops' \ DOMAIN ops : ops'[p].pc # "done",
             \A p \in DOMAIN ops : ops'[p] = ops[p] \/ ops'[p].pc # "done"
      PROVE  ReadInv'
  <2> SUFFICES ASSUME NEW o \in DOMAIN ops', NEW p \in DOMAIN ops',
                      o < p, SameTask(o, p)',
                      ops'[o].kind = "event", ops'[o].pc = "done",
                      ops'[p].kind = "load", ops'[p].pc = "done"
               PROVE  InJournal(EventOf(o), ops[p].record)'
    BY DEF ReadInv
  <2>1. /\ o \in DOMAIN ops /\ p \in DOMAIN ops
        /\ ops'[o] = ops[o] /\ ops'[p] = ops[p]
    BY <1>1
  <2>2. SameTask(o, p) /\ EventOf(o)' = EventOf(o)
    BY <2>1 DEF SameTask, EventOf
  <2> QED BY <1>1, <2>1, <2>2 DEF ReadInv, InJournal
<1>2. CASE Call
  <2>1. /\ Forgotten' = Forgotten /\ DOMAIN ops \subseteq DOMAIN ops'
        /\ \A p \in DOMAIN ops : ops'[p] = ops[p]
        /\ \A p \in DOMAIN ops' \ DOMAIN ops : ops'[p].pc = "queued"
    BY <1>2 DEF Call, Enqueue, Forgotten, TypeOK
  <2> QED BY <1>1, <2>1
<1>3. CASE \E o \in DOMAIN ops : Step(o)
  <2>1. PICK o \in DOMAIN ops : Step(o)
    BY <1>3
  <2>2. CASE Cleanup(o)
    BY <1>1, <2>2 DEF Cleanup, Forgotten
  <2>3. CASE ~Cleanup(o)
    <3>1. ~Forgotten
      BY <2>1, <2>3, StepForms DEF Forgotten
    <3> QED BY <2>1, <2>3, <3>1, ReadStep
  <2> QED BY <2>2, <2>3
<1>4. CASE Crash
  <2>1. ~Forgotten
    BY <1>4, CrashOps DEF Forgotten
  <2> QED BY <1>1, <1>4, <2>1, CrashOps
<1>5. CASE UNCHANGED vars
  BY <1>1, <1>5, SMTT(30) DEF vars, Forgotten
<1>6. CASE \/ \E t \in Tasks, binding \in Bindings : PrimeBinding(t, binding)
           \/ \E t \in Tasks : DiscardPending(t)
           \/ \E s \in DOMAIN subs : NextEvent(s) \/ CloseSubscription(s)
  BY <1>1, <1>6 DEF PrimeBinding, DiscardPending, NextEvent, CloseSubscription, Forgotten
<1>7. CASE Close
  BY <1>1, <1>7 DEF Close, Forgotten
<1> QED BY <1>2, <1>3, <1>4, <1>5, <1>6, <1>7 DEF Next

\* A load sees every event whose commit was called before it and returned,
\* although it reads the record anew and runs behind other operations.
THEOREM ReadsCorrect == Spec => []ReadsSeeEarlierCommits
<1>1. Init => ReadInv
  BY DEF Init, ReadInv
<1>2. ReadInv => ReadsSeeEarlierCommits
  BY JournaledMeans DEF ReadInv, ReadsSeeEarlierCommits, SameTask
<1> QED BY <1>1, <1>2, ReadNext, TypeCorrect, QueueCorrect, CommitCorrect, PTL DEF Spec

-----------------------------------------------------------------------------
(* The binding of a task.                                                  *)

\* The binding in a record an operation is about to store.
Bears(o, new) ==
  LET stored == records[ops[o].task]
      accepted == bound[ops[o].task]
  IN  /\ new # None
      /\ ops[o].kind # "snapshot" => stored # None
      /\ ops[o].kind = "writeBinding" => new.binding = ops[o].arg
      /\ ops[o].kind # "writeBinding" =>
           /\ accepted # None => new.binding = accepted
           /\ stored # None => new.binding = stored.binding

Kept(t) == records[t] # None /\ records[t].binding = bound[t]

SavesBinding(o) ==
  /\ ops[o].pc = "saving" => Bears(o, ops[o].record)
  /\ ops[o].pc = "saved" => (bound[ops[o].task] # None => Kept(ops[o].task))

\* A binding waits in memory for a task without a record, or for the commit
\* that has just stored it to end.
PendingNeeded(t) ==
  pending[t] # None =>
    \/ records[t] = None
    \/ \E o \in DOMAIN ops :
         ops[o].task = t /\ ops[o].pc = "saved" /\ ops[o].kind # "persist"

BindingAt(t) ==
  /\ bound[t] # None => pending[t] = bound[t] \/ Kept(t)
  /\ PendingNeeded(t)

BindInv ==
  ~Forgotten => /\ \A t \in Tasks : BindingAt(t)
                /\ \A o \in DOMAIN ops : SavesBinding(o)

\* While an operation is at work on a stored record, nothing waits in memory.
LEMMA NothingPending ==
  ASSUME TypeOK, QueueInv, BindInv, ~Forgotten, NEW o \in DOMAIN ops, InFlight(o),
         records[ops[o].task] # None,
         ops[o].pc # "saved" \/ ops[o].kind = "persist"
  PROVE  pending[ops[o].task] = None
<1>1. ops[o].task \in Tasks
  BY DEF TypeOK, OpRecord
<1>2. PendingNeeded(ops[o].task)
  BY <1>1 DEF BindInv, BindingAt
<1>3. \A p \in DOMAIN ops :
        ~(ops[p].task = ops[o].task /\ ops[p].pc = "saved" /\ ops[p].kind # "persist")
  BY AloneInFlight DEF InFlight, SameTask
<1> QED BY <1>2, <1>3 DEF PendingNeeded

LEMMA NextBears ==
  ASSUME TypeOK, QueueInv, CommitInv, BindInv, ~Forgotten,
         NEW o \in DOMAIN ops, ops[o].pc = "loaded", Writes(ops[o])
  PROVE  Bears(o, NextRecord(o))
<1> DEFINE op == ops[o]
           t == op.task
<1>1. /\ op.record = records[t] /\ t \in Tasks /\ InFlight(o)
      /\ op.record \in StoredTaskRecord \union {None}
      /\ op.kind \in Kinds
  BY DEF CommitInv, WorksOnStored, TypeOK, OpRecord, InFlight
<1>2. NextRecord(o) # None
  BY NextFollows DEF Follows
<1>3. records[t] # None => pending[t] = None
  BY <1>1, NothingPending
<1>4. bound[t] # None => pending[t] = bound[t] \/ Kept(t)
  BY <1>1 DEF BindInv, BindingAt
<1>5. CASE op.kind \in {"snapshot", "event"}
  <2>1. NextRecord(o).binding = FlushedBinding(o)
    BY <1>5 DEF NextRecord
  <2>2. FlushedBinding(o) = IF pending[t] # None THEN pending[t] ELSE BindingOf(records[t])
    BY <1>1 DEF FlushedBinding
  <2>3. op.kind = "event" => records[t] # None
    BY <1>1 DEF Writes
  <2> QED BY <1>1, <1>2, <1>3, <1>4, <1>5, <2>1, <2>2, <2>3 DEF Bears, Kept, BindingOf
<1>6. CASE op.kind = "persist"
  <2>1. op.record \in StoredTaskRecord /\ records[t] # None
    BY <1>1, <1>6 DEF Writes
  <2>2. NextRecord(o).binding = op.record.binding
    BY <1>6, <2>1 DEF NextRecord, StoredTaskRecord
  <2> QED BY <1>1, <1>2, <1>3, <1>4, <1>6, <2>1, <2>2 DEF Bears, Kept
<1>7. CASE op.kind = "writeBinding"
  <2>1. op.record \in StoredTaskRecord /\ records[t] # None
    BY <1>1, <1>7 DEF Writes
  <2>2. NextRecord(o).binding = op.arg
    BY <1>7, <2>1 DEF NextRecord, StoredTaskRecord
  <2> QED BY <1>1, <1>2, <1>7, <2>1, <2>2 DEF Bears
<1> QED BY <1>5, <1>6, <1>7 DEF Writes

\* An operation that makes no step knows of the binding what it knew.
LEMMA BindQuiet ==
  ASSUME NEW o \in DOMAIN ops, SavesBinding(o), ops'[o] = ops[o],
         records'[ops[o].task] = records[ops[o].task],
         bound'[ops[o].task] = bound[ops[o].task]
  PROVE  SavesBinding(o)'
  BY DEF SavesBinding, Bears, Kept

\* The tasks an operation does not belong to.
LEMMA BindElsewhere ==
  ASSUME TypeOK, BindInv, ~Forgotten, DOMAIN ops' = DOMAIN ops, NEW t,
         \A p \in DOMAIN ops : ops[p].task # t => ops'[p] = ops[p],
         \A p \in DOMAIN ops : SameCall(p),
         \A u \in Tasks \ {t} : /\ records'[u] = records[u] /\ bound'[u] = bound[u]
                                /\ pending'[u] = pending[u]
  PROVE  /\ \A u \in Tasks \ {t} : BindingAt(u)'
         /\ \A p \in DOMAIN ops : ops[p].task # t => SavesBinding(p)'
<1>1. ASSUME NEW u \in Tasks \ {t} PROVE BindingAt(u)'
  <2>1. BindingAt(u)
    BY DEF BindInv
  <2>2. \A p \in DOMAIN ops : ops'[p].task = u <=> ops[p].task = u
    BY DEF SameCall
  <2>3. \A p \in DOMAIN ops : ops[p].task = u => ops'[p] = ops[p]
    OBVIOUS
  <2> QED BY <2>1, <2>2, <2>3 DEF BindingAt, PendingNeeded, Kept
<1>2. ASSUME NEW p \in DOMAIN ops, ops[p].task # t PROVE SavesBinding(p)'
  <2>1. SavesBinding(p) /\ ops[p].task \in Tasks
    BY DEF BindInv, TypeOK, OpRecord
  <2> QED BY <1>2, <2>1, BindQuiet
<1> QED BY <1>1, <1>2

\* A step that stores a record.
LEMMA BindStores ==
  ASSUME TypeOK, QueueInv, BindInv, ~Forgotten,
         NEW o \in DOMAIN ops, InFlight(o), ops[o].pc # "saved", NEW new,
         Bears(o, new), Store(o, new), UNCHANGED pending,
         ops'[o].pc = "saved", DOMAIN ops' = DOMAIN ops, closed' = closed,
         \A p \in DOMAIN ops : SameCall(p) /\ (p # o => ops'[p] = ops[p])
  PROVE  BindInv'
<1> DEFINE t == ops[o].task
<1>0. /\ t \in Tasks /\ DOMAIN records = Tasks /\ DOMAIN bound = Tasks
      /\ ops'[o].task = t /\ ops'[o].kind = ops[o].kind
  BY DEF TypeOK, OpRecord, SameCall
<1>1. /\ records' = [records EXCEPT ![t] = new]
      /\ bound' = IF ops[o].kind = "writeBinding"
                    THEN [bound EXCEPT ![t] = ops[o].arg] ELSE bound
  BY DEF Store
<1>2. /\ \A u \in Tasks \ {t} : BindingAt(u)'
      /\ \A p \in DOMAIN ops : ops[p].task # t => SavesBinding(p)'
  <2>1. \A u \in Tasks \ {t} : records'[u] = records[u] /\ bound'[u] = bound[u]
    BY <1>0, <1>1
  <2> QED BY <2>1, BindElsewhere
<1>3. records'[t] = new /\ (bound'[t] # None => Kept(t)')
  BY <1>0, <1>1 DEF Bears, Kept
<1>4. BindingAt(t)'
  <2>1. CASE ops[o].kind # "persist"
    BY <1>0, <1>3, <2>1 DEF BindingAt, PendingNeeded
  <2>2. CASE ops[o].kind = "persist"
    <3>1. pending[t] = None
      BY <2>2, NothingPending DEF Bears
    <3> QED BY <1>0, <1>3, <3>1 DEF BindingAt, PendingNeeded
  <2> QED BY <2>1, <2>2
<1>5. ASSUME NEW p \in DOMAIN ops, ops[p].task = t PROVE SavesBinding(p)'
  <2>1. CASE p = o
    BY <1>0, <1>3, <2>1 DEF SavesBinding
  <2>2. CASE p # o
    <3>1. ~InFlight(p) /\ ops'[p] = ops[p]
      BY <1>5, <2>2, AloneInFlight DEF SameTask
    <3> QED BY <3>1 DEF SavesBinding, InFlight
  <2> QED BY <2>1, <2>2
<1> QED BY <1>0, <1>2, <1>4, <1>5 DEF BindInv

LEMMA BindStep ==
  ASSUME TypeOK, QueueInv, CommitInv, BindInv, ~Forgotten,
         NEW o \in DOMAIN ops, Step(o), ~Cleanup(o)
  PROVE  BindInv'
<1> DEFINE t == ops[o].task
<1>0. /\ DOMAIN ops' = DOMAIN ops /\ closed' = closed
      /\ \A p \in DOMAIN ops : SameCall(p) /\ (p # o => ops'[p] = ops[p])
      /\ ops'[o].task = t /\ ops'[o].kind = ops[o].kind
      /\ t \in Tasks /\ DOMAIN pending = Tasks /\ DOMAIN bound = Tasks
      /\ SavesBinding(o) /\ WorksOnStored(o) /\ BindingAt(t)
  BY StepForms, SMTT(30) DEF TypeOK, OpRecord, SameCall, BindInv, CommitInv
<1>1. ASSUME UNCHANGED <<records, pending, bound>>, ops'[o].pc # "saved",
             ops[o].pc # "saved", ops'[o].pc = "saving" => Bears(o, ops'[o].record)
      PROVE  BindInv'
  <2>1. ASSUME NEW u \in Tasks PROVE BindingAt(u)'
    <3>1. BindingAt(u)
      BY DEF BindInv
    <3>2. \A p \in DOMAIN ops : ops[p].pc = "saved" => p # o /\ ops'[p] = ops[p]
      BY <1>0, <1>1
    <3> QED BY <1>0, <1>1, <3>1, <3>2 DEF BindingAt, PendingNeeded, Kept
  <2>2. ASSUME NEW p \in DOMAIN ops, p # o PROVE SavesBinding(p)'
    BY <1>0, <1>1, <2>2, BindQuiet DEF BindInv
  <2>3. SavesBinding(o)'
    BY <1>0, <1>1 DEF SavesBinding, Bears, SameCall
  <2> QED BY <1>0, <2>1, <2>2, <2>3 DEF BindInv
<1>2. ASSUME InFlight(o), records' = records, ops'[o].pc = "done", BindingAt(t)',
             \A u \in Tasks \ {t} : pending'[u] = pending[u] /\ bound'[u] = bound[u]
      PROVE  BindInv'
  <2>1. /\ \A u \in Tasks \ {t} : BindingAt(u)'
        /\ \A p \in DOMAIN ops : ops[p].task # t => SavesBinding(p)'
    BY <1>0, <1>2, BindElsewhere
  <2>2. ASSUME NEW p \in DOMAIN ops, ops[p].task = t PROVE SavesBinding(p)'
    <3>1. CASE p = o
      BY <1>2, <3>1 DEF SavesBinding
    <3>2. CASE p # o
      <4>1. ~InFlight(p) /\ ops'[p] = ops[p]
        BY <1>0, <1>2, <2>2, <3>2, AloneInFlight DEF SameTask
      <4> QED BY <4>1 DEF SavesBinding, InFlight
    <3> QED BY <3>1, <3>2
  <2> QED BY <1>0, <1>2, <2>1, <2>2 DEF BindInv
<1>3. CASE Loads(o) \/ Stops(o)
  BY <1>1, <1>3 DEF Loads, Stops
<1>4. CASE Subscribes(o)
  BY <1>1, <1>4 DEF Subscribes, Subscribe
<1>5. CASE Holds(o)
  <2>1. /\ InFlight(o) /\ records' = records /\ records[t] = None /\ ops'[o].pc = "done"
        /\ pending' = [pending EXCEPT ![t] = ops[o].arg]
        /\ bound' = [bound EXCEPT ![t] = ops[o].arg]
    BY <1>0, <1>5 DEF Holds, HoldBinding, InFlight, WorksOnStored
  <2>2. BindingAt(t)'
    BY <1>0, <2>1 DEF BindingAt, PendingNeeded
  <2> QED BY <1>0, <1>2, <2>1, <2>2
<1>6. CASE Saves(o)
  <2>1. /\ InFlight(o) /\ ops[o].pc = "loaded" /\ Bears(o, NextRecord(o))
        /\ ops'[o].record = NextRecord(o) /\ UNCHANGED pending
    BY <1>6, NextBears DEF Saves, SaveRecord, InFlight
  <2>2. CASE Kind = "memory"
    <3>1. Store(o, NextRecord(o)) /\ ops'[o].pc = "saved"
      BY <1>6, <2>2 DEF Saves, SaveRecord
    <3> QED BY <1>0, <2>1, <3>1, BindStores
  <2>3. CASE Kind # "memory"
    <3>1. UNCHANGED <<records, pending, bound>> /\ ops'[o].pc = "saving"
      BY <1>6, <2>3 DEF Saves, SaveRecord
    <3> QED BY <1>1, <2>1, <3>1
  <2> QED BY <2>2, <2>3
<1>7. CASE Renames(o)
  <2>1. /\ InFlight(o) /\ ops[o].pc = "saving" /\ Bears(o, ops[o].record)
        /\ Store(o, ops[o].record) /\ ops'[o].pc = "saved" /\ UNCHANGED pending
    BY <1>0, <1>7 DEF Renames, RenameRecord, InFlight, SavesBinding
  <2> QED BY <1>0, <2>1, BindStores
<1>8. CASE Finishes(o)
  <2>1. /\ InFlight(o) /\ ops[o].pc = "saved" /\ records' = records /\ bound' = bound
        /\ ops'[o].pc = "done"
        /\ pending' = IF ops[o].kind = "persist"
                        THEN pending ELSE [pending EXCEPT ![t] = None]
    BY <1>8 DEF Finishes, FinishCommit, InFlight
  <2>2. bound[t] # None => Kept(t)
    BY <1>0, <2>1 DEF SavesBinding
  <2>3. records[t] = None \/ pending'[t] = None
    BY <1>0, <2>1, NothingPending
  <2>4. BindingAt(t)'
    BY <1>0, <2>1, <2>2, <2>3 DEF BindingAt, PendingNeeded, Kept
  <2> QED BY <1>0, <1>2, <2>1, <2>4
<1> QED BY <1>3, <1>4, <1>5, <1>6, <1>7, <1>8, StepForms

LEMMA BindNext ==
  TypeOK /\ QueueInv /\ CommitInv /\ BindInv /\ [Next]_vars => BindInv'
<1> SUFFICES ASSUME TypeOK, QueueInv, CommitInv, BindInv, [Next]_vars, ~Forgotten'
             PROVE  BindInv'
  BY DEF BindInv
<1>0. /\ DOMAIN pending = Tasks /\ DOMAIN bound = Tasks /\ DOMAIN ops \subseteq Nat \ {0}
      /\ \A p \in DOMAIN ops : ops[p].task \in Tasks
      /\ records \in [Tasks -> StoredTaskRecord \union {None}]
  BY DEF TypeOK, OpRecord
<1>1. ASSUME ops' = ops, records' = records, pending' = pending, bound' = bound, ~Forgotten
      PROVE  BindInv'
  BY <1>1 DEF BindInv, BindingAt, PendingNeeded, Kept, SavesBinding, Bears
<1>2. CASE Call
  <2>1. /\ ~Forgotten /\ UNCHANGED <<records, pending, bound>>
        /\ DOMAIN ops \subseteq DOMAIN ops'
        /\ \A p \in DOMAIN ops : ops'[p] = ops[p]
        /\ \A p \in DOMAIN ops' \ DOMAIN ops : ops'[p].pc = "queued"
    BY <1>2 DEF Call, Enqueue, Forgotten, TypeOK
  <2>2. \A u \in Tasks : BindingAt(u)'
    BY <2>1 DEF BindInv, BindingAt, PendingNeeded, Kept
  <2>3. \A p \in DOMAIN ops' : SavesBinding(p)'
    BY <2>1 DEF BindInv, SavesBinding, Bears, Kept
  <2> QED BY <2>2, <2>3 DEF BindInv
<1>3. CASE \E o \in DOMAIN ops : Step(o)
  <2>1. PICK o \in DOMAIN ops : Step(o)
    BY <1>3
  <2>2. CASE Cleanup(o)
    BY <1>1, <2>2 DEF Cleanup, Forgotten
  <2>3. CASE ~Cleanup(o)
    <3>1. ~Forgotten
      BY <2>1, <2>3, StepForms DEF Forgotten
    <3> QED BY <2>1, <2>3, <3>1, BindStep
  <2> QED BY <2>2, <2>3
<1>4. ASSUME ~Forgotten, records' = records, DOMAIN ops' = DOMAIN ops,
             pending' = [t \in Tasks |-> None],
             bound' = [t \in Tasks |-> BindingOf(records[t])],
             \A p \in DOMAIN ops : ops'[p] = ops[p] \/ ops'[p].pc = "lost"
      PROVE  BindInv'
  <2>1. \A u \in Tasks : BindingAt(u)' /\ (bound'[u] # None => Kept(u)')
    BY <1>4 DEF BindingAt, PendingNeeded, Kept, BindingOf
  <2>2. ASSUME NEW p \in DOMAIN ops PROVE SavesBinding(p)'
    <3>1. CASE ops'[p] = ops[p]
      <4>1. SavesBinding(p)
        BY <1>4 DEF BindInv
      <4>2. ops[p].pc = "saving" => Bears(p, ops[p].record)'
        BY <1>0, <1>4, <3>1, <4>1 DEF SavesBinding, Bears, BindingOf
      <4> QED BY <1>0, <1>4, <2>1, <3>1, <4>2 DEF SavesBinding
    <3>2. CASE ops'[p].pc = "lost"
      BY <3>2 DEF SavesBinding
    <3> QED BY <1>4, <3>1, <3>2
  <2> QED BY <1>4, <2>1, <2>2 DEF BindInv
<1>5. CASE Crash
  <2>1. /\ pending' = [t \in Tasks |-> None]
        /\ bound' = [t \in Tasks |-> BindingOf(records[t])]
    BY <1>5 DEF Crash
  <2> QED BY <1>4, <1>5, <2>1, CrashOps DEF Forgotten
<1>6. CASE Close
  <2>1. Kind # "memory"
    BY <1>6 DEF Close, Forgotten
  <2> QED BY <1>4, <1>6, <2>1 DEF Close, Forgotten
<1>7. ASSUME NEW t \in Tasks, NEW b,
             pending' = [pending EXCEPT ![t] = b], bound' = [bound EXCEPT ![t] = b],
             records[t] = None, UNCHANGED <<ops, records, closed>>,
             \A o \in DOMAIN ops : ops[o].task = t => ops[o].pc \in SettledStates
      PROVE  BindInv'
  <2>1. ~Forgotten
    BY <1>7 DEF Forgotten
  <2>2. /\ \A u \in Tasks \ {t} : BindingAt(u)'
        /\ \A p \in DOMAIN ops : ops[p].task # t => SavesBinding(p)'
    BY <1>0, <1>7, <2>1, BindElsewhere DEF SameCall
  <2>3. BindingAt(t)'
    BY <1>0, <1>7 DEF BindingAt, PendingNeeded
  <2>4. \A p \in DOMAIN ops : ops[p].task = t => SavesBinding(p)'
    BY <1>7 DEF SavesBinding, SettledStates
  <2> QED BY <1>7, <2>2, <2>3, <2>4 DEF BindInv
<1>8. CASE \E t \in Tasks, binding \in Bindings : PrimeBinding(t, binding)
  <2>1. PICK t \in Tasks, b \in Bindings : PrimeBinding(t, b)
    BY <1>8
  <2> QED BY <1>7, <2>1 DEF PrimeBinding, SettledStates
<1>9. CASE \E t \in Tasks : DiscardPending(t)
  <2>1. PICK t \in Tasks : DiscardPending(t)
    BY <1>9
  <2>2. \A o \in DOMAIN ops : Settled(o) => ops[o].pc \in SettledStates
    BY <1>0 DEF Settled
  <2> QED BY <1>7, <2>1, <2>2 DEF DiscardPending
<1>10. CASE UNCHANGED vars \/ \E s \in DOMAIN subs : NextEvent(s) \/ CloseSubscription(s)
  <2>1. UNCHANGED <<ops, records, pending, bound, closed>>
    BY <1>10 DEF vars, NextEvent, CloseSubscription
  <2> QED BY <1>1, <2>1, SMTT(30) DEF Forgotten
<1> QED BY <1>2, <1>3, <1>5, <1>6, <1>8, <1>9, <1>10 DEF Next

\* The binding accepted last for a task is never lost or replaced on its way
\* from memory to the record, whichever commit takes it along.
THEOREM BindingCorrect == Spec => []BindingKept
<1>1. Init => BindInv
  BY DEF Init, BindInv, BindingAt, PendingNeeded, Kept, BindingOf
<1>2. BindInv => BindingKept
  BY DEF BindInv, BindingAt, Kept, BindingKept
<1> QED BY <1>1, <1>2, BindNext, TypeCorrect, QueueCorrect, CommitCorrect, PTL DEF Spec
=============================================================================
