------------------------------ MODULE TaskStore ------------------------------
(***************************************************************************)
(* A2ATaskRuntimeStore (inbound task-store.ts): the committed records of   *)
(* the tasks, behind one queue of asynchronous operations per task.        *)
(*                                                                         *)
(* A call of the store puts an operation at the end of its task's promise  *)
(* chain.  Its body reads the record, computes the next one and writes it: *)
(* every await is a point where consumers, close() or, for json-file, a    *)
(* crash may step in.  The tails handed to consumers are fed from memory,  *)
(* next to the journal on disk, and have to agree with it.                 *)
(***************************************************************************)
EXTENDS TaskRecord, FiniteSets

CONSTANTS
  Tasks,      \* task identifiers
  Snapshots,  \* the task snapshots an execution may publish
  Updates,    \* the status and artifact updates an execution may publish
  Calls,      \* the kinds of calls made, to bound an instance
  Stored,     \* the records a task may have when the store is created
  Kind,       \* the backend: "memory" or "json-file"
  MaxOps,     \* bound on the calls made to the store
  MaxSubs,    \* bound on the tails opened
  MaxCrashes  \* bound on process crashes

Events == {[u EXCEPT !.id = i] : u \in Updates, i \in 1..MaxOps}

\* "load" is also prepareResubscribe without a live tail, "subscribe" is also
\* prepareResubscribe with one, and "snapshot" without a message is also save.
Kinds == {"load", "loadBinding", "subscribe", "writeBinding", "persist",
          "snapshot", "event"}

ASSUME StoreAssumption ==
  /\ Snapshots \subseteq Task
  /\ Updates \subseteq JournalEvent
  /\ Calls \subseteq Kinds
  /\ Stored \subseteq StoredTaskRecord
  /\ \A r \in Stored : r.journal = <<>> /\ r.currentSequence = 0
  /\ Kind \in {"memory", "json-file"}
  /\ Kind = "memory" => Stored = {}
  /\ MaxOps \in Nat /\ MaxSubs \in Nat /\ MaxCrashes \in Nat

VARIABLES
  ops,        \* every call made so far, oldest first
  tail,       \* taskQueues: task -> its last queued operation, or 0
  records,    \* the backend: task -> its stored record, or None
  pending,    \* pendingBindings: task -> a binding not stored yet, or None
  subs,       \* every tail opened so far
  listeners,  \* subscribers: task -> the listener set in use, or 0
  closed,     \* close() was called
  crashes,    \* crashes so far
  bound       \* history: the last binding accepted for the task, or None

vars == <<ops, tail, records, pending, subs, listeners, closed, crashes, bound>>

-----------------------------------------------------------------------------
ArgOf(kind) ==
  CASE kind \in {"load", "loadBinding", "subscribe"} -> {None}
    [] kind = "writeBinding" -> Bindings
    [] kind = "persist" -> Messages
    [] kind = "snapshot" -> [task : Snapshots, message : Messages \union {None}]
    [] kind = "event" -> Updates

SettledStates == {"done", "failed", "lost"}
Settled(o) == o # 0 => ops[o].pc \in SettledStates

\* The operation is between its first and its last step.
InFlight(o) == ops[o].pc \in {"loaded", "saving", "saved"}

\* The operation ends; only a load has a record to answer with.
Ended(o, pc) ==
  [ops[o] EXCEPT !.pc = pc,
                 !.record = IF ops[o].kind = "load" /\ pc = "done" THEN @ ELSE None]

\* enqueueByTask: the operation will run after the one queued last.
Enqueue(kind, t, arg) ==
  /\ Len(ops) < MaxOps
  /\ ops' = Append(ops, [kind |-> kind, task |-> t, arg |-> arg,
                         prev |-> tail[t], pc |-> "queued", record |-> None])
  /\ tail' = [tail EXCEPT ![t] = Len(ops) + 1]
  /\ UNCHANGED <<records, pending, subs, listeners, closed, crashes, bound>>

TailCalls == {o \in DOMAIN ops : ops[o].kind = "subscribe"}

Call == \E kind \in Calls, t \in Tasks :
          /\ kind = "subscribe" => Cardinality(TailCalls) < MaxSubs
          /\ \E arg \in ArgOf(kind) : Enqueue(kind, t, arg)

\* Variant: the entry is dropped even when a later call replaced it.
CleanupUnchecked(o) ==
  /\ ops[o].pc \in {"done", "failed"}
  /\ tail[ops[o].task] # 0
  /\ tail' = [tail EXCEPT ![ops[o].task] = 0]
  /\ UNCHANGED <<ops, records, pending, subs, listeners, closed, crashes, bound>>

\* The finally clause of enqueueByTask: the queue's entry is dropped when no
\* later call replaced it.
Cleanup(o) ==
  /\ ops[o].pc \in {"done", "failed"}
  /\ tail[ops[o].task] = o
  /\ tail' = [tail EXCEPT ![ops[o].task] = 0]
  /\ UNCHANGED <<ops, records, pending, subs, listeners, closed, crashes, bound>>

-----------------------------------------------------------------------------
(* The body of an operation, from one await to the next.                   *)

\* Variant: loads do not wait for their turn.
CanStartLoadsFirst(o) ==
  ops[o].pc = "queued" /\ (ops[o].kind = "load" \/ Settled(ops[o].prev))

\* Variant: a rejection of the previous operation is not swallowed.
CanStartAfterSuccess(o) ==
  ops[o].pc = "queued" /\ (ops[o].prev # 0 => ops[ops[o].prev].pc = "done")

CanStart(o) == ops[o].pc = "queued" /\ Settled(ops[o].prev)

\* loadBinding answers from memory when the binding is not stored yet.
AnswersPending(o) ==
  ops[o].kind = "loadBinding" /\ pending[ops[o].task] # None

Readable(t) ==
  Kind = "memory" \/ records[t] = None \/ ParserAccepts(records[t])

LoadRecord(o) ==
  /\ CanStart(o)
  /\ ops' =
       IF AnswersPending(o)
         THEN [ops EXCEPT ![o] = Ended(o, "done")]
         ELSE IF Readable(ops[o].task)
                THEN [ops EXCEPT ![o].pc = "loaded",
                                 ![o].record = records[ops[o].task]]
                ELSE [ops EXCEPT ![o] = Ended(o, "failed")]
  /\ UNCHANGED <<tail, records, pending, subs, listeners, closed, crashes, bound>>

\* readFile rejects with anything but ENOENT.
LoadFails(o) ==
  /\ Kind = "json-file"
  /\ CanStart(o) /\ ~AnswersPending(o)
  /\ ops' = [ops EXCEPT ![o] = Ended(o, "failed")]
  /\ UNCHANGED <<tail, records, pending, subs, listeners, closed, crashes, bound>>

\* The operation ends without touching the backend.
Return(o) ==
  LET op == ops[o] IN
  /\ op.pc = "loaded"
  /\ \/ op.kind \in {"load", "loadBinding"}
     \/ op.kind \in {"persist", "event"} /\ op.record = None
  /\ ops' = [ops EXCEPT ![o] =
               Ended(o, IF op.kind = "event" THEN "failed" ELSE "done")]
  /\ UNCHANGED <<tail, records, pending, subs, listeners, closed, crashes, bound>>

\* writeBinding before the task exists keeps the binding in memory.
HoldBinding(o) ==
  LET op == ops[o] IN
  /\ op.pc = "loaded" /\ op.kind = "writeBinding" /\ op.record = None
  /\ pending' = [pending EXCEPT ![op.task] = op.arg]
  /\ bound' = [bound EXCEPT ![op.task] = op.arg]
  /\ ops' = [ops EXCEPT ![o] = Ended(o, "done")]
  /\ UNCHANGED <<tail, records, subs, listeners, closed, crashes>>

Active(record) == record # None /\ record.task.state \in ActiveStates

\* createSubscription: the listener joins the set in use for the task, or a
\* new one.  A listener set is named after the tail it was created for.
CreateSubscription(t, base) ==
  LET s == Len(subs) + 1
      set == IF listeners[t] = 0 THEN s ELSE listeners[t]
  IN  /\ subs' = Append(subs, [task |-> t, base |-> base, set |-> set,
                               open |-> TRUE, waiting |-> FALSE,
                               buffer |-> <<>>, received |-> <<>>])
      /\ listeners' = [listeners EXCEPT ![t] = set]

\* subscribeToCommittedTail and prepareResubscribe: the snapshot and the tail
\* are taken in one step.
Subscribe(o) ==
  LET op == ops[o] IN
  /\ op.pc = "loaded" /\ op.kind = "subscribe"
  /\ ops' = [ops EXCEPT ![o] = Ended(o, "done")]
  /\ IF Active(op.record)
       THEN CreateSubscription(op.task, Len(op.record.journal))
       ELSE UNCHANGED <<subs, listeners>>
  /\ UNCHANGED <<tail, records, pending, closed, crashes, bound>>

-----------------------------------------------------------------------------
(* Commits.                                                                *)

EventOf(o) == [ops[o].arg EXCEPT !.id = o]

\* Variants: numbering starts at 2; a snapshot starts a new journal.
SequenceOffByOne(record) == IF record = None THEN 1 ELSE record.currentSequence
JournalReset(record) == <<>>

SequenceOf(record) == IF record = None THEN 0 ELSE record.currentSequence
JournalOf(record) == IF record = None THEN <<>> ELSE record.journal
BindingOf(record) == IF record = None THEN None ELSE record.binding

\* Variant: without the default.
FlushedOnly(o) == pending[ops[o].task]

\* flushPendingBinding, with its default
FlushedBinding(o) ==
  IF pending[ops[o].task] # None
    THEN pending[ops[o].task]
    ELSE BindingOf(ops[o].record)

NextRecord(o) ==
  LET op == ops[o]
      current == op.record
      sequence == SequenceOf(current) + 1
  IN CASE op.kind = "snapshot" ->
            [task |-> WithMessage(op.arg.task, op.arg.message),
             binding |-> FlushedBinding(o),
             currentSequence |-> SequenceOf(current),
             journal |-> JournalOf(current)]
       [] op.kind = "event" ->
            [task |-> MergeEvent(current.task, EventOf(o)),
             binding |-> FlushedBinding(o),
             currentSequence |-> sequence,
             journal |-> Append(current.journal,
                           [sequence |-> sequence, event |-> EventOf(o)])]
       [] op.kind = "persist" ->
            [current EXCEPT !.task = EnsureHistoryContainsMessage(@, op.arg)]
       [] op.kind = "writeBinding" ->
            [current EXCEPT !.binding = op.arg]

Writes(op) ==
  \/ op.kind = "snapshot"
  \/ op.kind \in {"event", "persist", "writeBinding"} /\ op.record # None

\* A binding written to the record is accepted from then on.
Store(o, record) ==
  /\ records' = [records EXCEPT ![ops[o].task] = record]
  /\ bound' = IF ops[o].kind = "writeBinding"
                THEN [bound EXCEPT ![ops[o].task] = ops[o].arg] ELSE bound

\* saveRecord: memory stores at once, json-file writes a temporary file.
SaveRecord(o) ==
  /\ ops[o].pc = "loaded" /\ Writes(ops[o])
  /\ ops' = [ops EXCEPT
               ![o].record = NextRecord(o),
               ![o].pc = IF Kind = "memory" THEN "saved" ELSE "saving"]
  /\ IF Kind = "memory" THEN Store(o, NextRecord(o))
                        ELSE UNCHANGED <<records, bound>>
  /\ UNCHANGED <<tail, pending, subs, listeners, closed, crashes>>

RenameRecord(o) ==
  /\ ops[o].pc = "saving"
  /\ Store(o, ops[o].record)
  /\ ops' = [ops EXCEPT ![o].pc = "saved"]
  /\ UNCHANGED <<tail, pending, subs, listeners, closed, crashes>>

\* Variant: a failed write is reported as a success.
SaveFailsSilently(o) ==
  /\ ops[o].pc = "saving"
  /\ ops' = [ops EXCEPT ![o] = Ended(o, "done")]
  /\ UNCHANGED <<tail, records, pending, subs, listeners, closed, crashes, bound>>

SaveFails(o) ==
  /\ ops[o].pc = "saving"
  /\ ops' = [ops EXCEPT ![o] = Ended(o, "failed")]
  /\ UNCHANGED <<tail, records, pending, subs, listeners, closed, crashes, bound>>

\* Variants: the event is both handed over and buffered; a waiting consumer is
\* not woken.
PushedTwice(sub, event) ==
  IF sub.waiting
    THEN [sub EXCEPT !.waiting = FALSE, !.received = Append(@, event),
                     !.buffer = Append(@, event)]
    ELSE [sub EXCEPT !.buffer = Append(@, event)]
PushedSilently(sub, event) == [sub EXCEPT !.buffer = Append(@, event)]

\* push: a waiting consumer gets the event, else it is buffered.
Pushed(sub, event) ==
  IF sub.waiting
    THEN [sub EXCEPT !.waiting = FALSE, !.received = Append(@, event)]
    ELSE [sub EXCEPT !.buffer = Append(@, event)]

Listening(s, t) ==
  subs[s].open /\ subs[s].task = t /\ listeners[t] = subs[s].set

NotifySubscribers(t, event) ==
  subs' = [s \in DOMAIN subs |->
             IF Listening(s, t) THEN Pushed(subs[s], event) ELSE subs[s]]

FinishCommit(o) ==
  LET op == ops[o] IN
  /\ op.pc = "saved"
  /\ ops' = [ops EXCEPT ![o] = Ended(o, "done")]
  /\ pending' = IF op.kind = "persist"
                  THEN pending ELSE [pending EXCEPT ![op.task] = None]
  /\ IF op.kind = "event" THEN NotifySubscribers(op.task, EventOf(o))
                          ELSE UNCHANGED subs
  /\ UNCHANGED <<tail, records, listeners, closed, crashes, bound>>

Step(o) ==
  \/ LoadRecord(o) \/ LoadFails(o)
  \/ Return(o) \/ HoldBinding(o) \/ Subscribe(o)
  \/ SaveRecord(o) \/ RenameRecord(o) \/ SaveFails(o) \/ FinishCommit(o)
  \/ Cleanup(o)

-----------------------------------------------------------------------------
(* Calls that are not queued.                                              *)

\* The executor primes the binding of the task it is about to create.
PrimeBinding(t, binding) ==
  /\ records[t] = None
  /\ \A o \in DOMAIN ops : ops[o].task = t => ops[o].pc = "lost"
  /\ pending' = [pending EXCEPT ![t] = binding]
  /\ bound' = [bound EXCEPT ![t] = binding]
  /\ UNCHANGED <<ops, tail, records, subs, listeners, closed, crashes>>

\* The execution answered with a message: the task will never exist.
DiscardPending(t) ==
  /\ pending[t] # None /\ records[t] = None
  /\ \A o \in DOMAIN ops : ops[o].task = t => Settled(o)
  /\ pending' = [pending EXCEPT ![t] = None]
  /\ bound' = [bound EXCEPT ![t] = None]
  /\ UNCHANGED <<ops, tail, records, subs, listeners, closed, crashes>>

\* A consumer asks for the next event of its tail.
NextEvent(s) ==
  LET sub == subs[s] IN
  /\ ~sub.waiting
  /\ \/ /\ sub.buffer # <<>>
        /\ subs' = [subs EXCEPT ![s].received = Append(@, Head(sub.buffer)),
                                ![s].buffer = Tail(@)]
     \/ /\ sub.buffer = <<>> /\ sub.open
        /\ subs' = [subs EXCEPT ![s].waiting = TRUE]
  /\ UNCHANGED <<ops, tail, records, pending, listeners, closed, crashes, bound>>

Shut(sub) == [sub EXCEPT !.open = FALSE, !.waiting = FALSE, !.buffer = <<>>]

\* Variant: the entry of the task is dropped with other listeners still in it.
CloseSubscriptionUnchecked(s) ==
  /\ subs[s].open
  /\ subs' = [subs EXCEPT ![s] = Shut(@)]
  /\ listeners' = [listeners EXCEPT ![subs[s].task] = 0]
  /\ UNCHANGED <<ops, tail, records, pending, closed, crashes, bound>>

\* The listener leaves the set it joined; when that set is empty the entry of
\* the task is dropped, whatever set it holds.
CloseSubscription(s) ==
  LET t == subs[s].task
      left == {r \in DOMAIN subs \ {s} : subs[r].open /\ subs[r].set = subs[s].set}
  IN  /\ subs[s].open
      /\ subs' = [subs EXCEPT ![s] = Shut(@)]
      /\ listeners' = [listeners EXCEPT ![t] = IF left = {} THEN 0 ELSE @]
      /\ UNCHANGED <<ops, tail, records, pending, closed, crashes, bound>>

\* Operations already queued keep running after close().
Close ==
  /\ ~closed
  /\ closed' = TRUE
  /\ subs' = [s \in DOMAIN subs |-> Shut(subs[s])]
  /\ listeners' = [t \in Tasks |-> 0]
  /\ pending' = [t \in Tasks |-> None]
  /\ bound' = [t \in Tasks |->
                 IF Kind = "memory" THEN None ELSE BindingOf(records[t])]
  /\ records' = IF Kind = "memory" THEN [t \in Tasks |-> None] ELSE records
  /\ UNCHANGED <<ops, tail, crashes>>

\* The process dies and a new one opens the same directory.
Crash ==
  /\ Kind = "json-file" /\ crashes < MaxCrashes
  /\ crashes' = crashes + 1
  /\ ops' = [o \in DOMAIN ops |->
               IF Settled(o) THEN ops[o] ELSE Ended(o, "lost")]
  /\ tail' = [t \in Tasks |-> 0]
  /\ pending' = [t \in Tasks |-> None]
  /\ subs' = [s \in DOMAIN subs |-> Shut(subs[s])]
  /\ listeners' = [t \in Tasks |-> 0]
  /\ closed' = FALSE
  /\ bound' = [t \in Tasks |-> BindingOf(records[t])]
  /\ UNCHANGED records

-----------------------------------------------------------------------------
Init ==
  /\ ops = <<>>
  /\ tail = [t \in Tasks |-> 0]
  /\ records \in [Tasks -> Stored \union {None}]
  /\ pending = [t \in Tasks |-> None]
  /\ subs = <<>>
  /\ listeners = [t \in Tasks |-> 0]
  /\ closed = FALSE
  /\ crashes = 0
  /\ bound = [t \in Tasks |-> BindingOf(records[t])]

Next ==
  \/ Call
  \/ \E o \in DOMAIN ops : Step(o)
  \/ \E t \in Tasks, binding \in Bindings : PrimeBinding(t, binding)
  \/ \E t \in Tasks : DiscardPending(t)
  \/ \E s \in DOMAIN subs : NextEvent(s) \/ CloseSubscription(s)
  \/ Close
  \/ Crash

Spec == Init /\ [][Next]_vars

\* The event loop runs every callback that is ready, and the file system
\* answers every call, one way or the other.
StoreFairness == \A o \in 1..MaxOps : WF_vars(o \in DOMAIN ops /\ Step(o))

\* A consumer that reads its tail keeps asking for the next event.
ReaderFairness == \A s \in 1..MaxSubs : WF_vars(s \in DOMAIN subs /\ NextEvent(s))

FairSpec == Spec /\ StoreFairness /\ ReaderFairness

-----------------------------------------------------------------------------
OpRecord ==
  {op \in [kind : Kinds, task : Tasks, arg : UNION {ArgOf(k) : k \in Kinds},
           prev : Nat, record : StoredTaskRecord \union {None},
           pc : {"queued", "loaded", "saving", "saved"} \union SettledStates] :
     op.arg \in ArgOf(op.kind)}

Subscription ==
  [task : Tasks, base : Nat, set : Nat \ {0}, open : BOOLEAN, waiting : BOOLEAN,
   buffer : Seq(JournalEvent), received : Seq(JournalEvent)]

\* Every variable holds a value of its shape.
TypeOK ==
  /\ ops \in Seq(OpRecord)
  /\ tail \in [Tasks -> 0..Len(ops)]
  /\ records \in [Tasks -> StoredTaskRecord \union {None}]
  /\ pending \in [Tasks -> Bindings \union {None}]
  /\ subs \in Seq(Subscription)
  /\ listeners \in [Tasks -> 0..Len(subs)]
  /\ closed \in BOOLEAN
  /\ crashes \in 0..MaxCrashes
  /\ bound \in [Tasks -> Bindings \union {None}]

\* The records of a memory store are gone once it is closed.
Forgotten == Kind = "memory" /\ closed

\* enqueueByTask runs the operations of a task one at a time and in call
\* order: none starts before every earlier one has settled, whatever failed
\* before it and whenever the entry of the task's queue was dropped.
FifoPerTask ==
  \A o, p \in DOMAIN ops :
    /\ o < p /\ ops[o].task = ops[p].task
    /\ ops[p].pc \notin {"queued", "lost"}
    => Settled(o)

\* The journal of a task is numbered 1, 2, 3 ..., currentSequence is its last
\* number, and its events stand in the order of the commitEvent calls.  No
\* operation loses the update of another one (commitJournalEvent).
JournalInOrder ==
  \A t \in Tasks : records[t] # None =>
    LET journal == records[t].journal IN
    /\ records[t].currentSequence = Len(journal)
    /\ \A i \in DOMAIN journal : journal[i].sequence = i
    /\ \A i, j \in DOMAIN journal :
         i < j => journal[i].event.id < journal[j].event.id

Journaled(o, record) ==
  record # None /\ EventOf(o) \in {EventsOf(record)[i] : i \in DOMAIN record.journal}

\* A commitEvent call that returned has its event in the stored journal, also
\* after a crash or behind a later snapshot, and one that threw has not.
AcknowledgedEventsStored ==
  \A o \in DOMAIN ops :
    ops[o].kind = "event" /\ ~Forgotten =>
      /\ ops[o].pc = "done" => Journaled(o, records[ops[o].task])
      /\ ops[o].pc = "failed" => ~Journaled(o, records[ops[o].task])

\* A load answers with every event committed by the calls before it.
ReadsSeeEarlierCommits ==
  \A o, p \in DOMAIN ops :
    /\ o < p /\ ops[o].task = ops[p].task /\ ~Forgotten
    /\ ops[o].kind = "event" /\ ops[o].pc = "done"
    /\ ops[p].kind = "load" /\ ops[p].pc = "done"
    => Journaled(o, ops[p].record)

\* The binding accepted last for a task is either waiting in memory or in
\* the task's record: no commit stores another one or drops it on the way.
BindingKept ==
  \A t \in Tasks :
    bound[t] # None /\ ~Forgotten =>
      \/ pending[t] = bound[t]
      \/ records[t] # None /\ records[t].binding = bound[t]

\* Events of the task's journal the listeners have been told of.
Notified(t) ==
  IF records[t] = None THEN 0
  ELSE Len(records[t].journal)
         - Cardinality({o \in DOMAIN ops : /\ ops[o].task = t
                                           /\ ops[o].kind = "event"
                                           /\ ops[o].pc = "saved"})

\* What an open tail has delivered and still holds is exactly the journal from
\* the snapshot it was opened with: no gap and no repetition between the
\* snapshot, the buffered events and the live ones (prepareResubscribe).
TailsFaithful ==
  \A s \in DOMAIN subs :
    subs[s].open /\ ~Forgotten =>
      LET sub == subs[s] IN
      sub.received \o sub.buffer =
        [i \in 1..(Notified(sub.task) - sub.base) |->
           records[sub.task].journal[sub.base + i].event]

\* An open tail is in the listener set commits notify, even after other
\* tails of the task closed, and no consumer waits on a tail that is closed
\* or that holds an event for it.
TailsReachable ==
  \A s \in DOMAIN subs :
    /\ subs[s].open => listeners[subs[s].task] = subs[s].set
    /\ subs[s].waiting => subs[s].open /\ subs[s].buffer = <<>>

\* Every call of the store returns or throws, unless the process dies: no
\* failed operation blocks the queue of its task.
CallsSettle ==
  \A o \in 1..MaxOps : (o \in DOMAIN ops) ~> (o \in DOMAIN ops /\ Settled(o))

\* The listeners were told of n events since the tail was opened.
Due(s, n) == /\ s \in DOMAIN subs /\ subs[s].open /\ ~Forgotten
             /\ Notified(subs[s].task) >= subs[s].base + n

Served(s, n) == s \in DOMAIN subs => ~subs[s].open \/ Len(subs[s].received) >= n

\* A consumer that keeps reading an open tail receives every committed event.
TailsDeliver ==
  \A s \in 1..MaxSubs, n \in 1..MaxOps : Due(s, n) ~> Served(s, n)
=============================================================================
