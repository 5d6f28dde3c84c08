---------------------- MODULE TaskStoreRefinementProofs ----------------------
(***************************************************************************)
(* TaskStore implements CommittedLog, for every value of its constants:    *)
(* its initial states and its steps are those of the committed log.        *)
(***************************************************************************)
EXTENDS TaskStoreRefinement, TaskStoreTailProofs

-----------------------------------------------------------------------------
(* Two more facts of the store.                                            *)

\* No more calls than the bound, and a tail that is closed holds nothing.
CallsBounded == Len(ops) <= MaxOps

ClosedEmpty == \A s \in DOMAIN subs : ~subs[s].open => subs[s].buffer = <<>>

LEMMA BoundedNext == TypeOK /\ CallsBounded /\ [Next]_vars => CallsBounded'
<1> SUFFICES ASSUME TypeOK, CallsBounded, [Next]_vars PROVE CallsBounded'
  OBVIOUS
<1>0. /\ ops \in Seq(OpRecord) /\ ops' \in Seq(OpRecord)
  BY NextType DEF TypeOK
<1>1. CASE Call
  BY <1>0, <1>1, AppendElement, StoreAssumption DEF Call, Enqueue, CallsBounded
<1>2. ASSUME DOMAIN ops' = DOMAIN ops PROVE CallsBounded'
  <2>1. Len(ops') = Len(ops)
    BY <1>0, <1>2
  <2> QED BY <2>1 DEF CallsBounded
<1>3. CASE \E o \in DOMAIN ops : Step(o)
  <2>1. PICK o \in DOMAIN ops : Step(o)
    BY <1>3
  <2>2. CASE Cleanup(o)
    BY <1>2, <2>2 DEF Cleanup
  <2> QED BY <1>2, <2>1, <2>2, StepForms
<1>4. CASE Crash
  BY <1>2, <1>4, CrashOps
<1>5. CASE \/ \E t \in Tasks, binding \in Bindings : PrimeBinding(t, binding)
           \/ \E t \in Tasks : DiscardPending(t)
           \/ \E s \in DOMAIN subs : NextEvent(s) \/ CloseSubscription(s)
           \/ Close
           \/ UNCHANGED vars
  <2>1. ops' = ops
    BY <1>5 DEF PrimeBinding, DiscardPending, NextEvent, CloseSubscription, Close, vars
  <2> QED BY <1>2, <2>1, SMTT(30)
<1> QED BY <1>1, <1>3, <1>4, <1>5 DEF Next

LEMMA EmptyNext == TypeOK /\ ClosedEmpty /\ [Next]_vars => ClosedEmpty'
<1> SUFFICES ASSUME TypeOK, ClosedEmpty, [Next]_vars PROVE ClosedEmpty'
  OBVIOUS
<1>0. \A s \in DOMAIN subs : subs[s] \in Subscription
  BY DeliveredType
<1>1. CASE UNCHANGED subs
  BY <1>1 DEF ClosedEmpty
<1>2. ASSUME NEW o \in DOMAIN ops, Step(o) PROVE ClosedEmpty'
  <2>1. CASE Subscribe(o) /\ Active(ops[o].record)
    <3> DEFINE t == ops[o].task
               set == IF listeners[t] = 0 THEN Len(subs) + 1 ELSE listeners[t]
               new == [task |-> t, base |-> Len(ops[o].record.journal), set |-> set,
                       open |-> TRUE, waiting |-> FALSE, buffer |-> <<>>, received |-> <<>>]
    <3>1. subs' = Append(subs, new)
      BY <2>1 DEF Subscribe, CreateSubscription
    <3>2. new.buffer = <<>>
      OBVIOUS
    <3> HIDE DEF new
    <3>3. subs \in Seq(Subscription)
      BY DEF TypeOK
    <3>4. \A s \in DOMAIN subs' : (s \in DOMAIN subs /\ subs'[s] = subs[s]) \/ subs'[s] = new
      BY <3>1, <3>3, AppendElement
    <3> QED BY <3>2, <3>4 DEF ClosedEmpty
  <2>2. CASE FinishCommit(o)
    <3>1. /\ DOMAIN subs' = DOMAIN subs
          /\ \A s \in DOMAIN subs :
               subs'[s] = subs[s] \/ (subs[s].open /\ subs'[s] = Pushed(subs[s], EventOf(o)))
      BY <2>2 DEF FinishCommit, NotifySubscribers, Listening
    <3> QED BY <1>0, <3>1, PushedFields DEF ClosedEmpty
  <2> QED BY <1>1, <1>2, <2>1, <2>2 DEF Step, LoadRecord, LoadFails, Return, SaveFails,
             HoldBinding, Subscribe, SaveRecord, RenameRecord, Cleanup
<1>3. ASSUME NEW s \in DOMAIN subs, NextEvent(s) PROVE ClosedEmpty'
  <2>1. /\ DOMAIN subs' = DOMAIN subs /\ subs'[s].open = subs[s].open
        /\ \A r \in DOMAIN subs : r # s => subs'[r] = subs[r]
        /\ subs[s].buffer = <<>> => subs'[s].buffer = <<>>
    BY <1>0, <1>3 DEF NextEvent, Subscription
  <2> QED BY <2>1 DEF ClosedEmpty
<1>4. ASSUME DOMAIN subs' = DOMAIN subs,
             \A s \in DOMAIN subs : subs'[s] = subs[s] \/ subs'[s] = Shut(subs[s])
      PROVE  ClosedEmpty'
  <2>1. \A sub \in Subscription : Shut(sub).buffer = <<>>
    BY DEF Shut, Subscription
  <2> QED BY <1>0, <1>4, <2>1 DEF ClosedEmpty
<1>5. CASE Close \/ Crash \/ \E s \in DOMAIN subs : CloseSubscription(s)
  BY <1>4, <1>5 DEF Close, Crash, CloseSubscription
<1>6. CASE \/ Call
           \/ \E t \in Tasks, binding \in Bindings : PrimeBinding(t, binding)
           \/ \E t \in Tasks : DiscardPending(t)
           \/ UNCHANGED vars
  <2>1. UNCHANGED subs
    BY <1>6 DEF Call, Enqueue, PrimeBinding, DiscardPending, vars
  <2> QED BY <1>1, <2>1
<1> QED BY <1>2, <1>3, <1>5, <1>6 DEF Next

-----------------------------------------------------------------------------
(* The views.                                                              *)

\* The log's data is the store's.
LEMMA SameData ==
  /\ Committed!Task = Task /\ Committed!JournalEvent = JournalEvent
  /\ Committed!ActiveStates = ActiveStates
  /\ \A task, message :
       /\ Committed!EnsureHistoryContainsMessage(task, message)
            = EnsureHistoryContainsMessage(task, message)
       /\ Committed!WithMessage(task, message) = WithMessage(task, message)
  /\ \A task, event : Committed!MergeEvent(task, event) = MergeEvent(task, event)
<1>1. Committed!TaskStates = TaskStates /\ Committed!ActiveStates = ActiveStates
  BY DEF Committed!TaskStates, Committed!TerminalStates, Committed!QuiescentStates,
         Committed!ActiveStates, TaskStates, TerminalStates, QuiescentStates, ActiveStates
<1>2. Committed!Task = Task
  BY <1>1 DEF Committed!Task, Committed!Artifacts, Task, Artifacts
<1>3. Committed!JournalEvent = JournalEvent
  BY <1>1 DEF Committed!JournalEvent, Committed!StatusUpdate, Committed!ArtifactUpdate,
              JournalEvent, StatusUpdate, ArtifactUpdate
<1>4. \A task, message :
        /\ Committed!EnsureHistoryContainsMessage(task, message)
             = EnsureHistoryContainsMessage(task, message)
        /\ Committed!WithMessage(task, message) = WithMessage(task, message)
  BY DEF Committed!EnsureHistoryContainsMessage, Committed!WithMessage, Committed!Occurs,
         EnsureHistoryContainsMessage, WithMessage, Occurs
<1>5. \A task, event : Committed!MergeStatus(task, event) = MergeStatus(task, event)
  BY <1>4 DEF Committed!MergeStatus, MergeStatus
<1>6. \A task, event : Committed!MergeArtifact(task, event) = MergeArtifact(task, event)
  BY DEF Committed!MergeArtifact, MergeArtifact, Committed!MergedParts, MergedParts
<1>7. \A task, event : Committed!MergeEvent(task, event) = MergeEvent(task, event)
  BY <1>5, <1>6 DEF Committed!MergeEvent, MergeEvent
<1> QED BY <1>1, <1>2, <1>3, <1>4, <1>7

ViewOf(record) ==
  IF record = None THEN None
  ELSE [task |-> record.task, binding |-> record.binding, log |-> EventsOf(record)]

TailOf(sub) == [task |-> sub.task, base |-> sub.base, received |-> sub.received]

LEMMA Views ==
  ~Forgotten => /\ CommittedView = [t \in Tasks |-> ViewOf(records[t])]
                /\ TailsView = [s \in DOMAIN subs |-> TailOf(subs[s])]
  BY DEF CommittedView, ViewOf, TailsView, TailOf

\* The same in the next state.
LEMMA NextViews ==
  ~Forgotten' => /\ CommittedView' = [t \in Tasks |-> ViewOf(records'[t])]
                 /\ TailsView' = [s \in DOMAIN subs' |-> TailOf(subs'[s])]
  BY DEF CommittedView, ViewOf, TailsView, TailOf

LEMMA EventsType ==
  ASSUME NEW record \in StoredTaskRecord
  PROVE  /\ EventsOf(record) \in Seq(JournalEvent)
         /\ Len(EventsOf(record)) = Len(record.journal)
         /\ \A i \in DOMAIN record.journal : EventsOf(record)[i] = record.journal[i].event
<1>1. record.journal \in Seq(JournalEntry)
  BY DEF StoredTaskRecord
<1>2. \A i \in DOMAIN record.journal : record.journal[i].event \in JournalEvent
  <2>1. \A i \in DOMAIN record.journal : record.journal[i] \in JournalEntry
    BY <1>1
  <2>2. \A entry \in JournalEntry : entry.event \in JournalEvent
    BY DEF JournalEntry
  <2> QED BY <2>1, <2>2
<1>3. EventsOf(record) \in [1..Len(record.journal) -> JournalEvent]
  BY <1>1, <1>2 DEF EventsOf
<1> QED BY <1>1, <1>3, FunctionIsSequence DEF EventsOf

\* The view of a record is a committed state.
LEMMA ViewType ==
  ASSUME NEW record \in StoredTaskRecord
  PROVE  ViewOf(record) \in Committed!CommittedState /\ ViewOf(record) # None
<1>1. record # None
  BY NoneAssumption
<1>2. ViewOf(record) \in Committed!CommittedState
  BY <1>1, EventsType, SameData DEF ViewOf, Committed!CommittedState, StoredTaskRecord
<1> QED BY <1>2, ViewAssumption

LEMMA AppendIsFunction ==
  ASSUME NEW S, NEW m \in Seq(S), NEW x
  PROVE  Append(m, x) = [i \in 1..(Len(m) + 1) |-> IF i = Len(m) + 1 THEN x ELSE m[i]]
<1>1. /\ Append(m, x) \in Seq(S \union {x}) /\ Len(Append(m, x)) = Len(m) + 1
      /\ Len(m) \in Nat /\ DOMAIN m = 1..Len(m)
  OBVIOUS
<1>2. Append(m, x) = [i \in 1..(Len(m) + 1) |-> Append(m, x)[i]]
  <2>1. PICK T : T = S \union {x}
    OBVIOUS
  <2>2. PICK a \in Seq(T) : a = Append(m, x)
    BY <1>1, <2>1
  <2>3. a = [i \in 1..Len(a) |-> a[i]]
    OBVIOUS
  <2> QED BY <1>1, <2>2, <2>3
<1>3. \A i \in 1..(Len(m) + 1) :
        Append(m, x)[i] = IF i = Len(m) + 1 THEN x ELSE m[i]
  <2>0. PICK n \in Nat : n = Len(m)
    BY <1>1
  <2>1. \A i \in 1..(n + 1) : i = n + 1 \/ (i \in 1..n /\ i # n + 1)
    OBVIOUS
  <2>2. Append(m, x)[Len(m) + 1] = x /\ \A i \in DOMAIN m : Append(m, x)[i] = m[i]
    BY AppendElement
  <2> QED BY <1>1, <2>0, <2>1, <2>2, SMTT(30)
<1> QED BY <1>2, <1>3

\* The events of a journal that got one more entry.
LEMMA EventsAppend ==
  ASSUME NEW old \in StoredTaskRecord, NEW new, NEW entry,
         new.journal = Append(old.journal, entry)
  PROVE  EventsOf(new) = Append(EventsOf(old), entry.event)
<1> DEFINE j == old.journal
           n == Len(j)
<1>1. j \in Seq(JournalEntry)
  BY DEF StoredTaskRecord
<1>2. /\ EventsOf(old) \in Seq(JournalEvent) /\ Len(EventsOf(old)) = n /\ n \in Nat
      /\ \A i \in 1..n : EventsOf(old)[i] = j[i].event
  BY <1>1, EventsType
<1>3. Append(EventsOf(old), entry.event)
        = [i \in 1..(n + 1) |-> IF i = n + 1 THEN entry.event ELSE EventsOf(old)[i]]
  BY <1>2, AppendIsFunction
<1>4. /\ DOMAIN Append(j, entry) = 1..(n + 1) /\ Append(j, entry)[n + 1] = entry
      /\ \A i \in 1..n : Append(j, entry)[i] = j[i]
  <2> HIDE DEF j
  <2> QED BY <1>1, AppendElement
<1>5. EventsOf(new) = [i \in 1..(n + 1) |-> Append(j, entry)[i].event]
  BY <1>4 DEF EventsOf
<1>6. \A i \in 1..(n + 1) :
        Append(j, entry)[i].event = IF i = n + 1 THEN entry.event ELSE EventsOf(old)[i]
  <2> HIDE DEF j
  <2>1. \A i \in 1..(n + 1) : i = n + 1 \/ i \in 1..n
    BY <1>2
  <2> QED BY <1>2, <1>4, <2>1
<1> HIDE DEF j, n
<1> QED BY <1>3, <1>5, <1>6

\* Writing the record of a task replaces its committed state.
LEMMA ViewStores ==
  ASSUME TypeOK, ~Forgotten, ~Forgotten', NEW t \in Tasks, NEW new,
         records' = [records EXCEPT ![t] = new]
  PROVE  CommittedView' = [CommittedView EXCEPT ![t] = ViewOf(new)]
<1>1. DOMAIN records = Tasks
  BY DEF TypeOK
<1> QED BY <1>1, Views, NextViews

-----------------------------------------------------------------------------
(* Steps.                                                                  *)

StoreInv ==
  /\ TypeOK /\ QueueInv /\ CommitInv /\ TailsReachable /\ FaithInv
  /\ CallsBounded /\ ClosedEmpty

\* The rename of a record, or a write to memory, is one step of the log.
LEMMA ImplementsStore ==
  ASSUME StoreInv, ~Forgotten, ~Forgotten', NEW o \in DOMAIN ops, NEW new,
         records' = [records EXCEPT ![ops[o].task] = new],
         Follows(o, records[ops[o].task], new), UNCHANGED subs
  PROVE  Committed!Next
<1> DEFINE op == ops[o]
           t == op.task
           old == records[t]
<1>0. /\ TypeOK /\ t \in Tasks /\ op.arg \in ArgOf(op.kind)
      /\ old \in StoredTaskRecord \union {None}
      /\ new \in StoredTaskRecord /\ new # None /\ o \in 1..MaxOps
      /\ DOMAIN CommittedView = Tasks /\ CommittedView[t] = ViewOf(old)
  <2>1. TypeOK /\ t \in Tasks /\ op.arg \in ArgOf(op.kind) /\ o \in 1..Len(ops)
        /\ Len(ops) \in Nat
    BY DEF StoreInv, TypeOK, OpRecord
  <2>2. o \in 1..MaxOps
    BY <2>1, StoreAssumption DEF StoreInv, CallsBounded
  <2>3. old \in StoredTaskRecord \union {None}
    BY <2>1 DEF TypeOK
  <2> QED BY <2>1, <2>2, <2>3, Views DEF Follows
<1>1. /\ CommittedView' = [CommittedView EXCEPT ![t] = ViewOf(new)]
      /\ TailsView' = TailsView
  BY <1>0, ViewStores, Views, NextViews
<1>2. /\ ViewOf(new) = [task |-> new.task, binding |-> new.binding, log |-> EventsOf(new)]
      /\ new.binding \in Bindings \union {None}
  BY <1>0 DEF ViewOf, StoredTaskRecord
<1>3. old # None => /\ old \in StoredTaskRecord /\ CommittedView[t] # None
                    /\ CommittedView[t] = [task |-> old.task, binding |-> old.binding,
                                           log |-> EventsOf(old)]
  BY <1>0, ViewType DEF ViewOf
<1>4. CASE op.kind = "snapshot"
  <2>1. op.arg.task \in Snapshots /\ op.arg.message \in Messages \union {None}
    BY <1>0, <1>4 DEF ArgOf
  <2>2. new.task = WithMessage(op.arg.task, op.arg.message) /\ new.journal = JournalOf(old)
    BY <1>4 DEF Follows
  <2>3. EventsOf(new) = IF CommittedView[t] = None THEN <<>> ELSE CommittedView[t].log
    <3>1. CASE old = None
      <4>1. new.journal = <<>> /\ CommittedView[t] = None
        BY <1>0, <2>2, <3>1 DEF JournalOf, ViewOf
      <4> QED BY <4>1 DEF EventsOf
    <3>2. CASE old # None
      BY <1>3, <2>2, <3>2 DEF JournalOf, EventsOf
    <3> QED BY <3>1, <3>2
  <2>4. Committed!Replace(t)
    BY <1>1, <1>2, <2>1, <2>2, <2>3, SameData DEF Committed!Replace
  <2> QED BY <1>0, <2>4 DEF Committed!Next
<1>5. CASE op.kind = "event"
  <2>1. EventOf(o) \in Events
    BY <1>0, <1>5 DEF ArgOf, EventOf, Events
  <2>2. old # None /\ new.task = MergeEvent(old.task, EventOf(o))
    BY <1>5 DEF Follows
  <2>3. EventsOf(new) = Append(EventsOf(old), EventOf(o))
    <3>1. new.journal = Append(old.journal, EntryOf(o, old))
      BY <1>5, <2>2 DEF Follows, JournalOf
    <3>2. EventsOf(new) = Append(EventsOf(old), EntryOf(o, old).event)
      BY <1>3, <2>2, <3>1, EventsAppend
    <3> QED BY <3>2 DEF EntryOf
  <2>4. ViewOf(new) = [task |-> Committed!MergeEvent(CommittedView[t].task, EventOf(o)),
                       binding |-> new.binding,
                       log |-> Append(CommittedView[t].log, EventOf(o))]
    <3>1. CommittedView[t].task = old.task /\ CommittedView[t].log = EventsOf(old)
      BY <1>3, <2>2
    <3>2. new.task = Committed!MergeEvent(CommittedView[t].task, EventOf(o))
      BY <2>2, <3>1, SameData, Zenon
    <3> QED BY <1>2, <2>3, <3>1, <3>2
  <2>5. Committed!Commit(t)
    BY <1>1, <1>2, <1>3, <2>1, <2>2, <2>4 DEF Committed!Commit
  <2> QED BY <1>0, <2>5 DEF Committed!Next
<1>6. CASE op.kind = "persist"
  <2>1. op.arg \in Messages
    BY <1>0, <1>6 DEF ArgOf
  <2>2. /\ old # None
        /\ new = [old EXCEPT !.task = EnsureHistoryContainsMessage(old.task, op.arg)]
    BY <1>6 DEF Follows
  <2>3. /\ new.task = EnsureHistoryContainsMessage(old.task, op.arg)
        /\ new.binding = old.binding /\ new.journal = old.journal
    BY <1>3, <2>2 DEF StoredTaskRecord
  <2>4. ViewOf(new) = [CommittedView[t] EXCEPT !.task = EnsureHistoryContainsMessage(@, op.arg)]
    BY <1>2, <1>3, <2>2, <2>3 DEF EventsOf
  <2>5. Committed!Note(t)
    BY <1>0, <1>1, <1>3, <2>1, <2>2, <2>4, SameData DEF Committed!Note
  <2> QED BY <1>0, <2>5 DEF Committed!Next
<1>7. CASE op.kind = "writeBinding"
  <2>1. op.arg \in Bindings
    BY <1>0, <1>7 DEF ArgOf
  <2>2. old # None /\ new = [old EXCEPT !.binding = op.arg]
    BY <1>7 DEF Follows
  <2>3. new.task = old.task /\ new.binding = op.arg /\ new.journal = old.journal
    BY <1>3, <2>2 DEF StoredTaskRecord
  <2>4. ViewOf(new) = [CommittedView[t] EXCEPT !.binding = op.arg]
    BY <1>2, <1>3, <2>2, <2>3 DEF EventsOf
  <2>5. Committed!Bind(t)
    BY <1>0, <1>1, <1>3, <2>1, <2>2, <2>4 DEF Committed!Bind
  <2> QED BY <1>0, <2>5 DEF Committed!Next
<1> QED BY <1>4, <1>5, <1>6, <1>7 DEF Follows, Committing

\* A tail that opens is the committed log's.
LEMMA ImplementsOpen ==
  ASSUME StoreInv, ~Forgotten, ~Forgotten', NEW o \in DOMAIN ops,
         Subscribes(o), Active(ops[o].record), UNCHANGED records
  PROVE  Committed!Next
<1> DEFINE t == ops[o].task
           old == records[t]
<1>1. /\ t \in Tasks /\ ops[o].pc = "loaded" /\ InFlight(o)
      /\ subs \in Seq(Subscription)
  BY DEF StoreInv, TypeOK, OpRecord, Subscribes, Subscribe, InFlight
<1>2. ops[o].record = old /\ old # None /\ old \in StoredTaskRecord
  BY <1>1 DEF StoreInv, CommitInv, WorksOnStored, Active, TypeOK
<1>3. /\ CommittedView[t] # None /\ CommittedView[t].task = old.task
      /\ CommittedView[t].log = EventsOf(old)
      /\ Len(CommittedView[t].log) = Len(old.journal)
      /\ CommittedView' = CommittedView
  <2>1. CommittedView[t] = ViewOf(old) /\ CommittedView' = CommittedView
    BY <1>1, Views, NextViews
  <2> QED BY <1>2, <2>1, ViewType, EventsType DEF ViewOf
<1>4. old.task.state \in ActiveStates
  BY <1>2 DEF Active
<1> DEFINE view == [task |-> t, base |-> Len(old.journal), received |-> <<>>]
<1>5. TailsView' = Append(TailsView, view)
  <2>1. PICK new : /\ subs' = Append(subs, new) /\ TailOf(new) = view
    <3> DEFINE set == IF listeners[t] = 0 THEN Len(subs) + 1 ELSE listeners[t]
               new == [task |-> t, base |-> Len(old.journal), set |-> set, open |-> TRUE,
                       waiting |-> FALSE, buffer |-> <<>>, received |-> <<>>]
    <3>1. subs' = Append(subs, new)
      BY <1>2 DEF Subscribes, Subscribe, CreateSubscription
    <3>2. TailOf(new) = view
      BY DEF TailOf
    <3> HIDE DEF new, view
    <3> QED BY <3>1, <3>2
  <2> HIDE DEF view
  <2>2. PICK n \in Nat : n = Len(subs)
    BY <1>1
  <2>3. /\ DOMAIN subs = 1..n /\ DOMAIN subs' = 1..(n + 1)
        /\ subs'[n + 1] = new /\ \A s \in 1..n : subs'[s] = subs[s]
    BY <1>1, <2>1, <2>2, AppendElement
  <2>4. /\ TailsView = [s \in 1..n |-> TailOf(subs[s])]
        /\ TailsView' = [s \in 1..(n + 1) |-> TailOf(subs'[s])]
    BY <2>3, Views, NextViews
  <2>5. PICK T : \A s \in 1..n : TailOf(subs[s]) \in T
    <3>1. \A s \in 1..n : TailOf(subs[s]) \in {TailOf(subs[r]) : r \in 1..n}
      OBVIOUS
    <3> QED BY <3>1
  <2>6. TailsView \in Seq(T) /\ Len(TailsView) = n
    <3>1. TailsView \in [1..n -> T]
      BY <2>4, <2>5
    <3> QED BY <3>1, FunctionIsSequence
  <2>7. Append(TailsView, view)
          = [s \in 1..(n + 1) |-> IF s = n + 1 THEN view ELSE TailsView[s]]
    BY <2>6, AppendIsFunction
  <2>8. \A s \in 1..(n + 1) : s = n + 1 \/ s \in 1..n
    OBVIOUS
  <2>9. \A s \in 1..(n + 1) :
          TailOf(subs'[s]) = IF s = n + 1 THEN view ELSE TailsView[s]
    BY <2>1, <2>3, <2>4, <2>8
  <2> QED BY <2>4, <2>7, <2>9
<1>6. Committed!Open(t)
  BY <1>3, <1>4, <1>5, SameData DEF Committed!Open
<1> QED BY <1>1, <1>6 DEF Committed!Next

\* Some open tails received the next event of their task's journal.
LEMMA ImplementsReceive ==
  ASSUME StoreInv, ~Forgotten, ~Forgotten', UNCHANGED records,
         DOMAIN subs' = DOMAIN subs, NEW readers \in SUBSET DOMAIN subs,
         \A s \in DOMAIN subs \ readers : TailOf(subs'[s]) = TailOf(subs[s]),
         \A s \in readers :
           LET record == records[subs[s].task]
               next == subs[s].base + Len(subs[s].received) + 1
           IN  /\ record # None /\ next \in DOMAIN record.journal
               /\ subs'[s].task = subs[s].task /\ subs'[s].base = subs[s].base
               /\ subs'[s].received
                    = Append(subs[s].received, record.journal[next].event)
  PROVE  Committed!Next
<1>1. /\ TailsView = [s \in DOMAIN subs |-> TailOf(subs[s])]
      /\ TailsView' = [s \in DOMAIN subs |-> TailOf(subs'[s])]
      /\ CommittedView = [t \in Tasks |-> ViewOf(records[t])]
      /\ CommittedView' = CommittedView
  BY Views, NextViews
<1>2. ASSUME NEW s \in readers
      PROVE  LET view == TailsView[s] IN
             /\ CommittedView[view.task] # None
             /\ view.base + Len(view.received) < Len(CommittedView[view.task].log)
             /\ TailOf(subs'[s])
                  = [TailsView[s] EXCEPT !.received = Append(@, Committed!NextOf(TailsView[s]))]
  <2> DEFINE t == subs[s].task
             record == records[t]
             next == subs[s].base + Len(subs[s].received) + 1
             view == TailsView[s]
  <2>1. /\ t \in Tasks /\ subs[s].base \in Nat /\ subs[s].received \in Seq(JournalEvent)
        /\ Len(subs[s].received) \in Nat
    BY DeliveredType DEF StoreInv
  <2>2. record \in StoredTaskRecord /\ record # None
    BY <2>1 DEF StoreInv, TypeOK
  <2>3. view = [task |-> t, base |-> subs[s].base, received |-> subs[s].received]
    BY <1>1 DEF TailOf
  <2>4. /\ CommittedView[t] = ViewOf(record) /\ CommittedView[t] # None
        /\ CommittedView[t].log = EventsOf(record)
        /\ Len(EventsOf(record)) = Len(record.journal)
        /\ \A i \in DOMAIN record.journal : EventsOf(record)[i] = record.journal[i].event
    BY <1>1, <2>1, <2>2, ViewType, EventsType DEF ViewOf
  <2>5. next \in DOMAIN record.journal /\ DOMAIN record.journal = 1..Len(record.journal)
        /\ Len(record.journal) \in Nat
    <3>1. record.journal \in Seq(JournalEntry)
      BY <2>2 DEF StoredTaskRecord
    <3> QED BY <3>1
  <2>6. view.base + Len(view.received) < Len(CommittedView[view.task].log)
    <3>1. next \in 1..Len(record.journal)
      BY <2>5
    <3>2. subs[s].base + Len(subs[s].received) < Len(record.journal)
      BY <2>1, <2>5, <3>1, SMTT(30)
    <3> QED BY <2>3, <2>4, <3>2
  <2>7. Committed!NextOf(view) = record.journal[next].event
    BY <2>3, <2>4, <2>5, SMTT(30) DEF Committed!NextOf
  <2>8. TailOf(subs'[s]) = [task |-> t, base |-> subs[s].base,
                           received |-> Append(subs[s].received, record.journal[next].event)]
    BY DEF TailOf
  <2>9. TailOf(subs'[s]) = [view EXCEPT !.received = Append(@, Committed!NextOf(view))]
    <3>1. PICK e : e = record.journal[next].event
      OBVIOUS
    <3>2. \A x, a, b, c, d : x = [task |-> a, base |-> b, received |-> c] =>
            [x EXCEPT !.received = d] = [task |-> a, base |-> b, received |-> d]
      OBVIOUS
    <3>3. view.received = subs[s].received
      BY <2>3
    <3>4. PICK d : d = Append(subs[s].received, e)
      OBVIOUS
    <3>5. TailOf(subs'[s]) = [task |-> t, base |-> subs[s].base, received |-> d]
      BY <2>8, <3>1, <3>4, Zenon
    <3>6. Append(view.received, Committed!NextOf(view)) = d
      BY <2>7, <3>1, <3>3, <3>4, Zenon
    <3> HIDE DEF view, t, next, record
    <3>7. [view EXCEPT !.received = d] = [task |-> t, base |-> subs[s].base, received |-> d]
      BY <2>3, <3>2
    <3> QED BY <3>5, <3>6, <3>7
  <2> QED BY <2>3, <2>4, <2>6, <2>9
<1>3. TailsView' = [s \in DOMAIN TailsView |->
                      IF s \in readers
                        THEN [TailsView[s] EXCEPT
                                !.received = Append(@, Committed!NextOf(TailsView[s]))]
                        ELSE TailsView[s]]
  <2>1. \A s \in DOMAIN subs \ readers : TailOf(subs'[s]) = TailsView[s]
    BY <1>1
  <2>2. DOMAIN TailsView = DOMAIN subs
    BY <1>1
  <2>3. \A s \in DOMAIN subs :
          TailOf(subs'[s]) = IF s \in readers
                        THEN [TailsView[s] EXCEPT
                                !.received = Append(@, Committed!NextOf(TailsView[s]))]
                        ELSE TailsView[s]
    BY <1>2, <2>1
  <2> QED BY <1>1, <2>2, <2>3
<1>4. Committed!Receive(readers)
  BY <1>1, <1>2, <1>3 DEF Committed!Receive
<1>5. readers \in SUBSET DOMAIN TailsView
  BY <1>1
<1> QED BY <1>4, <1>5 DEF Committed!Next

\* Nothing shows.
LEMMA ImplementsStutter ==
  ASSUME ~Forgotten, ~Forgotten', UNCHANGED records, DOMAIN subs' = DOMAIN subs,
         \A s \in DOMAIN subs : TailOf(subs'[s]) = TailOf(subs[s])
  PROVE  UNCHANGED Committed!vars
<1>1. CommittedView' = CommittedView /\ TailsView' = TailsView
  BY Views, NextViews
<1> QED BY <1>1 DEF Committed!vars

\* The commit of an event ends: the waiting listeners receive the event, which
\* is the next one of each.
LEMMA ImplementsFinish ==
  ASSUME StoreInv, ~Forgotten, ~Forgotten', NEW o \in DOMAIN ops, Step(o), ~Cleanup(o),
         Finishes(o), ops[o].kind = "event"
  PROVE  Committed!Next
<1> DEFINE readers == {s \in DOMAIN subs : Listening(s, ops[o].task) /\ subs[s].waiting}
<1>0. /\ TypeOK /\ QueueInv /\ CommitInv /\ TailsReachable /\ FaithInv
      /\ \A s \in DOMAIN subs : subs[s] \in Subscription
  BY DeliveredType DEF StoreInv
<1>1. /\ DOMAIN subs' = DOMAIN subs /\ records' = records
      /\ \A s \in DOMAIN subs :
           subs'[s] = IF Listening(s, ops[o].task)
                        THEN Pushed(subs[s], EventOf(o)) ELSE subs[s]
  BY DEF Finishes, FinishCommit, NotifySubscribers
<1>2. \A s \in DOMAIN subs \ readers : TailOf(subs'[s]) = TailOf(subs[s])
  BY <1>0, <1>1, PushedFields DEF TailOf
<1>3. ASSUME NEW s \in readers
      PROVE  LET record == records[subs[s].task]
                 next == subs[s].base + Len(subs[s].received) + 1
             IN  /\ record # None /\ next \in DOMAIN record.journal
                 /\ subs'[s].task = subs[s].task /\ subs'[s].base = subs[s].base
                 /\ subs'[s].received
                      = Append(subs[s].received, record.journal[next].event)
  <2>1. /\ s \in DOMAIN subs /\ subs[s].open /\ subs[s].waiting /\ subs[s].buffer = <<>>
        /\ subs[s].task = ops[o].task /\ subs'[s] = Pushed(subs[s], EventOf(o))
    BY <1>0, <1>1 DEF Listening, TailsReachable
  <2>2. PICK t \in Tasks : t = subs[s].task
    BY <1>0, <2>1, DeliveredType
  <2>3. PICK journal \in Seq(JournalEntry) : journal = JournalOf(records[t])
    BY <1>0, JournalType
  <2>4. PICK base \in Nat, got \in Seq(JournalEvent) :
          base = subs[s].base /\ got = subs[s].received
    BY <1>0, <2>1, DeliveredType
  <2>5. /\ Told(t) + 1 = Len(journal) /\ Told(t) \in Nat
        /\ journal[Len(journal)].event = EventOf(o)
    BY <1>0, <2>1, <2>2, <2>3, ToldFinish
  <2>6. base + Len(got) = Told(t)
    <3>1. Delivered(s) = got
      BY <2>1, <2>4 DEF Delivered
    <3> QED BY <1>0, <2>1, <2>2, <2>4, <3>1 DEF FaithInv, Faithful
  <2>7. base + Len(got) + 1 = Len(journal) /\ Len(journal) \in DOMAIN journal
    BY <2>5, <2>6
  <2>8. records[t] # None
    <3>1. records[t] = None => Len(journal) = 0
      BY <2>3 DEF JournalOf
    <3> QED BY <2>5, <3>1
  <2>9. records[t].journal = journal
    BY <2>3, <2>8 DEF JournalOf
  <2>10. /\ subs'[s].task = subs[s].task /\ subs'[s].base = subs[s].base
         /\ subs'[s].received = Append(subs[s].received, EventOf(o))
    BY <1>0, <2>1, PushedFields
  <2> QED BY <2>2, <2>4, <2>5, <2>7, <2>8, <2>9, <2>10
<1>4. readers \in SUBSET DOMAIN subs
  OBVIOUS
<1> HIDE DEF readers
<1> QED BY <1>1, <1>2, <1>3, <1>4, ImplementsReceive

\* A consumer takes an event from its buffer.
LEMMA ImplementsNextEvent ==
  ASSUME StoreInv, ~Forgotten, ~Forgotten', NEW s \in DOMAIN subs, NextEvent(s)
  PROVE  Committed!Next \/ UNCHANGED Committed!vars
<1>0. TypeOK /\ FaithInv /\ ClosedEmpty /\ subs \in Seq(Subscription)
  BY DEF StoreInv, TypeOK
<1>1. PICK base \in Nat, got \in Seq(JournalEvent), buffer \in Seq(JournalEvent),
           t \in Tasks :
        /\ base = subs[s].base /\ got = subs[s].received /\ buffer = subs[s].buffer
        /\ t = subs[s].task
  BY <1>0, DeliveredType
<1>2. CASE buffer = <<>>
  <2>1. subs' = [subs EXCEPT ![s].waiting = TRUE] /\ records' = records
    BY <1>1, <1>2 DEF NextEvent
  <2>2. /\ DOMAIN subs' = DOMAIN subs
        /\ \A r \in DOMAIN subs : TailOf(subs'[r]) = TailOf(subs[r])
    <3>1. subs[s] \in Subscription
      BY <1>0
    <3>2. /\ subs'[s].task = subs[s].task /\ subs'[s].base = subs[s].base
          /\ subs'[s].received = subs[s].received
          /\ \A r \in DOMAIN subs : r # s => subs'[r] = subs[r]
      BY <2>1, <3>1 DEF Subscription
    <3> QED BY <1>0, <2>1, <3>2 DEF TailOf
  <2> QED BY <2>1, <2>2, ImplementsStutter
<1>3. CASE buffer # <<>>
  <2>1. /\ DOMAIN subs' = DOMAIN subs /\ records' = records
        /\ \A r \in DOMAIN subs \ {s} : TailOf(subs'[r]) = TailOf(subs[r])
        /\ subs'[s].task = subs[s].task /\ subs'[s].base = subs[s].base
        /\ subs'[s].received = Append(got, Head(buffer))
    <3>1. subs[s] \in Subscription
      BY <1>0
    <3>2. /\ subs' = [subs EXCEPT ![s].received = Append(@, Head(subs[s].buffer)),
                                  ![s].buffer = Tail(@)]
          /\ records' = records
      BY <1>1, <1>3 DEF NextEvent
    <3>3. /\ subs'[s].task = subs[s].task /\ subs'[s].base = subs[s].base
          /\ subs'[s].received = Append(subs[s].received, Head(subs[s].buffer))
          /\ \A r \in DOMAIN subs : r # s => subs'[r] = subs[r]
      BY <3>1, <3>2 DEF Subscription
    <3> QED BY <1>0, <1>1, <3>2, <3>3 DEF TailOf
  <2>2. PICK journal \in Seq(JournalEntry) : journal = JournalOf(records[t])
    BY <1>0, JournalType
  <2>3. /\ base + Len(got \o buffer) = Told(t)
        /\ \A i \in 1..Len(got \o buffer) : (got \o buffer)[i] = journal[base + i].event
    <3>1. subs[s].open
      BY <1>0, <1>1, <1>3 DEF ClosedEmpty
    <3>2. Faithful(s) /\ Delivered(s) = got \o buffer
      BY <1>0, <1>1, <3>1 DEF FaithInv, Delivered
    <3> QED BY <1>1, <2>2, <3>2 DEF Faithful
  <2>4. /\ Len(got) + 1 \in 1..Len(got \o buffer)
        /\ (got \o buffer)[Len(got) + 1] = Head(buffer)
        /\ Len(got \o buffer) \in Nat /\ Len(got) \in Nat
    BY <1>3
  <2>5. Told(t) <= Len(journal)
    BY <2>2 DEF Told
  <2>6. /\ base + Len(got) + 1 \in DOMAIN journal
        /\ journal[base + Len(got) + 1].event = Head(buffer)
    <3>1. /\ DOMAIN journal = 1..Len(journal) /\ Len(journal) \in Nat
          /\ base + Len(got) + 1 = base + (Len(got) + 1)
      BY <2>4
    <3> QED BY <2>3, <2>4, <2>5, <3>1
  <2>7. records[t] # None
    <3>1. records[t] = None => journal = <<>>
      BY <2>2 DEF JournalOf
    <3> QED BY <2>6, <3>1
  <2>8. records[t].journal = journal
    BY <2>2, <2>7 DEF JournalOf
  <2>9. LET record == records[subs[s].task]
            next == subs[s].base + Len(subs[s].received) + 1
        IN  /\ record # None /\ next \in DOMAIN record.journal
            /\ subs'[s].task = subs[s].task /\ subs'[s].base = subs[s].base
            /\ subs'[s].received
                 = Append(subs[s].received, record.journal[next].event)
    BY <1>1, <2>1, <2>6, <2>7, <2>8
  <2>10. {s} \in SUBSET DOMAIN subs
    OBVIOUS
  <2> QED BY <2>1, <2>9, <2>10, ImplementsReceive
<1> QED BY <1>2, <1>3

\* A step of an operation.
LEMMA ImplementsStep ==
  ASSUME StoreInv, ~Forgotten, ~Forgotten', NEW o \in DOMAIN ops, Step(o)
  PROVE  Committed!Next \/ UNCHANGED Committed!vars
<1>0. TypeOK /\ CommitInv
  BY DEF StoreInv
<1>1. CASE UNCHANGED <<records, subs>>
  BY <1>1, ImplementsStutter
<1>2. CASE Cleanup(o)
  BY <1>1, <1>2 DEF Cleanup
<1>3. ASSUME ~Cleanup(o), NEW new,
             records' = [records EXCEPT ![ops[o].task] = new],
             Follows(o, records[ops[o].task], new), ops[o].pc # "saved", ops'[o].pc = "saved"
      PROVE  Committed!Next
  <2>1. UNCHANGED subs
    BY <1>0, <1>3, StepForms DEF Loads, Stops, Holds, Subscribes, Saves, SaveRecord,
       Renames, RenameRecord, Finishes
  <2> QED BY <1>3, <2>1, ImplementsStore
<1>4. ASSUME ~Cleanup(o), records' = records
      PROVE  Committed!Next \/ UNCHANGED Committed!vars
  <2>1. CASE Subscribes(o) /\ Active(ops[o].record)
    BY <1>4, <2>1, ImplementsOpen
  <2>2. CASE Finishes(o) /\ ops[o].kind = "event"
    BY <1>4, <2>2, ImplementsFinish
  <2>3. CASE ~(Subscribes(o) /\ Active(ops[o].record)) /\ ~(Finishes(o) /\ ops[o].kind = "event")
    <3>1. subs' = subs
      BY <1>0, <1>4, <2>3, StepForms DEF Loads, Stops, Holds, HoldBinding, Subscribes,
         Subscribe, Saves, SaveRecord, Renames, RenameRecord, Finishes, FinishCommit
    <3> QED BY <1>1, <1>4, <3>1, SMTT(30)
  <2> QED BY <2>1, <2>2, <2>3
<1> QED BY <1>0, <1>2, <1>3, <1>4, StepWrites

LEMMA ImplementsNext == StoreInv /\ [Next]_vars => [Committed!Next]_Committed!vars
<1> SUFFICES ASSUME StoreInv, [Next]_vars
             PROVE  Committed!Next \/ UNCHANGED Committed!vars
  OBVIOUS
<1>0. TypeOK /\ \A s \in DOMAIN subs : subs[s] \in Subscription
  BY DeliveredType DEF StoreInv
<1>1. CASE Forgotten'
  <2>1. CommittedView' = [t \in Tasks |-> None] /\ TailsView' = <<>>
    BY <1>1 DEF CommittedView, TailsView
  <2>2. Committed!Forget
    BY <2>1 DEF Committed!Forget
  <2> QED BY <2>2 DEF Committed!Next
<1>2. Forgotten => Forgotten'
  <2>1. ASSUME NEW o \in DOMAIN ops, Step(o) PROVE closed' = closed
    BY <1>0, <2>1, StepForms DEF Cleanup
  <2>2. Forgotten => ~Crash
    BY DEF Forgotten, Crash
  <2> QED BY <2>1, <2>2 DEF Forgotten, Next, Call, Enqueue, PrimeBinding, DiscardPending,
             NextEvent, CloseSubscription, Close, vars
<1>3. CASE ~Forgotten /\ ~Forgotten'
  <2>1. CASE \E o \in DOMAIN ops : Step(o)
    BY <1>3, <2>1, ImplementsStep
  <2>2. CASE \E s \in DOMAIN subs : NextEvent(s)
    BY <1>3, <2>2, ImplementsNextEvent
  <2>3. ASSUME records' = records, DOMAIN subs' = DOMAIN subs,
               \A s \in DOMAIN subs : subs'[s] = subs[s] \/ subs'[s] = Shut(subs[s])
        PROVE  UNCHANGED Committed!vars
    <3>1. \A sub \in Subscription : TailOf(Shut(sub)) = TailOf(sub)
      BY DEF Shut, TailOf, Subscription
    <3>2. \A s \in DOMAIN subs : TailOf(subs'[s]) = TailOf(subs[s])
      BY <1>0, <2>3, <3>1
    <3> QED BY <1>3, <2>3, <3>2, ImplementsStutter
  <2>4. CASE Crash \/ \E s \in DOMAIN subs : CloseSubscription(s)
    BY <2>3, <2>4 DEF Crash, CloseSubscription
  <2>5. CASE Close
    <3>1. Kind # "memory"
      BY <1>3, <2>5 DEF Close, Forgotten
    <3> QED BY <2>3, <2>5, <3>1 DEF Close
  <2>6. CASE \/ Call
             \/ \E t \in Tasks, binding \in Bindings : PrimeBinding(t, binding)
             \/ \E t \in Tasks : DiscardPending(t)
             \/ UNCHANGED vars
    BY <2>3, <2>6 DEF Call, Enqueue, PrimeBinding, DiscardPending, vars
  <2> QED BY <2>1, <2>2, <2>4, <2>5, <2>6 DEF Next
<1> QED BY <1>1, <1>2, <1>3

LEMMA ImplementsInit == Init => Committed!Init
<1> SUFFICES ASSUME Init PROVE Committed!Init
  OBVIOUS
<1>1. ~Forgotten
  BY DEF Init, Forgotten
<1>2. TailsView = <<>>
  BY <1>1 DEF Init, TailsView
<1>3. \A t \in Tasks : records[t] = None \/ records[t] \in StoredTaskRecord
  BY StoreAssumption DEF Init
<1>4. \A t \in Tasks : ViewOf(records[t]) \in Committed!CommittedState \union {None}
  <2>1. ViewOf(None) = None
    BY DEF ViewOf
  <2> QED BY <1>3, <2>1, ViewType
<1>5. CommittedView \in [Tasks -> Committed!CommittedState \union {None}]
  BY <1>1, <1>4, Views
<1> QED BY <1>2, <1>5 DEF Committed!Init

\* TaskStore implements CommittedLog: whatever the operations of a task do
\* between their awaits, and whichever of them fail, each one takes effect on
\* the committed log in one step, and a tail's consumer receives the log in
\* order, without gap or repetition (A2ATaskRuntimeStore).
THEOREM Implements == Spec => ImplementsCommittedLog
<1>1. Init => CallsBounded /\ ClosedEmpty
  BY StoreAssumption DEF Init, CallsBounded, ClosedEmpty
<1>2. Spec => []CallsBounded
  BY <1>1, BoundedNext, TypeCorrect, PTL DEF Spec
<1>3. Spec => []ClosedEmpty
  BY <1>1, EmptyNext, TypeCorrect, PTL DEF Spec
<1>4. Init => FaithInv
  BY DEF Init, FaithInv
<1>5. Spec => []FaithInv
  BY <1>4, FaithNext, TypeCorrect, QueueCorrect, CommitCorrect, ReachableCorrect, PTL DEF Spec
<1>6. TypeOK /\ QueueInv /\ CommitInv /\ TailsReachable /\ FaithInv /\ CallsBounded
        /\ ClosedEmpty => StoreInv
  BY DEF StoreInv
<1> QED BY <1>2, <1>3, <1>5, <1>6, ImplementsInit, ImplementsNext, TypeCorrect, QueueCorrect,
           CommitCorrect, ReachableCorrect, PTL DEF Spec, ImplementsCommittedLog, Committed!Spec
=============================================================================
