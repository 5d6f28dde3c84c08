--------------------------- MODULE TaskStoreProofs ---------------------------
(***************************************************************************)
(* Theorems about TaskStore, for every value of its constants: the type    *)
(* invariant, the queue discipline of enqueueByTask and the numbering of   *)
(* the journals.                                                           *)
(***************************************************************************)
EXTENDS TaskStore, TLAPS

-----------------------------------------------------------------------------
(* Sequences.                                                              *)

LEMMA ReplaceElement ==
  ASSUME NEW S, NEW s \in Seq(S), NEW i \in DOMAIN s, NEW x \in S
  PROVE  /\ [s EXCEPT ![i] = x] \in Seq(S)
         /\ DOMAIN [s EXCEPT ![i] = x] = DOMAIN s
         /\ Len([s EXCEPT ![i] = x]) = Len(s)
  OBVIOUS

LEMMA FunctionIsSequence ==
  ASSUME NEW S, NEW n \in Nat, NEW f \in [1..n -> S]
  PROVE  f \in Seq(S) /\ Len(f) = n
  OBVIOUS

LEMMA EmptySequence == \A S : <<>> \in Seq(S) /\ Len(<<>>) = 0
  OBVIOUS

-----------------------------------------------------------------------------
(* The data.                                                               *)

LEMMA HistoryType ==
  ASSUME NEW task \in Task, NEW message \in Messages
  PROVE  EnsureHistoryContainsMessage(task, message) \in Task
  BY DEF EnsureHistoryContainsMessage, Task

LEMMA WithMessageType ==
  ASSUME NEW task \in Task, NEW message \in Messages \union {None}
  PROVE  WithMessage(task, message) \in Task
  BY HistoryType DEF WithMessage

LEMMA MergeEventType ==
  ASSUME NEW task \in Task, NEW event \in JournalEvent
  PROVE  MergeEvent(task, event) \in Task
<1>1. CASE event.kind = "status-update"
  <2>1. event \in StatusUpdate
    BY <1>1 DEF JournalEvent, ArtifactUpdate
  <2>2. [task EXCEPT !.state = event.state] \in Task
    BY <2>1 DEF Task, StatusUpdate
  <2>3. event.message \in Messages \union {None}
    BY <2>1 DEF StatusUpdate
  <2> QED BY <1>1, <2>2, <2>3, WithMessageType DEF MergeEvent, MergeStatus
<1>2. CASE event.kind # "status-update"
  <2>1. event \in ArtifactUpdate
    BY <1>2 DEF JournalEvent, StatusUpdate
  <2>2. MergedParts(task.artifacts[event.artifactId], event) \in Seq(Parts)
    BY <2>1 DEF MergedParts, ArtifactUpdate, Task, Artifacts
  <2>3. event.artifactId \in ArtifactIds
    BY <2>1 DEF ArtifactUpdate
  <2> QED BY <1>2, <2>2, <2>3 DEF MergeEvent, MergeArtifact, Task, Artifacts
<1> QED BY <1>1, <1>2

\* What an event's record may be computed from (NextRecord).
LEMMA EventType ==
  ASSUME TypeOK, NEW o \in DOMAIN ops, ops[o].kind = "event"
  PROVE  EventOf(o) \in JournalEvent
<1>1. ops[o] \in OpRecord /\ o \in Nat
  BY DEF TypeOK
<1>2. ops[o].arg \in JournalEvent
  BY <1>1, StoreAssumption DEF OpRecord, ArgOf
<1> QED BY <1>1, <1>2 DEF EventOf, JournalEvent, StatusUpdate, ArtifactUpdate

LEMMA FlushedBindingType ==
  ASSUME TypeOK, NEW o \in DOMAIN ops
  PROVE  FlushedBinding(o) \in Bindings \union {None}
<1>1. /\ ops[o].task \in Tasks
      /\ ops[o].record \in StoredTaskRecord \union {None}
  BY DEF TypeOK, OpRecord
<1>2. pending[ops[o].task] \in Bindings \union {None}
  BY <1>1 DEF TypeOK
<1> QED BY <1>1, <1>2 DEF FlushedBinding, BindingOf, StoredTaskRecord

LEMMA NextRecordType ==
  ASSUME TypeOK, NEW o \in DOMAIN ops, Writes(ops[o])
  PROVE  NextRecord(o) \in StoredTaskRecord
<1> DEFINE op == ops[o]
           current == op.record
<1>1. /\ op.kind \in Kinds /\ op.arg \in ArgOf(op.kind)
      /\ current \in StoredTaskRecord \union {None}
  BY DEF TypeOK, OpRecord
<1>2. /\ SequenceOf(current) \in Nat
      /\ JournalOf(current) \in Seq(JournalEntry)
  BY <1>1 DEF SequenceOf, JournalOf, StoredTaskRecord
<1>3. CASE op.kind = "snapshot"
  <2>1. op.arg.task \in Task /\ op.arg.message \in Messages \union {None}
    BY <1>1, <1>3, StoreAssumption DEF ArgOf
  <2>2. WithMessage(op.arg.task, op.arg.message) \in Task
    BY <2>1, WithMessageType
  <2> QED BY <1>2, <1>3, <2>2, FlushedBindingType DEF NextRecord, StoredTaskRecord
<1>4. CASE op.kind # "snapshot"
  <2>1. current \in StoredTaskRecord /\ op.kind \in {"event", "persist", "writeBinding"}
    BY <1>1, <1>4 DEF Writes
  <2>2. CASE op.kind = "event"
    <3>1. EventOf(o) \in JournalEvent
      BY <2>2, EventType
    <3>2. MergeEvent(current.task, EventOf(o)) \in Task
      BY <2>1, <3>1, MergeEventType DEF StoredTaskRecord
    <3>3. Append(current.journal,
                 [sequence |-> SequenceOf(current) + 1, event |-> EventOf(o)])
            \in Seq(JournalEntry)
      BY <1>2, <2>1, <3>1 DEF StoredTaskRecord, JournalEntry
    <3> QED BY <1>2, <2>2, <3>2, <3>3, FlushedBindingType DEF NextRecord, StoredTaskRecord
  <2>3. CASE op.kind = "persist"
    <3>1. EnsureHistoryContainsMessage(current.task, op.arg) \in Task
      BY <1>1, <2>1, <2>3, HistoryType DEF ArgOf, StoredTaskRecord
    <3> QED BY <2>1, <2>3, <3>1 DEF NextRecord, StoredTaskRecord
  <2>4. CASE op.kind = "writeBinding"
    <3>1. op.arg \in Bindings
      BY <1>1, <2>4 DEF ArgOf
    <3> QED BY <2>1, <2>4, <3>1 DEF NextRecord, StoredTaskRecord
  <2> QED BY <2>1, <2>2, <2>3, <2>4
<1> QED BY <1>3, <1>4

-----------------------------------------------------------------------------
(* Type correctness.                                                       *)

LEMMA InitType == Init => TypeOK
<1> SUFFICES ASSUME Init PROVE TypeOK
  OBVIOUS
<1>1. records \in [Tasks -> StoredTaskRecord \union {None}]
  BY StoreAssumption DEF Init
<1>2. bound \in [Tasks -> Bindings \union {None}]
  BY <1>1 DEF Init, BindingOf, StoredTaskRecord
<1>3. tail \in [Tasks -> 0..Len(ops)] /\ listeners \in [Tasks -> 0..Len(subs)]
  BY DEF Init
<1>4. ops \in Seq(OpRecord) /\ subs \in Seq(Subscription)
  BY EmptySequence DEF Init
<1>5. crashes \in 0..MaxCrashes /\ pending \in [Tasks -> Bindings \union {None}]
  BY StoreAssumption DEF Init
<1> QED BY <1>1, <1>2, <1>3, <1>4, <1>5 DEF Init, TypeOK

LEMMA EndedType ==
  ASSUME TypeOK, NEW o \in DOMAIN ops, NEW pc \in SettledStates
  PROVE  Ended(o, pc) \in OpRecord
<1>1. ops[o] \in OpRecord
  BY DEF TypeOK
<1> QED BY <1>1 DEF Ended, OpRecord

LEMMA EndType ==
  ASSUME TypeOK, NEW o \in DOMAIN ops, NEW pc \in SettledStates,
         ops' = [ops EXCEPT ![o] = Ended(o, pc)]
  PROVE  ops' \in Seq(OpRecord) /\ Len(ops') = Len(ops)
  BY EndedType, ReplaceElement DEF TypeOK

LEMMA SubscriptionType ==
  ASSUME NEW sub \in Subscription
  PROVE  /\ Shut(sub) \in Subscription
         /\ [sub EXCEPT !.waiting = TRUE] \in Subscription
         /\ \A event \in JournalEvent : Pushed(sub, event) \in Subscription
<1>1. \A s \in Subscription : [s EXCEPT !.open = FALSE] \in Subscription
  BY DEF Subscription
<1>2. \A s \in Subscription : /\ [s EXCEPT !.waiting = FALSE] \in Subscription
                            /\ [s EXCEPT !.waiting = TRUE] \in Subscription
  BY DEF Subscription
<1>3. \A s \in Subscription, b \in Seq(JournalEvent) :
        [s EXCEPT !.buffer = b] \in Subscription
  BY DEF Subscription
<1>4. Shut(sub) \in Subscription
  BY <1>1, <1>2, <1>3, EmptySequence DEF Shut
<1>5. ASSUME NEW event \in JournalEvent
      PROVE  Pushed(sub, event) \in Subscription
  <2>1. [sub EXCEPT !.received = Append(@, event)] \in Subscription
    BY SMTT(30) DEF Subscription
  <2>2. [sub EXCEPT !.buffer = Append(@, event)] \in Subscription
    BY SMTT(30) DEF Subscription
  <2>3. [sub EXCEPT !.waiting = FALSE, !.received = Append(@, event)]
          \in Subscription
    BY <1>2, <2>1
  <2> QED BY <2>2, <2>3 DEF Pushed
<1> QED BY <1>2, <1>4, <1>5

LEMMA ShutType ==
  ASSUME TypeOK
  PROVE  /\ [s \in DOMAIN subs |-> Shut(subs[s])] \in Seq(Subscription)
         /\ Len([s \in DOMAIN subs |-> Shut(subs[s])]) = Len(subs)
<1>1. ASSUME NEW s \in DOMAIN subs PROVE Shut(subs[s]) \in Subscription
  <2>1. subs[s] \in Subscription
    BY DEF TypeOK
  <2> QED BY <2>1, SubscriptionType
<1>2. DOMAIN subs = 1..Len(subs) /\ Len(subs) \in Nat
  BY DEF TypeOK
<1>3. [s \in DOMAIN subs |-> Shut(subs[s])] \in [1..Len(subs) -> Subscription]
  BY <1>1, <1>2
<1> QED BY <1>2, <1>3, FunctionIsSequence

LEMMA CallType == TypeOK /\ Call => TypeOK'
<1> SUFFICES ASSUME TypeOK,
                    NEW kind \in Calls, NEW t \in Tasks, NEW arg \in ArgOf(kind),
                    Enqueue(kind, t, arg)
             PROVE  TypeOK'
  BY DEF Call
<1> DEFINE op == [kind |-> kind, task |-> t, arg |-> arg,
                  prev |-> tail[t], pc |-> "queued", record |-> None]
<1>1. kind \in Kinds
  BY StoreAssumption
<1>2. tail[t] \in 0..Len(ops)
  BY DEF TypeOK
<1>3. op \in OpRecord
  BY <1>1, <1>2 DEF OpRecord
<1>4. ops' \in Seq(OpRecord) /\ Len(ops') = Len(ops) + 1
  BY <1>3 DEF Enqueue, TypeOK
<1>5. tail' \in [Tasks -> 0..Len(ops')]
  BY <1>4 DEF Enqueue, TypeOK
<1> QED BY <1>4, <1>5 DEF Enqueue, TypeOK

LEMMA StepType ==
  ASSUME TypeOK, NEW o \in DOMAIN ops, Step(o)
  PROVE  TypeOK'
<1> DEFINE op == ops[o]
<1>0. /\ op \in OpRecord /\ op.task \in Tasks
      /\ op.record \in StoredTaskRecord \union {None}
      /\ records[op.task] \in StoredTaskRecord \union {None}
  BY DEF TypeOK, OpRecord
<1>1. CASE LoadRecord(o)
  <2>1. [op EXCEPT !.pc = "loaded", !.record = records[op.task]] \in OpRecord
    BY <1>0 DEF OpRecord
  <2>2. Ended(o, "done") \in OpRecord /\ Ended(o, "failed") \in OpRecord
    BY EndedType DEF SettledStates
  <2>3. \E r \in OpRecord : ops' = [ops EXCEPT ![o] = r]
    BY <1>1, <2>1, <2>2 DEF LoadRecord
  <2>4. ops' \in Seq(OpRecord) /\ Len(ops') = Len(ops)
    BY <2>3, ReplaceElement DEF TypeOK
  <2> QED BY <1>1, <2>4 DEF LoadRecord, TypeOK
<1>2. CASE LoadFails(o) \/ Return(o) \/ SaveFails(o)
  <2>1. \E pc \in SettledStates : ops' = [ops EXCEPT ![o] = Ended(o, pc)]
    BY <1>2 DEF LoadFails, Return, SaveFails, SettledStates
  <2>2. ops' \in Seq(OpRecord) /\ Len(ops') = Len(ops)
    BY <2>1, EndType
  <2> QED BY <1>2, <2>2 DEF LoadFails, Return, SaveFails, TypeOK
<1>3. CASE HoldBinding(o)
  <2>1. ops' \in Seq(OpRecord) /\ Len(ops') = Len(ops)
    BY <1>3, EndType DEF HoldBinding, SettledStates
  <2>2. op.arg \in Bindings
    BY <1>0, <1>3 DEF HoldBinding, OpRecord, ArgOf
  <2> QED BY <1>0, <1>3, <2>1, <2>2 DEF HoldBinding, TypeOK
<1>4. CASE Subscribe(o)
  <2>1. ops' \in Seq(OpRecord) /\ Len(ops') = Len(ops)
    BY <1>4, EndType DEF Subscribe, SettledStates
  <2>2. /\ subs' \in Seq(Subscription)
        /\ listeners' \in [Tasks -> 0..Len(subs')]
    <3>1. CASE Active(op.record)
      <4> DEFINE set == IF listeners[op.task] = 0 THEN Len(subs) + 1
                                                  ELSE listeners[op.task]
                 sub == [task |-> op.task, base |-> Len(op.record.journal),
                         set |-> set, open |-> TRUE, waiting |-> FALSE,
                         buffer |-> <<>>, received |-> <<>>]
      <4>1. Len(op.record.journal) \in Nat
        BY <1>0, <3>1 DEF Active, StoredTaskRecord
      <4>2. set \in 1..(Len(subs) + 1)
        BY <1>0 DEF TypeOK
      <4>3. sub \in Subscription
        BY <1>0, <4>1, <4>2 DEF Subscription
      <4>4. /\ subs' = Append(subs, sub)
            /\ listeners' = [listeners EXCEPT ![op.task] = set]
        BY <1>4, <3>1 DEF Subscribe, CreateSubscription
      <4>5. subs' \in Seq(Subscription) /\ Len(subs') = Len(subs) + 1
        BY <4>3, <4>4 DEF TypeOK
      <4> HIDE DEF set, sub
      <4> QED BY <1>0, <4>2, <4>4, <4>5 DEF TypeOK
    <3>2. CASE ~Active(op.record)
      BY <1>4, <3>2 DEF Subscribe, TypeOK
    <3> QED BY <3>1, <3>2
  <2> QED BY <1>4, <2>1, <2>2 DEF Subscribe, TypeOK
<1>5. CASE SaveRecord(o)
  <2>1. NextRecord(o) \in StoredTaskRecord
    BY <1>5, NextRecordType DEF SaveRecord
  <2>2. \E pc \in {"saved", "saving"} :
          ops' = [ops EXCEPT ![o] = [op EXCEPT !.record = NextRecord(o), !.pc = pc]]
    BY <1>5 DEF SaveRecord
  <2>3. \A pc \in {"saved", "saving"} :
          [op EXCEPT !.record = NextRecord(o), !.pc = pc] \in OpRecord
    BY <1>0, <2>1 DEF OpRecord
  <2>4. ops' \in Seq(OpRecord) /\ Len(ops') = Len(ops)
    <3>1. PICK r \in OpRecord : ops' = [ops EXCEPT ![o] = r]
      BY <2>2, <2>3
    <3> QED BY <3>1, ReplaceElement DEF TypeOK
  <2>5. op.kind = "writeBinding" => op.arg \in Bindings
    BY <1>0 DEF OpRecord, ArgOf
  <2>6. /\ records' \in [Tasks -> StoredTaskRecord \union {None}]
        /\ bound' \in [Tasks -> Bindings \union {None}]
    BY <1>0, <1>5, <2>1, <2>5 DEF SaveRecord, Store, TypeOK
  <2> QED BY <1>5, <2>4, <2>6 DEF SaveRecord, TypeOK
<1>6. CASE RenameRecord(o)
  <2>1. [op EXCEPT !.pc = "saved"] \in OpRecord
    BY <1>0 DEF OpRecord
  <2>2. ops' \in Seq(OpRecord) /\ Len(ops') = Len(ops)
    BY <1>6, <2>1, ReplaceElement DEF RenameRecord, TypeOK
  <2>3. op.kind = "writeBinding" => op.arg \in Bindings
    BY <1>0 DEF OpRecord, ArgOf
  <2>4. /\ records' \in [Tasks -> StoredTaskRecord \union {None}]
        /\ bound' \in [Tasks -> Bindings \union {None}]
    BY <1>0, <1>6, <2>3 DEF RenameRecord, Store, TypeOK
  <2> QED BY <1>6, <2>2, <2>4 DEF RenameRecord, TypeOK
<1>7. CASE FinishCommit(o)
  <2>1. ops' \in Seq(OpRecord) /\ Len(ops') = Len(ops)
    BY <1>7, EndType DEF FinishCommit, SettledStates
  <2>2. pending' \in [Tasks -> Bindings \union {None}]
    BY <1>0, <1>7 DEF FinishCommit, TypeOK
  <2>3. subs' \in Seq(Subscription) /\ Len(subs') = Len(subs)
    <3>1. CASE op.kind = "event"
      <4>1. ASSUME NEW s \in DOMAIN subs
            PROVE  Pushed(subs[s], EventOf(o)) \in Subscription
        <5>1. EventOf(o) \in JournalEvent /\ subs[s] \in Subscription
          BY <3>1, EventType DEF TypeOK
        <5> QED BY <5>1, SubscriptionType
      <4>2. subs' = [s \in DOMAIN subs |->
                      IF Listening(s, op.task)
                        THEN Pushed(subs[s], EventOf(o)) ELSE subs[s]]
        BY <1>7, <3>1 DEF FinishCommit, NotifySubscribers
      <4>3. DOMAIN subs = 1..Len(subs) /\ Len(subs) \in Nat
        BY DEF TypeOK
      <4>4. subs' \in [1..Len(subs) -> Subscription]
        BY <4>1, <4>2, <4>3 DEF TypeOK
      <4> QED BY <4>3, <4>4, FunctionIsSequence
    <3>2. CASE op.kind # "event"
      BY <1>7, <3>2 DEF FinishCommit, TypeOK
    <3> QED BY <3>1, <3>2
  <2> QED BY <1>7, <2>1, <2>2, <2>3 DEF FinishCommit, TypeOK
<1>8. CASE Cleanup(o)
  BY <1>0, <1>8 DEF Cleanup, TypeOK
<1> QED BY <1>1, <1>2, <1>3, <1>4, <1>5, <1>6, <1>7, <1>8 DEF Step

LEMMA UnqueuedType ==
  ASSUME TypeOK,
         \/ \E t \in Tasks, binding \in Bindings : PrimeBinding(t, binding)
         \/ \E t \in Tasks : DiscardPending(t)
         \/ \E s \in DOMAIN subs : NextEvent(s) \/ CloseSubscription(s)
         \/ Close
         \/ Crash
  PROVE  TypeOK'
<1>0. [t \in Tasks |-> BindingOf(records[t])] \in [Tasks -> Bindings \union {None}]
  BY DEF BindingOf, TypeOK, StoredTaskRecord
<1>1. ASSUME NEW t \in Tasks, NEW binding \in Bindings, PrimeBinding(t, binding)
      PROVE  TypeOK'
  BY <1>1 DEF PrimeBinding, TypeOK
<1>2. ASSUME NEW t \in Tasks, DiscardPending(t)
      PROVE  TypeOK'
  BY <1>2, SMTT(30) DEF DiscardPending, TypeOK
<1>3. ASSUME NEW s \in DOMAIN subs, NextEvent(s)
      PROVE  TypeOK'
  <2>1. subs[s] \in Subscription
    BY DEF TypeOK
  <2>2. [subs[s] EXCEPT !.waiting = TRUE] \in Subscription
    BY <2>1, SubscriptionType
  <2>3. subs[s].buffer # <<>> =>
          [subs[s] EXCEPT !.received = Append(@, Head(subs[s].buffer)),
                          !.buffer = Tail(@)] \in Subscription
    <3> SUFFICES ASSUME subs[s].buffer # <<>>
                 PROVE  [subs[s] EXCEPT !.received = Append(@, Head(subs[s].buffer)),
                                        !.buffer = Tail(@)] \in Subscription
      OBVIOUS
    <3>1. /\ Head(subs[s].buffer) \in JournalEvent
          /\ Tail(subs[s].buffer) \in Seq(JournalEvent)
          /\ subs[s].received \in Seq(JournalEvent)
      BY <2>1 DEF Subscription
    <3>2. Append(subs[s].received, Head(subs[s].buffer)) \in Seq(JournalEvent)
      BY <3>1
    <3>3. \A sub \in Subscription, b, r \in Seq(JournalEvent) :
            [sub EXCEPT !.received = r, !.buffer = b] \in Subscription
      BY DEF Subscription
    <3> QED BY <2>1, <3>1, <3>2, <3>3
  <2>4. \E sub \in Subscription : subs' = [subs EXCEPT ![s] = sub]
    BY <1>3, <2>2, <2>3 DEF NextEvent
  <2>5. subs' \in Seq(Subscription) /\ Len(subs') = Len(subs)
    BY <2>4, ReplaceElement DEF TypeOK
  <2> QED BY <1>3, <2>5 DEF NextEvent, TypeOK
<1>4. ASSUME NEW s \in DOMAIN subs, CloseSubscription(s)
      PROVE  TypeOK'
  <2>1. subs[s] \in Subscription
    BY DEF TypeOK
  <2>2. subs[s].task \in Tasks /\ Shut(subs[s]) \in Subscription
    BY <2>1, SubscriptionType DEF Subscription
  <2>3. subs' \in Seq(Subscription) /\ Len(subs') = Len(subs)
    BY <1>4, <2>2, ReplaceElement DEF CloseSubscription, TypeOK
  <2>4. listeners' \in [Tasks -> 0..Len(subs)]
    BY <1>4, <2>2 DEF CloseSubscription, TypeOK
  <2> QED BY <1>4, <2>3, <2>4 DEF CloseSubscription, TypeOK
<1>5. ASSUME Close PROVE TypeOK'
  <2>1. subs' \in Seq(Subscription) /\ Len(subs') = Len(subs)
    BY <1>5, ShutType DEF Close
  <2>2. listeners' \in [Tasks -> 0..Len(subs')] /\ pending' \in [Tasks -> Bindings \union {None}]
    BY <1>5, <2>1 DEF Close, TypeOK
  <2>3. /\ records' \in [Tasks -> StoredTaskRecord \union {None}]
        /\ bound' \in [Tasks -> Bindings \union {None}]
    BY <1>0, <1>5 DEF Close, TypeOK
  <2> QED BY <1>5, <2>1, <2>2, <2>3 DEF Close, TypeOK
<1>6. ASSUME Crash PROVE TypeOK'
  <2>1. subs' \in Seq(Subscription) /\ Len(subs') = Len(subs)
    BY <1>6, ShutType DEF Crash
  <2>2. ASSUME NEW o \in DOMAIN ops
        PROVE  (IF Settled(o) THEN ops[o] ELSE Ended(o, "lost")) \in OpRecord
    BY EndedType DEF TypeOK, SettledStates
  <2>3. ops' \in Seq(OpRecord) /\ Len(ops') = Len(ops)
    <3>1. DOMAIN ops = 1..Len(ops) /\ Len(ops) \in Nat
      BY DEF TypeOK
    <3>2. ops' \in [1..Len(ops) -> OpRecord]
      BY <1>6, <2>2, <3>1 DEF Crash
    <3> QED BY <3>1, <3>2, FunctionIsSequence
  <2>4. /\ tail' \in [Tasks -> 0..Len(ops')]
        /\ listeners' \in [Tasks -> 0..Len(subs')]
        /\ pending' \in [Tasks -> Bindings \union {None}]
        /\ crashes' \in 0..MaxCrashes
    BY <1>6, <2>1, <2>3, StoreAssumption DEF Crash, TypeOK
  <2> QED BY <1>0, <1>6, <2>1, <2>3, <2>4 DEF Crash, TypeOK
<1> QED BY <1>1, <1>2, <1>3, <1>4, <1>5, <1>6

LEMMA NextType == TypeOK /\ [Next]_vars => TypeOK'
<1> SUFFICES ASSUME TypeOK, [Next]_vars PROVE TypeOK'
  OBVIOUS
<1>1. CASE UNCHANGED vars
  BY <1>1 DEF vars, TypeOK
<1>2. CASE Next
  BY <1>2, CallType, StepType, UnqueuedType DEF Next
<1> QED BY <1>1, <1>2

\* Every variable of the store keeps a value of its shape: in particular every
\* record the store writes, whatever it merges, is a record it can hold.
THEOREM TypeCorrect == Spec => []TypeOK
BY InitType, NextType, PTL DEF Spec

-----------------------------------------------------------------------------
(* The queue of a task.  tail[t] is the last operation that may still run,  *)
(* and the promise chain links each operation to the one before it.        *)

SameTask(o, p) == ops[o].task = ops[p].task

\* The operation queued before p is an earlier one on the same task.
PrevIsEarlier ==
  \A p \in DOMAIN ops :
    /\ ops[p].prev \in 0..(p - 1)
    /\ ops[p].prev # 0 => SameTask(ops[p].prev, p)

\* What p does not wait for, directly or through the chain, is settled.
PrevIsLatest ==
  \A o, p \in DOMAIN ops :
    o < p /\ SameTask(o, p) /\ ops[p].prev < o => Settled(o)

\* What a next operation would not wait for is settled.
TailIsLatest ==
  /\ \A t \in Tasks : tail[t] # 0 => ops[tail[t]].task = t
  /\ \A o \in DOMAIN ops : tail[ops[o].task] < o => Settled(o)

\* FifoPerTask, for operations lost in a crash as well.
StartedInOrder ==
  \A o, p \in DOMAIN ops :
    o < p /\ SameTask(o, p) /\ ops[p].pc # "queued" => Settled(o)

QueueInv == PrevIsEarlier /\ PrevIsLatest /\ TailIsLatest /\ StartedInOrder

\* A step of operation o other than Cleanup changes no other operation; the
\* operation was its turn and is not settled before the step.
LEMMA StepShape ==
  ASSUME TypeOK, NEW o \in DOMAIN ops, Step(o), ~Cleanup(o)
  PROVE  /\ tail' = tail /\ DOMAIN ops' = DOMAIN ops
         /\ \A p \in DOMAIN ops : p # o => ops'[p] = ops[p]
         /\ ops'[o].task = ops[o].task /\ ops'[o].prev = ops[o].prev
         /\ ops[o].pc \notin SettledStates /\ ops'[o].pc # "queued"
         /\ ops[o].pc = "queued" => CanStart(o)
<1> DEFINE Keeps(r) == /\ r.task = ops[o].task /\ r.prev = ops[o].prev
                       /\ r.pc # "queued"
<1>0. ops[o] \in OpRecord /\ o \in Nat
  BY DEF TypeOK
<1>1. \A pc \in SettledStates : Keeps(Ended(o, pc))
  BY <1>0 DEF Ended, OpRecord, SettledStates
<1>2. PICK r : ops' = [ops EXCEPT ![o] = r] /\ Keeps(r)
  <2>1. CASE LoadRecord(o)
    <3>1. Keeps([ops[o] EXCEPT !.pc = "loaded", !.record = records[ops[o].task]])
      BY <1>0 DEF OpRecord
    <3>2. Keeps(Ended(o, "done")) /\ Keeps(Ended(o, "failed"))
      BY <1>1 DEF SettledStates
    <3>3. ops' \in {[ops EXCEPT ![o] = r] :
                     r \in {Ended(o, "done"), Ended(o, "failed"),
                           [ops[o] EXCEPT !.pc = "loaded",
                                          !.record = records[ops[o].task]]}}
      BY <2>1 DEF LoadRecord
    <3> HIDE DEF Keeps
    <3> QED BY <3>1, <3>2, <3>3
  <2>2. CASE LoadFails(o) \/ Return(o) \/ SaveFails(o)
    BY <1>1, <2>2 DEF LoadFails, Return, SaveFails, SettledStates
  <2>3. CASE HoldBinding(o) \/ Subscribe(o) \/ FinishCommit(o)
    BY <1>1, <2>3 DEF HoldBinding, Subscribe, FinishCommit, SettledStates
  <2>4. CASE SaveRecord(o)
    <3> DEFINE pc == IF Kind = "memory" THEN "saved" ELSE "saving"
               r == [ops[o] EXCEPT !.record = NextRecord(o), !.pc = pc]
    <3>1. Keeps(r)
      BY <1>0 DEF OpRecord
    <3>2. ops' = [ops EXCEPT ![o] = r]
      BY <2>4 DEF SaveRecord
    <3> QED BY <3>1, <3>2
  <2>5. CASE RenameRecord(o)
    <3>1. Keeps([ops[o] EXCEPT !.pc = "saved"])
      BY <1>0 DEF OpRecord
    <3>2. ops' = [ops EXCEPT ![o] = [ops[o] EXCEPT !.pc = "saved"]]
      BY <2>5 DEF RenameRecord
    <3> QED BY <3>1, <3>2
  <2> QED BY <2>1, <2>2, <2>3, <2>4, <2>5 DEF Step
<1>3. tail' = tail
  BY DEF Step, LoadRecord, LoadFails, Return, SaveFails, HoldBinding, Subscribe,
         FinishCommit, SaveRecord, RenameRecord
<1>4. /\ ops[o].pc \in {"queued", "loaded", "saving", "saved"}
      /\ ops[o].pc = "queued" => CanStart(o)
  BY DEF Step, LoadRecord, LoadFails, Return, SaveFails, HoldBinding, Subscribe,
         FinishCommit, SaveRecord, RenameRecord, CanStart
<1>5. ops \in Seq(OpRecord)
  BY DEF TypeOK
<1> QED BY <1>2, <1>3, <1>4, <1>5 DEF SettledStates

LEMMA QueueStep ==
  ASSUME TypeOK, QueueInv, NEW o \in DOMAIN ops, Step(o), ~Cleanup(o)
  PROVE  QueueInv'
<1>0. /\ DOMAIN ops = 1..Len(ops) /\ Len(ops) \in Nat
      /\ \A p \in DOMAIN ops : ops[p].task \in Tasks /\ ops[p].prev \in Nat
      /\ tail \in [Tasks -> 0..Len(ops)]
  BY SMTT(30) DEF TypeOK, OpRecord
<1>1. \A p \in DOMAIN ops : ops'[p].task = ops[p].task /\ ops'[p].prev = ops[p].prev
  BY StepShape
<1>2. \A p \in DOMAIN ops : Settled(p) => Settled(p)'
  BY StepShape DEF Settled
<1>3. PrevIsEarlier'
  BY <1>0, <1>1, StepShape, SMTT(30) DEF QueueInv, PrevIsEarlier, SameTask
<1>4. PrevIsLatest'
  BY <1>0, <1>1, <1>2, StepShape DEF QueueInv, PrevIsLatest, SameTask
<1>5. TailIsLatest'
  BY <1>0, <1>1, <1>2, StepShape DEF QueueInv, TailIsLatest
<1>6. StartedInOrder'
  <2> SUFFICES ASSUME NEW q \in DOMAIN ops, NEW p \in DOMAIN ops,
                      q < p, SameTask(q, p), ops'[p].pc # "queued"
               PROVE  Settled(q)
    BY <1>1, <1>2, StepShape DEF StartedInOrder, SameTask
  <2>1. CASE ops[p].pc # "queued"
    BY <2>1 DEF QueueInv, StartedInOrder
  <2>2. CASE ops[p].pc = "queued"
    <3>1. p = o /\ CanStart(p)
      BY <2>2, StepShape
    <3>2. CASE ops[p].prev < q
      BY <3>2 DEF QueueInv, PrevIsLatest
    <3>3. CASE ops[p].prev = q
      BY <3>1, <3>3 DEF CanStart
    <3>4. CASE q < ops[p].prev
      <4>1. /\ ops[p].prev \in DOMAIN ops /\ SameTask(q, ops[p].prev)
            /\ ops[ops[p].prev].pc \in SettledStates
        BY <1>0, <3>1, <3>4 DEF QueueInv, PrevIsEarlier, SameTask, CanStart, Settled
      <4> QED BY <3>4, <4>1 DEF QueueInv, StartedInOrder, SettledStates
    <3> QED BY <1>0, <3>2, <3>3, <3>4
  <2> QED BY <2>1, <2>2
<1> QED BY <1>3, <1>4, <1>5, <1>6 DEF QueueInv

LEMMA QueueCleanup ==
  ASSUME TypeOK, QueueInv, NEW o \in DOMAIN ops, Cleanup(o)
  PROVE  QueueInv'
<1> DEFINE t == ops[o].task
<1>0. /\ DOMAIN ops = 1..Len(ops) /\ Len(ops) \in Nat
      /\ \A p \in DOMAIN ops : ops[p].task \in Tasks
      /\ tail \in [Tasks -> 0..Len(ops)]
  BY DEF TypeOK, OpRecord
<1>1. ops' = ops /\ tail[t] = o /\ tail' = [tail EXCEPT ![t] = 0]
  BY DEF Cleanup
<1>2. ops[o].pc \in {"done", "failed"}
  BY DEF Cleanup
<1>3. ASSUME NEW p \in DOMAIN ops, ops[p].task = t PROVE Settled(p)
  <2>1. CASE p < o
    BY <1>2, <1>3, <2>1 DEF QueueInv, StartedInOrder, SameTask
  <2>2. CASE p = o
    BY <1>2, <2>2 DEF Settled, SettledStates
  <2>3. CASE o < p
    BY <1>1, <1>3, <2>3 DEF QueueInv, TailIsLatest
  <2> QED BY <1>0, <2>1, <2>2, <2>3
<1>4. TailIsLatest'
  BY <1>0, <1>1, <1>3 DEF QueueInv, TailIsLatest, Settled
<1>5. (PrevIsEarlier /\ PrevIsLatest /\ StartedInOrder)'
  BY <1>1 DEF QueueInv, PrevIsEarlier, PrevIsLatest, StartedInOrder, SameTask, Settled
<1> QED BY <1>4, <1>5 DEF QueueInv

LEMMA QueueCall == TypeOK /\ QueueInv /\ Call => QueueInv'
<1> SUFFICES ASSUME TypeOK, QueueInv,
                    NEW kind \in Calls, NEW t \in Tasks, NEW arg \in ArgOf(kind),
                    Enqueue(kind, t, arg)
             PROVE  QueueInv'
  BY DEF Call
<1> DEFINE n == Len(ops) + 1
<1>0. /\ DOMAIN ops = 1..Len(ops) /\ Len(ops) \in Nat
      /\ \A p \in DOMAIN ops : ops[p].task \in Tasks /\ ops[p].prev \in Nat
      /\ tail \in [Tasks -> 0..Len(ops)]
  BY DEF TypeOK, OpRecord
<1>1. /\ DOMAIN ops' = 1..n /\ n \notin DOMAIN ops
      /\ \A p \in DOMAIN ops : ops'[p] = ops[p]
      /\ ops'[n].task = t /\ ops'[n].prev = tail[t] /\ ops'[n].pc = "queued"
  BY DEF Enqueue, TypeOK
<1>2. tail' = [tail EXCEPT ![t] = n]
  BY DEF Enqueue
<1>3. \A p \in DOMAIN ops : Settled(p)' <=> Settled(p)
  BY <1>0, <1>1 DEF Settled
<1>4. PrevIsEarlier'
  BY <1>0, <1>1 DEF QueueInv, PrevIsEarlier, TailIsLatest, SameTask
<1>5. PrevIsLatest'
  BY <1>0, <1>1, <1>3 DEF QueueInv, PrevIsLatest, TailIsLatest, SameTask
<1>6. TailIsLatest'
  BY <1>0, <1>1, <1>2, <1>3 DEF QueueInv, TailIsLatest
<1>7. StartedInOrder'
  BY <1>0, <1>1, <1>3 DEF QueueInv, StartedInOrder, SameTask
<1> QED BY <1>4, <1>5, <1>6, <1>7 DEF QueueInv

LEMMA QueueCrash == TypeOK /\ QueueInv /\ Crash => QueueInv'
<1> SUFFICES ASSUME TypeOK, QueueInv, Crash PROVE QueueInv'
  OBVIOUS
<1>0. /\ DOMAIN ops = 1..Len(ops) /\ Len(ops) \in Nat
      /\ \A p \in DOMAIN ops : ops[p] \in OpRecord
  BY DEF TypeOK
<1>1. /\ DOMAIN ops' = DOMAIN ops
      /\ \A p \in DOMAIN ops : /\ ops'[p].task = ops[p].task
                               /\ ops'[p].prev = ops[p].prev
                               /\ ops'[p].pc \in SettledStates
  <2>1. ops' = [p \in DOMAIN ops |-> IF Settled(p) THEN ops[p] ELSE Ended(p, "lost")]
    BY DEF Crash
  <2>2. ASSUME NEW p \in DOMAIN ops
        PROVE  /\ Ended(p, "lost").task = ops[p].task
               /\ Ended(p, "lost").prev = ops[p].prev
               /\ Ended(p, "lost").pc = "lost"
    BY <1>0 DEF Ended, OpRecord
  <2>3. \A p \in DOMAIN ops : Settled(p) => ops[p].pc \in SettledStates
    BY <1>0 DEF Settled
  <2> QED BY <2>1, <2>2, <2>3 DEF SettledStates
<1>2. \A p \in DOMAIN ops : Settled(p)'
  BY <1>1 DEF Settled
<1>3. \A t \in Tasks : tail'[t] = 0
  BY DEF Crash
<1> QED BY <1>0, <1>1, <1>2, <1>3 DEF QueueInv, PrevIsEarlier, PrevIsLatest,
           TailIsLatest, StartedInOrder, SameTask

LEMMA QueueNext == TypeOK /\ QueueInv /\ [Next]_vars => QueueInv'
<1> SUFFICES ASSUME TypeOK, QueueInv, [Next]_vars PROVE QueueInv'
  OBVIOUS
<1>1. CASE UNCHANGED <<ops, tail>>
  BY <1>1 DEF QueueInv, PrevIsEarlier, PrevIsLatest, TailIsLatest, StartedInOrder,
              SameTask, Settled
<1>2. CASE Call
  BY <1>2, QueueCall
<1>3. CASE \E o \in DOMAIN ops : Step(o)
  BY <1>3, QueueStep, QueueCleanup
<1>4. CASE Crash
  BY <1>4, QueueCrash
<1>5. CASE UNCHANGED vars
  BY <1>1, <1>5, SMTT(30) DEF vars
<1>6. CASE \/ \E t \in Tasks, binding \in Bindings : PrimeBinding(t, binding)
           \/ \E t \in Tasks : DiscardPending(t)
           \/ \E s \in DOMAIN subs : NextEvent(s) \/ CloseSubscription(s)
           \/ Close
  BY <1>1, <1>6 DEF PrimeBinding, DiscardPending, NextEvent, CloseSubscription, Close
<1> QED BY <1>2, <1>3, <1>4, <1>5, <1>6 DEF Next

\* The queue discipline of enqueueByTask, from which everything that relates
\* two operations of a task follows.
THEOREM QueueCorrect == Spec => []QueueInv
<1>1. Init => QueueInv
  <2> SUFFICES ASSUME Init PROVE QueueInv
    OBVIOUS
  <2>1. DOMAIN ops = {} /\ \A t \in Tasks : tail[t] = 0
    BY DEF Init
  <2> QED BY <2>1 DEF QueueInv, PrevIsEarlier, PrevIsLatest, TailIsLatest, StartedInOrder
<1> QED BY <1>1, TypeCorrect, QueueNext, PTL DEF Spec

\* The operations of a task run one at a time and in call order, although the
\* entry of the task's queue comes and goes and operations fail.
THEOREM FifoCorrect == Spec => []FifoPerTask
<1>1. QueueInv => FifoPerTask
  BY DEF QueueInv, StartedInOrder, FifoPerTask, SameTask
<1> QED BY <1>1, QueueCorrect, PTL

-----------------------------------------------------------------------------
(* The journals.                                                           *)

\* The journal is numbered and in call order (JournalInOrder).
Numbered(record) ==
  /\ record.currentSequence = Len(record.journal)
  /\ \A i \in DOMAIN record.journal : record.journal[i].sequence = i
  /\ \A i, j \in DOMAIN record.journal :
       i < j => record.journal[i].event.id < record.journal[j].event.id

\* Its events came with calls on the task, and these calls have started.
FromCalls(calls, record, t) ==
  \A i \in DOMAIN record.journal :
    LET o == record.journal[i].event.id IN
    o \in DOMAIN calls /\ calls[o].task = t /\ calls[o].pc # "queued"

StoredInOrder ==
  \A t \in Tasks :
    records[t] # None => Numbered(records[t]) /\ FromCalls(ops, records[t], t)

\* The record an operation works on is as good as the stored one.
CarriedInOrder ==
  \A o \in DOMAIN ops :
    InFlight(o) /\ ops[o].record # None =>
      Numbered(ops[o].record) /\ FromCalls(ops, ops[o].record, ops[o].task)

\* Before it is saved it does not hold the event of its own call.
LoadedWithoutOwn ==
  \A o \in DOMAIN ops :
    ops[o].pc = "loaded" /\ ops[o].record # None =>
      \A i \in DOMAIN ops[o].record.journal : ops[o].record.journal[i].event.id # o

JournalInv == StoredInOrder /\ CarriedInOrder /\ LoadedWithoutOwn

LEMMA InitJournal == Init => JournalInv
<1> SUFFICES ASSUME Init PROVE JournalInv
  OBVIOUS
<1>1. DOMAIN ops = {}
  BY DEF Init
<1>2. ASSUME NEW t \in Tasks, records[t] # None
      PROVE  Numbered(records[t]) /\ FromCalls(ops, records[t], t)
  <2>1. records[t] \in Stored
    BY <1>2 DEF Init
  <2>2. records[t].journal = <<>> /\ records[t].currentSequence = 0
    BY <2>1, StoreAssumption
  <2> QED BY <2>2 DEF Numbered, FromCalls
<1> QED BY <1>1, <1>2 DEF JournalInv, StoredInOrder, CarriedInOrder, LoadedWithoutOwn

\* The calls behind a journal stay: operations keep their task and never go
\* back to the queue.
LEMMA FromCallsStays ==
  ASSUME DOMAIN ops \subseteq DOMAIN ops',
         \A p \in DOMAIN ops : /\ ops'[p].task = ops[p].task
                               /\ ops[p].pc # "queued" => ops'[p].pc # "queued"
  PROVE  \A r, t : FromCalls(ops, r, t) => FromCalls(ops', r, t)
  BY DEF FromCalls

\* What NextRecord makes of a record in order is in order.
LEMMA NextInOrder ==
  ASSUME TypeOK, QueueInv, JournalInv, NEW o \in DOMAIN ops,
         ops[o].pc = "loaded", Writes(ops[o])
  PROVE  Numbered(NextRecord(o)) /\ FromCalls(ops, NextRecord(o), ops[o].task)
<1> DEFINE op == ops[o]
           current == op.record
<1>0. /\ op.kind \in Kinds /\ op.arg \in ArgOf(op.kind)
      /\ current \in StoredTaskRecord \union {None}
      /\ DOMAIN ops = 1..Len(ops) /\ Len(ops) \in Nat /\ o \in Nat
  BY DEF TypeOK, OpRecord
<1>1. current # None => /\ Numbered(current) /\ FromCalls(ops, current, op.task)
                        /\ current.journal \in Seq(JournalEntry)
                        /\ current.currentSequence \in Nat
  BY <1>0 DEF JournalInv, CarriedInOrder, InFlight, StoredTaskRecord
<1>2. CASE op.kind = "snapshot"
  <2>1. /\ NextRecord(o).journal = JournalOf(current)
        /\ NextRecord(o).currentSequence = SequenceOf(current)
    BY <1>2 DEF NextRecord
  <2>2. CASE current = None
    BY <2>1, <2>2 DEF JournalOf, SequenceOf, Numbered, FromCalls
  <2>3. CASE current # None
    BY <1>1, <2>1, <2>3 DEF JournalOf, SequenceOf, Numbered, FromCalls
  <2> QED BY <2>2, <2>3
<1>3. CASE op.kind \in {"persist", "writeBinding"}
  <2>1. current \in StoredTaskRecord /\ current # None
    BY <1>0, <1>3 DEF Writes
  <2>2. /\ NextRecord(o).journal = current.journal
        /\ NextRecord(o).currentSequence = current.currentSequence
    BY <1>3, <2>1 DEF NextRecord, StoredTaskRecord
  <2> QED BY <1>1, <2>1, <2>2 DEF Numbered, FromCalls
<1>4. CASE op.kind = "event"
  <2> DEFINE n == Len(current.journal)
             entry == [sequence |-> n + 1, event |-> EventOf(o)]
             next == Append(current.journal, entry)
  <2>1. current # None
    BY <1>4 DEF Writes
  <2>2. current.currentSequence = n /\ n \in Nat
    BY <1>1, <2>1 DEF Numbered
  <2>3. /\ NextRecord(o).journal = next
        /\ NextRecord(o).currentSequence = n + 1
    BY <1>4, <2>1, <2>2 DEF NextRecord, SequenceOf
  <2>4. EventOf(o).id = o
    <3>1. op.arg \in JournalEvent
      BY <1>0, <1>4, StoreAssumption DEF ArgOf
    <3> QED BY <3>1 DEF EventOf, JournalEvent, StatusUpdate, ArtifactUpdate
  <2>5. /\ DOMAIN next = 1..(n + 1) /\ DOMAIN current.journal = 1..n
        /\ \A i \in 1..n : next[i] = current.journal[i]
        /\ next[n + 1] = entry /\ Len(next) = n + 1
    <3> HIDE DEF entry
    <3> QED BY <1>1, <2>1, <2>2
  <2>6. ASSUME NEW i \in 1..n PROVE current.journal[i].event.id < o
    <3> DEFINE e == current.journal[i].event.id
    <3>1. e \in DOMAIN ops /\ SameTask(e, o) /\ ops[e].pc # "queued" /\ e # o
      BY <1>1, <2>1, <2>5 DEF FromCalls, SameTask, JournalInv, LoadedWithoutOwn
    <3> HIDE DEF e
    <3>2. ~(o < e)
      <4>1. SameTask(o, e) /\ (o < e => Settled(o))
        BY <3>1 DEF QueueInv, StartedInOrder, SameTask
      <4>2. o # 0 /\ ops[o].pc \notin SettledStates
        BY <1>0 DEF SettledStates, InFlight, TypeOK
      <4> QED BY <4>1, <4>2 DEF Settled
    <3> QED BY <1>0, <3>1, <3>2 DEF e
  <2>7. Numbered(NextRecord(o))
    <3>1. \A i \in DOMAIN next : next[i].sequence = i
      BY <1>1, <2>1, <2>5 DEF Numbered
    <3>2. \A i, j \in DOMAIN next : i < j => next[i].event.id < next[j].event.id
      <4> SUFFICES ASSUME NEW i \in 1..(n + 1), NEW j \in 1..(n + 1), i < j
                   PROVE  next[i].event.id < next[j].event.id
        BY <2>5
      <4>1. i \in 1..n /\ next[i] = current.journal[i]
        BY <2>2, <2>5
      <4>2. CASE j \in 1..n
        BY <1>1, <2>1, <2>5, <4>1, <4>2 DEF Numbered
      <4>3. CASE j = n + 1
        BY <2>4, <2>5, <2>6, <4>1, <4>3
      <4> QED BY <2>2, <4>2, <4>3
    <3> HIDE DEF next
    <3> QED BY <2>3, <2>5, <3>1, <3>2 DEF Numbered
  <2>8. FromCalls(ops, NextRecord(o), op.task)
    <3>1. \A i \in DOMAIN next : \/ i \in 1..n /\ next[i] = current.journal[i]
                                 \/ next[i].event.id = o
      BY <2>2, <2>4, <2>5
    <3> HIDE DEF next
    <3> QED BY <1>1, <2>1, <2>3, <2>5, <3>1 DEF FromCalls
  <2> QED BY <2>7, <2>8
<1> QED BY <1>0, <1>2, <1>3, <1>4 DEF Writes

LEMMA JournalStep ==
  ASSUME TypeOK, QueueInv, JournalInv, NEW o \in DOMAIN ops, Step(o), ~Cleanup(o)
  PROVE  JournalInv'
<1> DEFINE op == ops[o]
           t == op.task
<1>0. /\ \A p \in DOMAIN ops : ops[p] \in OpRecord /\ ops[p].task \in Tasks
      /\ o \in DOMAIN ops' /\ DOMAIN ops' = DOMAIN ops
      /\ records \in [Tasks -> StoredTaskRecord \union {None}]
      /\ ops \in Seq(OpRecord)
  BY StepShape, SMTT(30) DEF TypeOK, OpRecord
<1>1. \A r, u : FromCalls(ops, r, u) => FromCalls(ops', r, u)
  <2>1. \A p \in DOMAIN ops : /\ ops'[p].task = ops[p].task
                              /\ ops[p].pc # "queued" => ops'[p].pc # "queued"
    BY StepShape
  <2> QED BY <1>0, <2>1, FromCallsStays
<1>2. ASSUME NEW p \in DOMAIN ops, p # o
      PROVE  /\ InFlight(p)' /\ ops'[p].record # None =>
                  Numbered(ops'[p].record) /\ FromCalls(ops', ops'[p].record, ops'[p].task)
             /\ ops'[p].pc = "loaded" /\ ops'[p].record # None =>
                  \A i \in DOMAIN ops'[p].record.journal :
                    ops'[p].record.journal[i].event.id # p
  <2>1. ops'[p] = ops[p]
    BY <1>2, StepShape
  <2> QED BY <1>1, <2>1 DEF JournalInv, CarriedInOrder, LoadedWithoutOwn, InFlight
<1>3. records' = records => StoredInOrder'
  BY <1>1 DEF JournalInv, StoredInOrder
<1>4. ASSUME records' = records, ops'[o].pc \in SettledStates
      PROVE  JournalInv'
  <2>1. CarriedInOrder'
    BY <1>0, <1>2, <1>4 DEF CarriedInOrder, InFlight, SettledStates
  <2>2. LoadedWithoutOwn'
    BY <1>0, <1>2, <1>4 DEF LoadedWithoutOwn, SettledStates
  <2> QED BY <1>3, <1>4, <2>1, <2>2 DEF JournalInv
<1>5. \A pc : Ended(o, pc).pc = pc
  BY <1>0 DEF Ended, OpRecord
<1>6. CASE LoadFails(o) \/ Return(o) \/ HoldBinding(o) \/ Subscribe(o)
             \/ SaveFails(o) \/ FinishCommit(o)
  <2>1. /\ records' = records
        /\ \E pc \in SettledStates : ops' = [ops EXCEPT ![o] = Ended(o, pc)]
    BY <1>6 DEF LoadFails, Return, HoldBinding, Subscribe, SaveFails, FinishCommit,
                SettledStates
  <2>2. ops'[o].pc \in SettledStates
    BY <1>0, <1>5, <2>1
  <2> QED BY <1>4, <2>1, <2>2
<1>7. CASE LoadRecord(o)
  <2>1. records' = records /\ op.pc = "queued"
    BY <1>7 DEF LoadRecord, CanStart
  <2>2. CASE ops'[o].pc \in SettledStates
    BY <1>4, <2>1, <2>2
  <2>3. CASE ops'[o].pc \notin SettledStates
    <3>1. ops' = [ops EXCEPT ![o] = [op EXCEPT !.pc = "loaded", !.record = records[t]]]
      BY <1>0, <1>5, <1>7, <2>3 DEF LoadRecord, SettledStates
    <3>2. /\ ops'[o].record = records[t] /\ ops'[o].pc = "loaded"
          /\ ops'[o].task = t
      BY <1>0, <3>1 DEF OpRecord
    <3>3. records[t] # None => /\ Numbered(records[t]) /\ FromCalls(ops, records[t], t)
                               /\ FromCalls(ops', records[t], t)
      BY <1>0, <1>1, SMTT(30) DEF JournalInv, StoredInOrder
    <3>4. records[t] # None => \A i \in DOMAIN records[t].journal :
                                 records[t].journal[i].event.id # o
      BY <2>1, <3>3 DEF FromCalls
    <3>5. CarriedInOrder'
      BY <1>0, <1>2, <3>2, <3>3 DEF CarriedInOrder
    <3>6. LoadedWithoutOwn'
      BY <1>0, <1>2, <3>2, <3>4 DEF LoadedWithoutOwn
    <3> QED BY <1>3, <2>1, <3>5, <3>6 DEF JournalInv
  <2> QED BY <2>2, <2>3
<1>8. CASE SaveRecord(o)
  <2> DEFINE r == NextRecord(o)
  <2>1. Numbered(r) /\ FromCalls(ops', r, t)
    BY <1>1, <1>8, NextInOrder DEF SaveRecord
  <2>2. /\ ops'[o].record = r /\ ops'[o].task = t
        /\ ops'[o].pc \in {"saving", "saved"}
    BY <1>0, <1>8 DEF SaveRecord, OpRecord
  <2>3. StoredInOrder'
    <3>1. records' \in {records, [records EXCEPT ![t] = r]}
      BY <1>8 DEF SaveRecord, Store
    <3>2. CASE records' = [records EXCEPT ![t] = r]
      BY <1>0, <1>1, <2>1, <3>2 DEF JournalInv, StoredInOrder
    <3> QED BY <1>3, <3>1, <3>2
  <2>4. CarriedInOrder'
    BY <1>0, <1>2, <2>1, <2>2 DEF CarriedInOrder
  <2>5. LoadedWithoutOwn'
    BY <1>0, <1>2, <2>2 DEF LoadedWithoutOwn
  <2> QED BY <2>3, <2>4, <2>5 DEF JournalInv
<1>9. CASE RenameRecord(o)
  <2>1. op.record # None => /\ Numbered(op.record) /\ FromCalls(ops', op.record, t)
    BY <1>1, <1>9 DEF RenameRecord, JournalInv, CarriedInOrder, InFlight
  <2>2. /\ ops'[o].record = op.record /\ ops'[o].task = t
        /\ ops'[o].pc = "saved"
    BY <1>0, <1>9 DEF RenameRecord, OpRecord
  <2>3. records' = [records EXCEPT ![t] = op.record]
    BY <1>9 DEF RenameRecord, Store
  <2>4. StoredInOrder'
    BY <1>0, <1>1, <2>1, <2>3 DEF JournalInv, StoredInOrder
  <2>5. CarriedInOrder'
    BY <1>0, <1>2, <2>1, <2>2 DEF CarriedInOrder
  <2>6. LoadedWithoutOwn'
    BY <1>0, <1>2, <2>2 DEF LoadedWithoutOwn
  <2> QED BY <2>4, <2>5, <2>6 DEF JournalInv
<1> QED BY <1>6, <1>7, <1>8, <1>9 DEF Step

LEMMA JournalCall == TypeOK /\ JournalInv /\ Call => JournalInv'
<1> SUFFICES ASSUME TypeOK, JournalInv,
                    NEW kind \in Calls, NEW t \in Tasks, NEW arg \in ArgOf(kind),
                    Enqueue(kind, t, arg)
             PROVE  JournalInv'
  BY DEF Call
<1> DEFINE n == Len(ops) + 1
<1>1. /\ DOMAIN ops = 1..Len(ops) /\ DOMAIN ops' = 1..n /\ Len(ops) \in Nat
      /\ \A p \in DOMAIN ops : ops'[p] = ops[p]
      /\ ops'[n].pc = "queued"
  BY DEF Enqueue, TypeOK
<1>2. \A r, u : FromCalls(ops, r, u) => FromCalls(ops', r, u)
  BY <1>1, FromCallsStays
<1>3. records' = records
  BY DEF Enqueue
<1>4. ASSUME NEW p \in DOMAIN ops', InFlight(p)'
      PROVE  p \in DOMAIN ops /\ ops'[p] = ops[p] /\ InFlight(p)
  BY <1>1, <1>4 DEF InFlight
<1>5. CarriedInOrder'
  BY <1>2, <1>4 DEF CarriedInOrder, JournalInv
<1>6. LoadedWithoutOwn'
  BY <1>4 DEF LoadedWithoutOwn, JournalInv, InFlight
<1> QED BY <1>2, <1>3, <1>5, <1>6 DEF JournalInv, StoredInOrder

LEMMA JournalCrash == TypeOK /\ JournalInv /\ Crash => JournalInv'
<1> SUFFICES ASSUME TypeOK, JournalInv, Crash PROVE JournalInv'
  OBVIOUS
<1>1. /\ DOMAIN ops = 1..Len(ops) /\ Len(ops) \in Nat
      /\ \A p \in DOMAIN ops : ops[p] \in OpRecord
  BY DEF TypeOK
<1>2. ASSUME NEW p \in DOMAIN ops
      PROVE  /\ Ended(p, "lost").task = ops[p].task
             /\ Ended(p, "lost").pc = "lost"
  BY <1>1 DEF Ended, OpRecord
<1>3. /\ ops' = [p \in DOMAIN ops |-> IF Settled(p) THEN ops[p] ELSE Ended(p, "lost")]
      /\ records' = records
  BY DEF Crash
<1>4. /\ DOMAIN ops' = DOMAIN ops
      /\ \A p \in DOMAIN ops : ops'[p].task = ops[p].task /\ ops'[p].pc \in SettledStates
  BY <1>1, <1>2, <1>3 DEF Settled, SettledStates
<1>5. \A r, u : FromCalls(ops, r, u) => FromCalls(ops', r, u)
  BY <1>4, FromCallsStays DEF SettledStates
<1>6. \A p \in DOMAIN ops' : ops'[p].pc # "loaded" /\ ~InFlight(p)'
  BY <1>4 DEF InFlight, SettledStates
<1> QED BY <1>3, <1>5, <1>6 DEF JournalInv, StoredInOrder, CarriedInOrder, LoadedWithoutOwn

LEMMA JournalNext == TypeOK /\ QueueInv /\ JournalInv /\ [Next]_vars => JournalInv'
<1> SUFFICES ASSUME TypeOK, QueueInv, JournalInv, [Next]_vars PROVE JournalInv'
  BY SMTT(30)
<1>1. ASSUME ops' = ops, \/ records' = records
                         \/ records' = [t \in Tasks |-> None]
      PROVE  JournalInv'
  BY <1>1 DEF JournalInv, StoredInOrder, CarriedInOrder, LoadedWithoutOwn, FromCalls,
              InFlight
<1>2. CASE Call
  BY <1>2, JournalCall
<1>3. CASE \E o \in DOMAIN ops : Step(o)
  <2>1. PICK o \in DOMAIN ops : Step(o)
    BY <1>3
  <2>2. CASE Cleanup(o)
    BY <1>1, <2>2 DEF Cleanup
  <2> QED BY <2>1, <2>2, JournalStep
<1>4. CASE Crash
  BY <1>4, JournalCrash
<1>5. CASE UNCHANGED vars
  BY <1>1, <1>5, SMTT(30) DEF vars
<1>6. CASE \/ \E t \in Tasks, binding \in Bindings : PrimeBinding(t, binding)
           \/ \E t \in Tasks : DiscardPending(t)
           \/ \E s \in DOMAIN subs : NextEvent(s) \/ CloseSubscription(s)
           \/ Close
  BY <1>1, <1>6 DEF PrimeBinding, DiscardPending, NextEvent, CloseSubscription, Close
<1> QED BY <1>2, <1>3, <1>4, <1>5, <1>6 DEF Next

\* The stored journal of a task is numbered 1, 2, 3 ... and in the order of
\* the commitEvent calls, whatever was interleaved, failed or crashed: no
\* operation loses the update of another.
THEOREM JournalCorrect == Spec => []JournalInOrder
<1>1. JournalInv => JournalInOrder
  BY DEF JournalInv, StoredInOrder, Numbered, JournalInOrder
<1>2. Spec => []JournalInv
  BY InitJournal, JournalNext, TypeCorrect, QueueCorrect, PTL DEF Spec
<1> QED BY <1>1, <1>2, PTL
=============================================================================
