------------------------- MODULE TaskStoreTailProofs -------------------------
(***************************************************************************)
(* Theorems about the tails of TaskStore, for every value of its           *)
(* constants: they can be reached by the commits, and what they deliver is *)
(* the journal behind the snapshot they were opened with.                  *)
(***************************************************************************)
EXTENDS TaskStoreCommitProofs, FiniteSetTheorems

-----------------------------------------------------------------------------
(* Reachable tails.                                                        *)

Reachable(s) ==
  /\ subs[s].open => listeners[subs[s].task] = subs[s].set
  /\ subs[s].waiting => subs[s].open /\ subs[s].buffer = <<>>

LEMMA ShutFields ==
  ASSUME NEW sub \in Subscription
  PROVE  ~Shut(sub).open /\ ~Shut(sub).waiting
  BY DEF Shut, Subscription

LEMMA PushedFields ==
  ASSUME NEW sub \in Subscription, NEW event
  PROVE  /\ Pushed(sub, event).open = sub.open /\ Pushed(sub, event).task = sub.task
         /\ Pushed(sub, event).set = sub.set /\ Pushed(sub, event).base = sub.base
         /\ sub.waiting => /\ Pushed(sub, event).received = Append(sub.received, event)
                           /\ Pushed(sub, event).buffer = sub.buffer
         /\ ~sub.waiting => /\ Pushed(sub, event).received = sub.received
                            /\ Pushed(sub, event).buffer = Append(sub.buffer, event)
         /\ ~Pushed(sub, event).waiting
  BY DEF Pushed, Subscription

LEMMA AppendElement ==
  ASSUME NEW S, NEW s \in Seq(S), NEW x
  PROVE  /\ DOMAIN Append(s, x) = 1..(Len(s) + 1) /\ DOMAIN s = 1..Len(s)
         /\ Len(s) \in Nat /\ Len(Append(s, x)) = Len(s) + 1
         /\ Append(s, x)[Len(s) + 1] = x
         /\ \A i \in DOMAIN s : Append(s, x)[i] = s[i]
  OBVIOUS

LEMMA ReachOpens ==
  ASSUME TypeOK, TailsReachable, NEW t \in Tasks, NEW base, CreateSubscription(t, base)
  PROVE  TailsReachable'
<1>0. PICK n \in Nat : n = Len(subs) + 1
  BY DEF TypeOK
<1>1. /\ DOMAIN subs' = 1..n /\ DOMAIN subs = 1..Len(subs) /\ Len(subs) \in Nat
      /\ \A s \in DOMAIN subs : subs'[s] = subs[s]
      /\ listeners' = [listeners EXCEPT ![t] = subs'[n].set]
      /\ subs'[n].set = IF listeners[t] = 0 THEN n ELSE listeners[t]
      /\ subs'[n].task = t /\ ~subs'[n].waiting
  <2> DEFINE set == IF listeners[t] = 0 THEN n ELSE listeners[t]
             opened == [task |-> t, base |-> base, set |-> set, open |-> TRUE,
                        waiting |-> FALSE, buffer |-> <<>>, received |-> <<>>]
  <2>1. subs' = Append(subs, opened) /\ listeners' = [listeners EXCEPT ![t] = set]
    BY <1>0 DEF CreateSubscription
  <2>2. opened.set = set /\ opened.task = t /\ ~opened.waiting
    OBVIOUS
  <2> HIDE DEF opened, set
  <2>3. subs \in Seq(Subscription)
    BY DEF TypeOK
  <2>4. /\ DOMAIN subs' = 1..n /\ DOMAIN subs = 1..Len(subs) /\ Len(subs) \in Nat
        /\ \A s \in DOMAIN subs : subs'[s] = subs[s]
        /\ subs'[n] = opened
    BY <1>0, <2>1, <2>3, AppendElement
  <2> QED BY <2>1, <2>2, <2>4 DEF set
<1>2. ASSUME NEW s \in DOMAIN subs PROVE Reachable(s)'
  <2>1. /\ Reachable(s) /\ subs[s] \in Subscription
        /\ DOMAIN listeners = Tasks /\ subs'[s] = subs[s]
    BY <1>1 DEF TailsReachable, Reachable, TypeOK
  <2>0. subs[s].task \in Tasks /\ subs[s].set # 0
    BY <2>1 DEF Subscription
  <2>2. subs[s].open /\ subs[s].task = t => listeners'[t] = subs[s].set
    BY <1>1, <2>0, <2>1 DEF Reachable
  <2>3. subs[s].task # t => listeners'[subs[s].task] = listeners[subs[s].task]
    BY <1>1, <2>0, <2>1
  <2> QED BY <2>1, <2>2, <2>3 DEF Reachable
<1>3. Reachable(n)'
  <2>1. DOMAIN listeners = Tasks
    BY DEF TypeOK
  <2> QED BY <1>1, <2>1 DEF Reachable
<1>4. \A s \in DOMAIN subs' : s \in DOMAIN subs \/ s = n
  BY <1>0, <1>1
<1>5. \A s \in DOMAIN subs' : Reachable(s)'
  BY <1>2, <1>3, <1>4
<1> QED BY <1>5 DEF TailsReachable, Reachable

LEMMA ReachNext == TypeOK /\ TailsReachable /\ [Next]_vars => TailsReachable'
<1> SUFFICES ASSUME TypeOK, TailsReachable, [Next]_vars PROVE TailsReachable'
  OBVIOUS
<1>0. /\ \A s \in DOMAIN subs : /\ subs[s] \in Subscription /\ Reachable(s)
                               /\ subs[s].task \in Tasks
      /\ DOMAIN listeners = Tasks
  <2>1. subs \in Seq(Subscription) /\ DOMAIN listeners = Tasks
    BY DEF TypeOK
  <2>2. \A s \in DOMAIN subs : subs[s] \in Subscription
    BY <2>1
  <2>3. \A sub \in Subscription : sub.task \in Tasks
    BY DEF Subscription
  <2> QED BY <2>1, <2>2, <2>3 DEF TailsReachable, Reachable
<1>1. ASSUME UNCHANGED <<subs, listeners>> PROVE TailsReachable'
  BY <1>1 DEF TailsReachable
<1>2. ASSUME NEW o \in DOMAIN ops, Step(o) PROVE TailsReachable'
  <2>1. CASE Subscribe(o)
    <3>1. CASE Active(ops[o].record)
      <4>1. ops[o].task \in Tasks
        BY DEF TypeOK, OpRecord
      <4>2. CreateSubscription(ops[o].task, Len(ops[o].record.journal))
        BY <2>1, <3>1 DEF Subscribe
      <4> QED BY <4>1, <4>2, ReachOpens
    <3> QED BY <1>1, <2>1, <3>1 DEF Subscribe
  <2>2. CASE FinishCommit(o)
    <3>1. CASE ops[o].kind = "event"
      <4>1. /\ DOMAIN subs' = DOMAIN subs /\ listeners' = listeners
            /\ \A s \in DOMAIN subs :
                 \/ subs'[s] = subs[s] \/ subs'[s] = Pushed(subs[s], EventOf(o))
        BY <2>2, <3>1 DEF FinishCommit, NotifySubscribers
      <4> QED BY <1>0, <4>1, PushedFields DEF TailsReachable, Reachable
    <3> QED BY <1>1, <2>2, <3>1 DEF FinishCommit
  <2> QED BY <1>1, <1>2, <2>1, <2>2 DEF Step, LoadRecord, LoadFails, Return, SaveFails,
             HoldBinding, SaveRecord, RenameRecord, Cleanup
<1>3. ASSUME NEW s \in DOMAIN subs, NextEvent(s) PROVE TailsReachable'
  <2>1. /\ listeners' = listeners /\ DOMAIN subs' = DOMAIN subs
        /\ \A r \in DOMAIN subs : r # s => subs'[r] = subs[r]
        /\ subs'[s].open = subs[s].open /\ subs'[s].task = subs[s].task
        /\ subs'[s].set = subs[s].set
        /\ subs'[s].waiting => subs[s].open /\ subs'[s].buffer = <<>>
    BY <1>0, <1>3, ZenonT(30) DEF NextEvent, Subscription
  <2> QED BY <1>0, <2>1 DEF TailsReachable, Reachable
<1>4. ASSUME NEW s \in DOMAIN subs, CloseSubscription(s) PROVE TailsReachable'
  <2> DEFINE left == {r \in DOMAIN subs \ {s} : subs[r].open /\ subs[r].set = subs[s].set}
  <2>1. /\ DOMAIN subs' = DOMAIN subs /\ subs'[s] = Shut(subs[s]) /\ subs[s].open
        /\ \A r \in DOMAIN subs : r # s => subs'[r] = subs[r]
        /\ listeners' = [listeners EXCEPT ![subs[s].task] = IF left = {} THEN 0 ELSE @]
    BY <1>4 DEF CloseSubscription
  <2>2. ASSUME NEW r \in DOMAIN subs, r # s, subs[r].open
        PROVE  listeners'[subs[r].task] = subs[r].set
    <3>1. listeners[subs[r].task] = subs[r].set /\ subs[r].task \in Tasks
      BY <1>0, <2>2 DEF Reachable
    <3>2. CASE subs[r].task = subs[s].task
      <4>1. r \in left
        BY <1>0, <2>1, <2>2, <3>1, <3>2 DEF Reachable
      <4> QED BY <1>0, <2>1, <3>1, <3>2, <4>1
    <3>3. CASE subs[r].task # subs[s].task
      BY <1>0, <2>1, <3>1, <3>3
    <3> QED BY <3>2, <3>3
  <2>3. ~subs'[s].open /\ ~subs'[s].waiting
    BY <1>0, <2>1, ShutFields
  <2> QED BY <1>0, <2>1, <2>2, <2>3 DEF TailsReachable, Reachable
<1>5. CASE Close \/ Crash
  <2>1. subs' = [s \in DOMAIN subs |-> Shut(subs[s])]
    BY <1>5 DEF Close, Crash
  <2> QED BY <1>0, <2>1, ShutFields DEF TailsReachable
<1>6. CASE \/ Call
           \/ \E t \in Tasks, binding \in Bindings : PrimeBinding(t, binding)
           \/ \E t \in Tasks : DiscardPending(t)
           \/ UNCHANGED vars
  <2>1. UNCHANGED <<subs, listeners>>
    BY <1>6 DEF Call, Enqueue, PrimeBinding, DiscardPending, vars
  <2> QED BY <1>1, <2>1
<1> QED BY <1>2, <1>3, <1>4, <1>5, <1>6 DEF Next

\* An open tail is in the listener set commits notify, whatever other tails of
\* the task opened and closed, and no consumer waits on a tail that is closed
\* or that holds an event for it.
THEOREM ReachableCorrect == Spec => []TailsReachable
<1>1. Init => TailsReachable
  BY DEF Init, TailsReachable
<1> QED BY <1>1, ReachNext, TypeCorrect, PTL DEF Spec

-----------------------------------------------------------------------------
(* Faithful tails.                                                         *)

LEMMA ConcatAppend ==
  ASSUME NEW S, NEW r \in Seq(S), NEW b \in Seq(S), NEW e \in S
  PROVE  r \o Append(b, e) = Append(r \o b, e)
  OBVIOUS

LEMMA AppendConcat ==
  ASSUME NEW S, NEW r \in Seq(S), NEW e \in S
  PROVE  Append(r, e) \o <<>> = Append(r \o <<>>, e)
  OBVIOUS

LEMMA HeadConcat ==
  ASSUME NEW S, NEW r \in Seq(S), NEW b \in Seq(S), b # <<>>
  PROVE  Append(r, Head(b)) \o Tail(b) = r \o b
  OBVIOUS

LEMMA ConcatType ==
  ASSUME NEW S, NEW r \in Seq(S), NEW b \in Seq(S)
  PROVE  r \o b \in Seq(S)
  OBVIOUS

SavedEvents(t) ==
  {o \in DOMAIN ops : ops[o].task = t /\ ops[o].kind = "event" /\ ops[o].pc = "saved"}

\* Notified, without a cardinality.
Told(t) == Len(JournalOf(records[t])) - (IF SavedEvents(t) = {} THEN 0 ELSE 1)

LEMMA ToldMeans ==
  ASSUME TypeOK, QueueInv, CommitInv, ~Forgotten, NEW t \in Tasks
  PROVE  Told(t) = Notified(t)
<1>1. JournalOf(records[t]) \in Seq(JournalEntry)
  BY DEF TypeOK, JournalOf, StoredTaskRecord
<1>2. CASE SavedEvents(t) = {}
  <2>1. Cardinality(SavedEvents(t)) = 0
    BY <1>2, FS_EmptySet
  <2>2. Len(JournalOf(records[t])) \in Nat /\ Len(<<>>) = 0
    BY <1>1
  <2>3. Notified(t) = IF records[t] = None THEN 0
                      ELSE Len(records[t].journal) - Cardinality(SavedEvents(t))
    BY DEF Notified, SavedEvents
  <2> QED BY <1>2, <2>1, <2>2, <2>3 DEF Told, JournalOf
<1>3. CASE SavedEvents(t) # {}
  <2>1. PICK o \in SavedEvents(t) : TRUE
    BY <1>3
  <2>2. records[t] # None
    BY <2>1 DEF SavedEvents, CommitInv, WorksOnStored
  <2>3. SavedEvents(t) = {o}
    BY <2>1, AloneInFlight DEF SavedEvents, InFlight, SameTask
  <2>4. Cardinality(SavedEvents(t)) = 1
    BY <2>3, FS_Singleton
  <2>5. Notified(t) = Len(records[t].journal) - Cardinality(SavedEvents(t))
    BY <2>2 DEF Notified, SavedEvents
  <2> QED BY <1>3, <2>2, <2>4, <2>5 DEF Told, JournalOf
<1> QED BY <1>2, <1>3

Delivered(s) == subs[s].received \o subs[s].buffer

Faithful(s) ==
  LET t == subs[s].task
      base == subs[s].base
  IN  /\ base + Len(Delivered(s)) = Told(t)
      /\ \A i \in 1..Len(Delivered(s)) :
           Delivered(s)[i] = JournalOf(records[t])[base + i].event

FaithInv == ~Forgotten => \A s \in DOMAIN subs : subs[s].open => Faithful(s)

LEMMA DeliveredType ==
  ASSUME TypeOK, NEW s \in DOMAIN subs
  PROVE  /\ Delivered(s) \in Seq(JournalEvent) /\ subs[s].base \in Nat
         /\ subs[s].task \in Tasks /\ subs[s] \in Subscription
         /\ subs[s].received \in Seq(JournalEvent) /\ subs[s].buffer \in Seq(JournalEvent)
<1>1. subs[s] \in Subscription
  BY DEF TypeOK
<1>2. /\ subs[s].base \in Nat /\ subs[s].task \in Tasks
      /\ subs[s].received \in Seq(JournalEvent) /\ subs[s].buffer \in Seq(JournalEvent)
  BY <1>1 DEF Subscription
<1> QED BY <1>1, <1>2, ConcatType DEF Delivered

LEMMA FaithMeans ==
  ASSUME TypeOK, QueueInv, CommitInv, FaithInv
  PROVE  TailsFaithful
<1> SUFFICES ASSUME ~Forgotten, NEW s \in DOMAIN subs, subs[s].open
             PROVE  Delivered(s) =
                      [i \in 1..(Notified(subs[s].task) - subs[s].base) |->
                         records[subs[s].task].journal[subs[s].base + i].event]
  BY DEF TailsFaithful, Delivered
<1> DEFINE t == subs[s].task
           d == Delivered(s)
           base == subs[s].base
<1>1. d \in Seq(JournalEvent) /\ base \in Nat /\ t \in Tasks
  BY DeliveredType
<1>2. Faithful(s) /\ Told(t) = Notified(t)
  BY <1>1, ToldMeans DEF FaithInv
<1>3. /\ Notified(t) - base = Len(d)
      /\ \A i \in 1..Len(d) : d[i] = JournalOf(records[t])[base + i].event
  BY <1>1, <1>2 DEF Faithful
<1>4. CASE records[t] = None
  <2>1. Notified(t) = 0
    BY <1>4 DEF Notified
  <2>2. Len(d) = 0
    BY <1>1, <1>3, <2>1
  <2> HIDE DEF d, t, base
  <2> QED BY <1>1, <1>3, <2>2 DEF d, t, base
<1>5. CASE records[t] # None
  <2>1. \A i \in 1..Len(d) : d[i] = records[t].journal[base + i].event
    BY <1>3, <1>5 DEF JournalOf
  <2>2. d = [i \in 1..Len(d) |-> d[i]]
    BY <1>1
  <2> HIDE DEF d, t, base
  <2>3. d = [i \in 1..Len(d) |-> records[t].journal[base + i].event]
    BY <2>1, <2>2
  <2> QED BY <1>3, <2>3 DEF d, t, base
<1> QED BY <1>4, <1>5

\* The journal of a task may grow, but not by what its listeners know of.
ToldKept(t) ==
  /\ Told(t)' = Told(t)
  /\ Len(JournalOf(records[t])) \in Nat
  /\ \A i \in 1..Len(JournalOf(records[t])) :
       JournalOf(records[t])'[i] = JournalOf(records[t])[i]

LEMMA FaithStays ==
  ASSUME TypeOK, NEW s \in DOMAIN subs, Faithful(s), ToldKept(subs[s].task),
         subs'[s].task = subs[s].task, subs'[s].base = subs[s].base,
         Delivered(s)' = Delivered(s)
  PROVE  Faithful(s)'
<1> DEFINE t == subs[s].task
           d == Delivered(s)
           base == subs[s].base
<1>1. d \in Seq(JournalEvent) /\ base \in Nat /\ t \in Tasks
  BY DeliveredType
<1>2. /\ base + Len(d) = Told(t)
      /\ \A i \in 1..Len(d) : d[i] = JournalOf(records[t])[base + i].event
  BY DEF Faithful
<1>3. Told(t) <= Len(JournalOf(records[t])) /\ Len(JournalOf(records[t])) \in Nat
  BY DEF Told, ToldKept
<1>4. \A i \in 1..Len(d) : base + i \in 1..Len(JournalOf(records[t]))
  <2> HIDE DEF d, base, t
  <2> QED BY <1>1, <1>2, <1>3
<1>5. \A i \in 1..Len(d) : d[i] = JournalOf(records[t])'[base + i].event
  BY <1>2, <1>4 DEF ToldKept
<1>6. JournalOf(records[t])' = JournalOf(records'[t])
  BY DEF JournalOf
<1> QED BY <1>2, <1>5 DEF Faithful, ToldKept

LEMMA JournalType ==
  ASSUME TypeOK, NEW t \in Tasks
  PROVE  /\ JournalOf(records[t]) \in Seq(JournalEntry)
         /\ Len(JournalOf(records[t])) \in Nat
<1>1. JournalOf(records[t]) \in Seq(JournalEntry)
  BY DEF TypeOK, JournalOf, StoredTaskRecord
<1> QED BY <1>1

\* A step that writes no record and ends no commit.
LEMMA ToldQuiet ==
  ASSUME TypeOK, NEW t \in Tasks, records'[t] = records[t], SavedEvents(t)' = SavedEvents(t)
  PROVE  ToldKept(t)
<1>1. JournalOf(records[t])' = JournalOf(records[t])
  BY DEF JournalOf
<1> QED BY <1>1, JournalType DEF ToldKept, Told

LEMMA ToldStep ==
  ASSUME TypeOK, QueueInv, CommitInv, ~Forgotten,
         NEW o \in DOMAIN ops, Step(o), ~Cleanup(o),
         ~(Finishes(o) /\ ops[o].kind = "event"), NEW t \in Tasks
  PROVE  ToldKept(t)
<1>0. /\ DOMAIN ops' = DOMAIN ops
      /\ \A p \in DOMAIN ops : SameCall(p) /\ (p # o => ops'[p] = ops[p])
      /\ ops[o].task \in Tasks /\ DOMAIN records = Tasks
  BY StepForms, SMTT(30) DEF TypeOK, OpRecord
<1>1. CASE ops[o].task # t
  <2>1. SavedEvents(t)' = SavedEvents(t)
    BY <1>0, <1>1 DEF SavedEvents, SameCall
  <2>2. records'[t] = records[t]
    BY <1>0, <1>1, StepWrites
  <2> QED BY <2>1, <2>2, ToldQuiet
<1>2. CASE records' = records /\ (ops'[o].pc = "saved" => ops[o].pc = "saved")
  <2>1. ops[o].kind = "event" => ops[o].pc # "saved" \/ ops'[o].pc = "saved"
    BY StepForms DEF Loads, Stops, Holds, HoldBinding, Subscribes, Subscribe, Saves,
                     SaveRecord, Renames
  <2>2. SavedEvents(t)' = SavedEvents(t)
    BY <1>0, <1>2, <2>1 DEF SavedEvents, SameCall
  <2> QED BY <1>2, <2>2, ToldQuiet
<1>3. ASSUME ops[o].task = t, NEW new, records' = [records EXCEPT ![t] = new],
             Follows(o, records[t], new), InFlight(o), ops[o].pc # "saved",
             ops'[o].pc = "saved"
      PROVE  ToldKept(t)
  <2> DEFINE old == JournalOf(records[t])
  <2>1. JournalOf(records[t])' = new.journal /\ old \in Seq(JournalEntry) /\ Len(old) \in Nat
    BY <1>0, <1>3, JournalType DEF JournalOf, Follows
  <2>2. CASE ops[o].kind # "event"
    <3>1. new.journal = old
      BY <1>3, <2>2 DEF Follows
    <3>2. SavedEvents(t)' = SavedEvents(t)
      BY <1>0, <2>2 DEF SavedEvents, SameCall
    <3> QED BY <2>1, <3>1, <3>2 DEF ToldKept, Told
  <2>3. CASE ops[o].kind = "event"
    <3>1. new.journal = Append(old, EntryOf(o, records[t]))
      BY <1>3, <2>3 DEF Follows
    <3>2. /\ Len(new.journal) = Len(old) + 1
          /\ \A i \in 1..Len(old) : new.journal[i] = old[i]
      <4> HIDE DEF old
      <4> QED BY <2>1, <3>1, AppendElement
    <3>3. SavedEvents(t) = {}
      BY <1>3, AloneInFlight DEF SavedEvents, InFlight, SameTask
    <3>4. o \in SavedEvents(t)'
      BY <1>0, <1>3, <2>3 DEF SavedEvents, SameCall
    <3>5. Told(t)' = Len(new.journal) - 1 /\ Told(t) = Len(old) - 0
      BY <2>1, <3>3, <3>4 DEF Told
    <3> HIDE DEF old
    <3>6. Told(t)' = Told(t)
      BY <2>1, <3>2, <3>5
    <3> QED BY <2>1, <3>2, <3>6 DEF ToldKept, old
  <2> QED BY <2>2, <2>3
<1> QED BY <1>1, <1>2, <1>3, StepWrites

\* The commit of an event ends: the listeners are told of the last event of
\* the journal, which is the one they did not know of.
LEMMA ToldFinish ==
  ASSUME TypeOK, QueueInv, CommitInv, ~Forgotten,
         NEW o \in DOMAIN ops, Step(o), ~Cleanup(o),
         Finishes(o), ops[o].kind = "event", NEW t \in Tasks
  PROVE  /\ ops[o].task # t => ToldKept(t)
         /\ ops[o].task = t =>
              LET journal == JournalOf(records[t]) IN
              /\ Told(t)' = Told(t) + 1 /\ Told(t) + 1 = Len(journal)
              /\ JournalOf(records[t])' = journal /\ Told(t) \in Nat
              /\ journal[Len(journal)].event = EventOf(o)
<1>0. /\ DOMAIN ops' = DOMAIN ops
      /\ \A p \in DOMAIN ops : SameCall(p) /\ (p # o => ops'[p] = ops[p])
      /\ ops[o].pc = "saved" /\ ops'[o].pc = "done" /\ records' = records
      /\ InFlight(o)
  BY StepForms DEF Finishes, FinishCommit, InFlight
<1>1. CASE ops[o].task # t
  <2>1. SavedEvents(t)' = SavedEvents(t)
    BY <1>0, <1>1 DEF SavedEvents, SameCall
  <2> QED BY <1>0, <1>1, <2>1, ToldQuiet
<1>2. CASE ops[o].task = t
  <2> DEFINE journal == JournalOf(records[t])
  <2>1. /\ records[t] # None /\ journal # <<>>
        /\ journal[Len(journal)].event = EventOf(o)
    BY <1>0, <1>2 DEF CommitInv, WorksOnStored, JournalOf
  <2>2. o \in SavedEvents(t)
    BY <1>0, <1>2 DEF SavedEvents
  <2>3. \A p \in DOMAIN ops : p # o /\ ops[p].task = t => ops[p].pc # "saved"
    BY <1>0, <1>2, AloneInFlight DEF InFlight, SameTask
  <2>4. SavedEvents(t)' = {}
    BY <1>0, <2>3 DEF SavedEvents, SameCall
  <2>5. JournalOf(records[t])' = journal
    BY <1>0 DEF JournalOf
  <2>6. Told(t)' = Len(journal) - 0 /\ Told(t) = Len(journal) - 1
    BY <2>2, <2>4, <2>5 DEF Told
  <2>7. Len(journal) \in Nat \ {0}
    <3>1. journal \in Seq(JournalEntry)
      BY JournalType
    <3> HIDE DEF journal
    <3> QED BY <2>1, <3>1
  <2> HIDE DEF journal
  <2> QED BY <1>2, <2>1, <2>5, <2>6, <2>7 DEF journal
<1> QED BY <1>1, <1>2

\* A listener is told of the event.
LEMMA FaithPushed ==
  ASSUME TypeOK, NEW s \in DOMAIN subs, Faithful(s), NEW event \in JournalEvent,
         subs[s].waiting => subs[s].buffer = <<>>,
         subs'[s] = Pushed(subs[s], event), NEW t, t = subs[s].task,
         NEW journal, JournalOf(records[t]) = journal, JournalOf(records[t])' = journal,
         Told(t)' = Told(t) + 1, Told(t) + 1 = Len(journal), Told(t) \in Nat,
         journal[Len(journal)].event = event
  PROVE  Faithful(s)'
<1> DEFINE d == Delivered(s)
           base == subs[s].base
<1>1. /\ d \in Seq(JournalEvent) /\ base \in Nat /\ subs[s] \in Subscription
      /\ subs[s].received \in Seq(JournalEvent) /\ subs[s].buffer \in Seq(JournalEvent)
  BY DeliveredType
<1>2. /\ base + Len(d) = Told(t)
      /\ \A i \in 1..Len(d) : d[i] = journal[base + i].event
  BY DEF Faithful
<1>3. Delivered(s)' = Append(d, event)
  <2>1. CASE subs[s].waiting
    <3>1. /\ subs'[s].received = Append(subs[s].received, event)
          /\ subs'[s].buffer = <<>> /\ subs[s].buffer = <<>>
      BY <1>1, <2>1, PushedFields, SMTT(30)
    <3> QED BY <1>1, <3>1, AppendConcat DEF Delivered
  <2>2. CASE ~subs[s].waiting
    <3>1. /\ subs'[s].received = subs[s].received
          /\ subs'[s].buffer = Append(subs[s].buffer, event)
      BY <1>1, <2>2, PushedFields
    <3>2. subs[s].received \o Append(subs[s].buffer, event)
            = Append(subs[s].received \o subs[s].buffer, event)
      <4>1. \A r, b \in Seq(JournalEvent), e \in JournalEvent :
              r \o Append(b, e) = Append(r \o b, e)
        BY ConcatAppend
      <4> QED BY <1>1, <4>1, Zenon
    <3> QED BY <3>1, <3>2, Zenon DEF Delivered
  <2> QED BY <2>1, <2>2
<1>4. subs'[s].task = t /\ subs'[s].base = base
  BY <1>1, PushedFields
<1> HIDE DEF d, base
<1>5. /\ Len(Append(d, event)) = Len(d) + 1 /\ Len(d) \in Nat
      /\ Append(d, event)[Len(d) + 1] = event
      /\ \A i \in 1..Len(d) : Append(d, event)[i] = d[i]
  BY <1>1, AppendElement
<1>6. \A i \in 1..(Len(d) + 1) : Append(d, event)[i] = journal[base + i].event
  <2>1. base + (Len(d) + 1) = Len(journal)
    BY <1>1, <1>2, <1>5
  <2> QED BY <1>2, <1>5, <2>1
<1>7. base + (Len(d) + 1) = Told(t) + 1
  BY <1>1, <1>2, <1>5
<1> QED BY <1>3, <1>4, <1>5, <1>6, <1>7 DEF Faithful

\* A tail that opens has nothing delivered and nothing to catch up with.
LEMMA FaithOpens ==
  ASSUME TypeOK, QueueInv, CommitInv, FaithInv, ~Forgotten,
         NEW o \in DOMAIN ops, Step(o), Subscribes(o), Active(ops[o].record)
  PROVE  FaithInv'
<1> DEFINE t == ops[o].task
           journal == JournalOf(records[t])
<1>0. PICK n \in Nat : n = Len(subs) + 1
  BY DEF TypeOK
<1>1. ~Cleanup(o) /\ InFlight(o) /\ ops[o].pc = "loaded" /\ t \in Tasks
  BY DEF Subscribes, Subscribe, Cleanup, InFlight, TypeOK, OpRecord
<1>2. /\ ops'[o].task = t /\ DOMAIN ops' = DOMAIN ops /\ closed' = closed
      /\ records' = records
  BY <1>1, StepForms DEF SameCall, Subscribes, Subscribe
<1>3. \A u \in Tasks : ToldKept(u)
  BY <1>1, ToldStep DEF Finishes, FinishCommit
<1>4. Len(ops[o].record.journal) = Len(journal) /\ Len(journal) \in Nat
  <2>1. ops[o].record = records[t] /\ records[t] # None
    BY <1>1 DEF CommitInv, WorksOnStored, Active
  <2> QED BY <1>1, <2>1, JournalType DEF JournalOf
<1>5. Told(t) = Len(journal)
  <2>1. SavedEvents(t) = {}
    BY <1>1, AloneInFlight DEF SavedEvents, InFlight, SameTask
  <2> QED BY <1>4, <2>1 DEF Told
<1>6. /\ DOMAIN subs' = 1..n /\ DOMAIN subs = 1..Len(subs) /\ Len(subs) \in Nat
      /\ \A s \in DOMAIN subs : subs'[s] = subs[s]
      /\ subs'[n].task = t /\ subs'[n].base = Len(journal)
      /\ subs'[n].received = <<>> /\ subs'[n].buffer = <<>>
  <2> DEFINE set == IF listeners[t] = 0 THEN n ELSE listeners[t]
             new == [task |-> t, base |-> Len(ops[o].record.journal), set |-> set,
                     open |-> TRUE, waiting |-> FALSE, buffer |-> <<>>, received |-> <<>>]
  <2>1. subs' = Append(subs, new)
    BY <1>0 DEF Subscribes, Subscribe, CreateSubscription
  <2>2. /\ new.task = t /\ new.base = Len(journal)
        /\ new.received = <<>> /\ new.buffer = <<>>
    BY <1>4
  <2> HIDE DEF new
  <2>3. subs \in Seq(Subscription)
    BY DEF TypeOK
  <2>4. /\ DOMAIN subs' = 1..n /\ DOMAIN subs = 1..Len(subs) /\ Len(subs) \in Nat
        /\ \A s \in DOMAIN subs : subs'[s] = subs[s]
        /\ subs'[n] = new
    BY <1>0, <2>1, <2>3, AppendElement
  <2> QED BY <2>2, <2>4
<1>7. ASSUME NEW s \in DOMAIN subs, subs'[s].open PROVE Faithful(s)'
  <2>1. Faithful(s) /\ subs[s].task \in Tasks /\ subs'[s] = subs[s]
    BY <1>6, <1>7, DeliveredType DEF FaithInv
  <2> QED BY <1>3, <2>1, FaithStays DEF Delivered
<1>8. Faithful(n)'
  <2>1. Delivered(n)' = <<>> \o <<>> /\ Len(<<>> \o <<>>) = 0
    BY <1>6 DEF Delivered
  <2>2. PICK u \in Tasks : u = t
    BY <1>1
  <2>3. Told(u)' = Told(u) /\ Told(u) = Len(journal)
    BY <1>3, <1>5, <2>2 DEF ToldKept
  <2>4. subs'[n].task = u /\ subs'[n].base + 0 = Told(u)'
    BY <1>4, <1>6, <2>2, <2>3
  <2> QED BY <2>1, <2>4 DEF Faithful
<1>9. \A s \in DOMAIN subs' : s \in DOMAIN subs \/ s = n
  BY <1>0, <1>6
<1> QED BY <1>7, <1>8, <1>9 DEF FaithInv

LEMMA FaithStep ==
  ASSUME TypeOK, QueueInv, CommitInv, TailsReachable, FaithInv, ~Forgotten,
         NEW o \in DOMAIN ops, Step(o), ~Cleanup(o)
  PROVE  FaithInv'
<1>1. CASE Subscribes(o) /\ Active(ops[o].record)
  BY <1>1, FaithOpens
<1>2. CASE Finishes(o) /\ ops[o].kind = "event"
  <2>1. /\ DOMAIN subs' = DOMAIN subs /\ listeners' = listeners
        /\ \A s \in DOMAIN subs :
             subs'[s] = IF Listening(s, ops[o].task)
                          THEN Pushed(subs[s], EventOf(o)) ELSE subs[s]
    BY <1>2 DEF Finishes, FinishCommit, NotifySubscribers
  <2>2. ASSUME NEW s \in DOMAIN subs, subs'[s].open PROVE Faithful(s)'
    <3>0. subs[s] \in Subscription /\ subs[s].task \in Tasks
      BY DeliveredType
    <3>1. subs[s].open /\ Faithful(s)
      <4>1. Pushed(subs[s], EventOf(o)).open = subs[s].open
        BY <3>0, PushedFields
      <4> QED BY <2>1, <2>2, <4>1 DEF FaithInv
    <3>2. CASE subs[s].task # ops[o].task
      <4>1. subs'[s] = subs[s] /\ ToldKept(subs[s].task)
        BY <1>2, <2>1, <3>0, <3>2, ToldFinish DEF Listening
      <4> QED BY <3>1, <4>1, FaithStays DEF Delivered
    <3>3. CASE subs[s].task = ops[o].task
      <4> DEFINE t == ops[o].task
      <4>1. subs'[s] = Pushed(subs[s], EventOf(o)) /\ (subs[s].waiting => subs[s].buffer = <<>>)
        BY <2>1, <3>1, <3>3 DEF Listening, TailsReachable
      <4>2. EventOf(o) \in JournalEvent
        BY <1>2, EventType
      <4>3. PICK u \in Tasks : u = t
        BY <3>0, <3>3
      <4>4. PICK journal : journal = JournalOf(records[u])
        OBVIOUS
      <4>5. /\ Told(u)' = Told(u) + 1 /\ Told(u) + 1 = Len(journal)
            /\ JournalOf(records[u])' = journal /\ Told(u) \in Nat
            /\ journal[Len(journal)].event = EventOf(o)
        BY <1>2, <4>3, <4>4, ToldFinish
      <4>6. u = subs[s].task
        BY <3>3, <4>3
      <4>7. PICK event \in JournalEvent : event = EventOf(o)
        BY <4>2
      <4> QED BY <3>1, <4>1, <4>4, <4>5, <4>6, <4>7, FaithPushed
    <3> QED BY <3>2, <3>3
  <2> QED BY <2>1, <2>2 DEF FaithInv
<1>3. CASE ~(Subscribes(o) /\ Active(ops[o].record)) /\ ~(Finishes(o) /\ ops[o].kind = "event")
  <2>1. subs' = subs
    BY <1>3, StepForms DEF Loads, Stops, Holds, HoldBinding, Subscribes, Subscribe,
       Saves, SaveRecord, Renames, RenameRecord, Finishes, FinishCommit
  <2>2. \A t \in Tasks : ToldKept(t)
    BY <1>3, ToldStep
  <2>3. ASSUME NEW s \in DOMAIN subs, subs[s].open PROVE Faithful(s)'
    BY <2>1, <2>2, <2>3, DeliveredType, FaithStays DEF FaithInv, Delivered
  <2> QED BY <2>1, <2>3, SMTT(30) DEF FaithInv
<1> QED BY <1>1, <1>2, <1>3

LEMMA FaithNext ==
  TypeOK /\ QueueInv /\ CommitInv /\ TailsReachable /\ FaithInv /\ [Next]_vars => FaithInv'
<1> SUFFICES ASSUME TypeOK, QueueInv, CommitInv, TailsReachable, FaithInv, [Next]_vars,
                    ~Forgotten'
             PROVE  FaithInv'
  BY DEF FaithInv
<1>0. \A t \in Tasks : Told(t)' = Told(t) /\ records' = records => ToldKept(t)
  BY JournalType DEF ToldKept, JournalOf
<1>1. ASSUME ~Forgotten, records' = records, \A t \in Tasks : SavedEvents(t)' = SavedEvents(t),
             DOMAIN subs' = DOMAIN subs,
             \A s \in DOMAIN subs :
               subs'[s].open => /\ subs[s].open /\ subs'[s].task = subs[s].task
                                /\ subs'[s].base = subs[s].base
                                /\ Delivered(s)' = Delivered(s)
      PROVE  FaithInv'
  <2>1. \A t \in Tasks : ToldKept(t)
    BY <1>1, ToldQuiet
  <2>2. ASSUME NEW s \in DOMAIN subs, subs'[s].open PROVE Faithful(s)'
    BY <1>1, <2>1, <2>2, DeliveredType, FaithStays DEF FaithInv
  <2> QED BY <1>1, <2>2 DEF FaithInv
<1>2. CASE Call
  <2>1. /\ UNCHANGED <<records, subs, closed>> /\ DOMAIN ops \subseteq DOMAIN ops'
        /\ \A p \in DOMAIN ops : ops'[p] = ops[p]
        /\ \A p \in DOMAIN ops' \ DOMAIN ops : ops'[p].pc = "queued"
    BY <1>2 DEF Call, Enqueue, TypeOK
  <2>2. \A t \in Tasks : SavedEvents(t)' = SavedEvents(t)
    BY <2>1 DEF SavedEvents
  <2> QED BY <1>1, <2>1, <2>2 DEF Delivered, Forgotten
<1>3. CASE \E o \in DOMAIN ops : Step(o)
  <2>1. PICK o \in DOMAIN ops : Step(o)
    BY <1>3
  <2>2. CASE Cleanup(o)
    BY <1>1, <2>2 DEF Cleanup, Forgotten, SavedEvents, Delivered
  <2>3. CASE ~Cleanup(o)
    <3>1. ~Forgotten
      BY <2>1, <2>3, StepForms DEF Forgotten
    <3> QED BY <2>1, <2>3, <3>1, FaithStep
  <2> QED BY <2>2, <2>3
<1>4. CASE Close \/ Crash
  <2>1. subs' = [s \in DOMAIN subs |-> Shut(subs[s])]
    BY <1>4 DEF Close, Crash
  <2>2. \A s \in DOMAIN subs' : ~subs'[s].open
    BY <2>1, DeliveredType, ShutFields
  <2> QED BY <2>2 DEF FaithInv
<1>5. ASSUME NEW s \in DOMAIN subs, NextEvent(s) PROVE FaithInv'
  <2>0. /\ subs[s] \in Subscription /\ subs[s].received \in Seq(JournalEvent)
        /\ subs[s].buffer \in Seq(JournalEvent)
    BY DeliveredType
  <2>1. /\ UNCHANGED <<ops, records, closed>> /\ DOMAIN subs' = DOMAIN subs
        /\ \A r \in DOMAIN subs : r # s => subs'[r] = subs[r]
        /\ subs'[s].open = subs[s].open /\ subs'[s].task = subs[s].task
        /\ subs'[s].base = subs[s].base
    BY <1>5, <2>0 DEF NextEvent, Subscription
  <2>2. Delivered(s)' = Delivered(s)
    <3>1. CASE subs[s].buffer # <<>>
      <4>1. /\ subs'[s].received = Append(subs[s].received, Head(subs[s].buffer))
            /\ subs'[s].buffer = Tail(subs[s].buffer)
        BY <1>5, <2>0, <3>1, ZenonT(30) DEF NextEvent, Subscription
      <4>2. Append(subs[s].received, Head(subs[s].buffer)) \o Tail(subs[s].buffer)
              = subs[s].received \o subs[s].buffer
        BY <2>0, <3>1, HeadConcat, Zenon
      <4> QED BY <4>1, <4>2, Zenon DEF Delivered
    <3>2. CASE subs[s].buffer = <<>>
      <4>1. subs'[s].received = subs[s].received /\ subs'[s].buffer = subs[s].buffer
        BY <1>5, <2>0, <3>2 DEF NextEvent, Subscription
      <4> QED BY <4>1, Zenon DEF Delivered
    <3> QED BY <3>1, <3>2
  <2>3. \A r \in DOMAIN subs : r # s => Delivered(r)' = Delivered(r)
    BY <2>1 DEF Delivered
  <2> QED BY <1>1, <2>1, <2>2, <2>3 DEF Forgotten, SavedEvents
<1>6. ASSUME NEW s \in DOMAIN subs, CloseSubscription(s) PROVE FaithInv'
  <2>1. /\ UNCHANGED <<ops, records, closed>> /\ DOMAIN subs' = DOMAIN subs
        /\ \A r \in DOMAIN subs : r # s => subs'[r] = subs[r]
        /\ subs'[s] = Shut(subs[s])
    BY <1>6 DEF CloseSubscription
  <2>2. ~subs'[s].open
    BY <2>1, DeliveredType, ShutFields
  <2> QED BY <1>1, <2>1, <2>2 DEF Forgotten, SavedEvents, Delivered
<1>7. CASE \/ \E t \in Tasks, binding \in Bindings : PrimeBinding(t, binding)
           \/ \E t \in Tasks : DiscardPending(t)
           \/ UNCHANGED vars
  <2>1. UNCHANGED <<ops, records, subs, closed>>
    BY <1>7 DEF PrimeBinding, DiscardPending, vars
  <2> QED BY <1>1, <2>1 DEF Forgotten, SavedEvents, Delivered
<1> QED BY <1>2, <1>3, <1>4, <1>5, <1>6, <1>7 DEF Next

\* What an open tail has delivered and still holds is the journal from its
\* snapshot on: nothing is lost, repeated or out of order between the snapshot,
\* the buffer and the live events, whatever else happens to the task.
THEOREM FaithfulCorrect == Spec => []TailsFaithful
<1>1. Init => FaithInv
  BY DEF Init, FaithInv
<1>2. Spec => []TailsReachable
  BY ReachableCorrect
<1>3. TypeOK /\ QueueInv /\ CommitInv /\ FaithInv => TailsFaithful
  BY FaithMeans
<1> QED BY <1>1, <1>2, <1>3, FaithNext, TypeCorrect, QueueCorrect, CommitCorrect, PTL DEF Spec
=============================================================================
