---------------------------- MODULE CommittedLog ----------------------------
(***************************************************************************)
(* What the inbound runtime store promises the rest of the server: every   *)
(* task has one committed snapshot and one log of committed events, each   *)
(* operation takes effect on it in a single step, the log only grows, and  *)
(* a tail reads the log from where it was opened, without gap, repetition  *)
(* or reordering.                                                          *)
(***************************************************************************)
EXTENDS TaskRecord

CONSTANTS
  Tasks,      \* task identifiers
  Snapshots,  \* the task snapshots an execution may publish
  Events      \* the status and artifact updates an execution may publish

VARIABLES
  committed,  \* task -> None, or its snapshot, its binding and its log
  tails       \* the tails opened so far: task, start and events received

vars == <<committed, tails>>

CommittedState ==
  [task : Task, binding : Bindings \union {None}, log : Seq(JournalEvent)]

Init ==
  /\ committed \in [Tasks -> CommittedState \union {None}]
  /\ tails = <<>>

\* The task's snapshot is replaced as a whole; its log is untouched.
Replace(t) ==
  \E task \in Snapshots, message \in Messages \union {None},
     binding \in Bindings \union {None} :
    /\ committed' = [committed EXCEPT ![t] =
         [task |-> WithMessage(task, message),
          binding |-> binding,
          log |-> IF committed[t] = None THEN <<>> ELSE committed[t].log]]
    /\ UNCHANGED tails

\* A follow-up message is noted in the history of a known task.
Note(t) ==
  /\ committed[t] # None
  /\ \E message \in Messages :
       committed' = [committed EXCEPT ![t].task =
                       EnsureHistoryContainsMessage(@, message)]
  /\ UNCHANGED tails

\* The session binding of a known task is replaced.
Bind(t) ==
  /\ committed[t] # None
  /\ \E binding \in Bindings :
       committed' = [committed EXCEPT ![t].binding = binding]
  /\ UNCHANGED tails

\* One event is merged into the snapshot and appended to the log.
Commit(t) ==
  /\ committed[t] # None
  /\ \E event \in Events, binding \in Bindings \union {None} :
       committed' = [committed EXCEPT ![t] =
         [task |-> MergeEvent(@.task, event),
          binding |-> binding,
          log |-> Append(@.log, event)]]
  /\ UNCHANGED tails

Open(t) ==
  /\ committed[t] # None
  /\ committed[t].task.state \in ActiveStates
  /\ tails' = Append(tails, [task |-> t, base |-> Len(committed[t].log),
                             received |-> <<>>])
  /\ UNCHANGED committed

NextOf(tail) == committed[tail.task].log[tail.base + Len(tail.received) + 1]

\* Each of some readers receives the event after the last one it received.
Receive(readers) ==
  /\ \A s \in readers :
       LET tail == tails[s] IN
       /\ committed[tail.task] # None
       /\ tail.base + Len(tail.received) < Len(committed[tail.task].log)
  /\ tails' = [s \in DOMAIN tails |->
                 IF s \in readers
                   THEN [tails[s] EXCEPT !.received = Append(@, NextOf(tails[s]))]
                   ELSE tails[s]]
  /\ UNCHANGED committed

\* A store kept in memory forgets everything when it is closed.
Forget ==
  /\ committed' = [t \in Tasks |-> None]
  /\ tails' = <<>>

Next ==
  \/ \E t \in Tasks : Replace(t) \/ Note(t) \/ Bind(t) \/ Commit(t) \/ Open(t)
  \/ \E readers \in SUBSET DOMAIN tails : Receive(readers)
  \/ Forget

Spec == Init /\ [][Next]_vars
=============================================================================
