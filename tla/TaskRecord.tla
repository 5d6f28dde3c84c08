----------------------------- MODULE TaskRecord -----------------------------
(***************************************************************************)
(* The data of the inbound task runtime: task states and their classes     *)
(* (response-mapping.ts), the stored record of a task and the pure         *)
(* functions that compute the next record (task-store.ts).                 *)
(*                                                                         *)
(* A message, a part and a binding are opaque values: two messages are     *)
(* equal exactly when their messageId is, which is all the code compares.  *)
(***************************************************************************)
EXTENDS Naturals, Sequences

CONSTANTS
  Messages,     \* messages, identified by messageId
  ArtifactIds,  \* artifact identifiers
  Parts,        \* artifact parts
  Bindings,     \* OpenClaw session bindings
  None          \* "undefined"

TerminalStates == {"completed", "failed", "canceled", "rejected"}
QuiescentStates == {"input-required", "auth-required"}
ActiveStates == {"submitted", "working"}
TaskStates == TerminalStates \union QuiescentStates \union ActiveStates

-----------------------------------------------------------------------------
\* The artifacts of a task: the parts held under each artifactId, if any.
Artifacts == [ArtifactIds -> Seq(Parts) \union {None}]

Task == [state : TaskStates, history : Seq(Messages), artifacts : Artifacts]

\* "id" is the commit call an event object came with: it stands for the
\* identity of the event.
StatusUpdate ==
  [kind : {"status-update"}, id : Nat,
   state : TaskStates, message : Messages \union {None}]

ArtifactUpdate ==
  [kind : {"artifact-update"}, id : Nat,
   artifactId : ArtifactIds, parts : Seq(Parts), append : BOOLEAN]

JournalEvent == StatusUpdate \union ArtifactUpdate

JournalEntry == [sequence : Nat, event : JournalEvent]

StoredTaskRecord ==
  [task : Task, binding : Bindings \union {None},
   currentSequence : Nat, journal : Seq(JournalEntry)]

ASSUME NoneAssumption ==
  /\ None \notin Messages
  /\ None \notin Bindings
  /\ None \notin Seq(Parts)
  /\ None \notin StoredTaskRecord

-----------------------------------------------------------------------------
Occurs(message, history) ==
  \E i \in DOMAIN history : history[i] = message

EnsureHistoryContainsMessage(task, message) ==
  IF Occurs(message, task.history)
    THEN task
    ELSE [task EXCEPT !.history = Append(@, message)]

\* Variant of the next operator: an absent message is not skipped.
WithAnyMessage(task, message) == EnsureHistoryContainsMessage(task, message)

WithMessage(task, message) ==
  IF message = None THEN task ELSE EnsureHistoryContainsMessage(task, message)

MergeStatus(task, event) ==
  WithMessage([task EXCEPT !.state = event.state], event.message)

MergedParts(existing, event) ==
  IF event.append /\ existing # None THEN existing \o event.parts ELSE event.parts

MergeArtifact(task, event) ==
  [task EXCEPT !.artifacts[event.artifactId] = MergedParts(@, event)]

MergeEvent(task, event) ==
  IF event.kind = "status-update"
    THEN MergeStatus(task, event)
    ELSE MergeArtifact(task, event)

-----------------------------------------------------------------------------
(***************************************************************************)
(* The records the json-file backend is able to read back: anything else   *)
(* makes every later operation on the task fail.                           *)
(***************************************************************************)
ParserAccepts(record) ==
  LET journal == record.journal IN
  /\ \A i \in DOMAIN journal : journal[i].sequence > 0
  /\ \A i \in DOMAIN journal :
       i > 1 => journal[i].sequence > journal[i - 1].sequence
  /\ journal # <<>> => record.currentSequence >= journal[Len(journal)].sequence

EventsOf(record) == [i \in DOMAIN record.journal |-> record.journal[i].event]
=============================================================================
