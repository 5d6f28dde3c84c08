---------------------------- MODULE TaskLifecycle ----------------------------
(***************************************************************************)
(* The life of inbound A2A tasks: message/send, tasks/cancel,              *)
(* tasks/resubscribe and queued replies (request-handler.ts,               *)
(* a2a-server.ts), the execution each send starts (openclaw-executor.ts,   *)
(* task-execution-coordinator.ts), the registry of live executions and the *)
(* resubscribe planner, over the committed log the store provides          *)
(* (CommittedLog, implemented by TaskStore).                               *)
(*                                                                         *)
(* Each action runs from one await to the next.  An execution publishes on *)
(* its event bus at once; the handler of the send commits these events one *)
(* by one, later, while other requests touch the same task.                *)
(***************************************************************************)
EXTENDS Naturals, Sequences, FiniteSets

CONSTANTS
  Sends,       \* message/send requests; a new task is named after its send
  Cancels,     \* tasks/cancel requests
  Watchers,    \* tasks/resubscribe requests
  Replies,     \* queued replies of the host
  MessageOf,   \* send -> messageId of its message
  Targets,     \* send -> the tasks it may name; itself stands for a new one
  Modes,       \* the modes clients ask for
  AgentStyle,  \* account.agentStyle
  MayPause,    \* tools may ask for approval
  MayClose,    \* the server may be closed
  MayCrash,    \* the process may crash and restart, once
  Contents,    \* what is left of assistant messages by the output modes
  MaxEvents,   \* bound on the agent events of an execution
  None

ASSUME LifecycleAssumption ==
  /\ Modes \subseteq {"blocking", "non_blocking", "streaming"}
  /\ AgentStyle \in {"hybrid", "task-generating"}
  /\ {MayPause, MayClose, MayCrash} \subseteq BOOLEAN
  /\ Targets \in [Sends -> SUBSET Sends]
  /\ Contents \subseteq {"shown", "refused", "blank"}
  /\ MaxEvents \in Nat

Terminal == {"completed", "failed", "canceled", "rejected"}
Quiescent == {"input-required", "auth-required"}
Active == {"submitted", "working"}

VARIABLES
  tasks,     \* committed tasks: state, artifacts and log, or None
  exec,      \* send -> its request and its execution
  registry,  \* executions of the registry: task -> the execution that
             \* activated it last, or None
  modes,     \* requestModes of the registry: messageId -> mode, or None
  cancel,    \* cancel request -> its progress
  watcher,   \* resubscribe request -> its progress
  reply,     \* queued reply -> the task it was delivered to, or None
  server     \* "up", "closed", or "restarted" after a crash

vars == <<tasks, exec, registry, modes, cancel, watcher, reply, server>>

Tasks == Sends
TaskOf(e) == exec[e].task

-----------------------------------------------------------------------------
(* Events.                                                                 *)

Snapshot(e, artifacts) ==
  [kind |-> "task", by |-> e, state |-> "submitted", final |-> FALSE,
   artifacts |-> artifacts]
Status(e, state) ==
  [kind |-> "status-update", by |-> e, state |-> state,
   final |-> state \in Terminal, artifacts |-> {}]
Artifact(e, id) ==
  [kind |-> "artifact-update", by |-> e, state |-> "none", final |-> FALSE,
   artifacts |-> {id}]
Direct(e) ==
  [kind |-> "message", by |-> e, state |-> "none", final |-> FALSE,
   artifacts |-> {}]

ArtifactIds ==
  ({"assistant"} \X (1..MaxEvents)) \union ({"tool"} \X Sends)
    \union ({"reply"} \X Replies)

\* Variant: any event sets the state of the task.
CommittedAsStatus(task, event) ==
  [state |-> event.state,
   artifacts |-> IF task = None THEN event.artifacts
                                ELSE task.artifacts \union event.artifacts,
   log |-> IF task = None THEN <<>> ELSE Append(task.log, event)]

\* commitEvent on the committed log of a task
Committed(task, event) ==
  CASE event.kind = "task" ->
         [state |-> event.state, artifacts |-> event.artifacts,
          log |-> IF task = None THEN <<>> ELSE task.log]
    [] event.kind = "status-update" ->
         [task EXCEPT !.state = event.state, !.log = Append(@, event)]
    [] event.kind = "artifact-update" ->
         [task EXCEPT !.artifacts = @ \union event.artifacts,
                      !.log = Append(@, event)]

-----------------------------------------------------------------------------
(* The coordinator: what it does to its own execution x.                   *)

Publish(x, event) == [x EXCEPT !.bus = Append(@, event)]

PublishWorking(x, e) ==
  IF x.promoted /\ ~x.working /\ ~x.final /\ x.ran
    THEN Publish([x EXCEPT !.working = TRUE], Status(e, "working"))
    ELSE x

\* The artifact of the current assistant message, if its content may be shown.
PublishStage(x, e) ==
  IF x.promoted /\ x.stages > 0 /\ x.content = "shown"
    THEN Publish(x, Artifact(e, <<"assistant", x.stages>>))
    ELSE x

\* Variants: the task is submitted before it exists; it works before it is
\* submitted.
PromoteStatusFirst(x, e) ==
  IF x.promoted
    THEN x
    ELSE PublishWorking(
           Publish(Publish([x EXCEPT !.promoted = TRUE], Status(e, "submitted")),
                   Snapshot(e, x.base)), e)
PromoteWorkingFirst(x, e) ==
  IF x.promoted
    THEN x
    ELSE Publish(PublishWorking(Publish([x EXCEPT !.promoted = TRUE],
                                        Snapshot(e, x.base)), e),
                 Status(e, "submitted"))

PromoteToTask(x, e) ==
  IF x.promoted
    THEN x
    ELSE PublishStage(
           PublishWorking(
             Publish(Publish([x EXCEPT !.promoted = TRUE],
                             Snapshot(e, x.base)),
                     Status(e, "submitted")), e), e)

PublishFinal(x, e, state) ==
  IF x.final
    THEN x
    ELSE Publish([PromoteToTask(x, e) EXCEPT !.final = TRUE], Status(e, state))

PublishInputRequired(x, e) ==
  IF x.final \/ x.paused
    THEN x
    ELSE Publish([x EXCEPT !.paused = TRUE], Status(e, "input-required"))

\* Any agent event of the run: the run id is known from then on.
Observed(x, e) == PublishWorking([x EXCEPT !.ran = TRUE, !.events = @ + 1], e)

\* Variant: also once the task was promoted.
CanReturnDirectMessageAlways(x) ==
  /\ x.responseMode # "non_blocking" /\ ~x.continues
  /\ x.aborted = "no" /\ ~x.error /\ ~x.paused /\ ~x.final
  /\ x.stages = 1

CanReturnDirectMessage(x) ==
  /\ x.responseMode # "non_blocking" /\ ~x.continues /\ ~x.promoted
  /\ x.aborted = "no" /\ ~x.error /\ ~x.paused /\ ~x.final
  /\ x.stages = 1

\* Content of which the negotiated output modes leave nothing is refused, with
\* error -32005; a blank message has no content to refuse.
Refused(x) == x.stages > 0 /\ x.content = "refused"

\* Before a final status the current assistant message is closed.
Finish(x, e, state) == PublishFinal(PublishStage(PromoteToTask(x, e), e), e, state)

\* Variant: the abort of a cancel is taken for a failure.
FinalizeErrorAsFailed(x, e) ==
  IF x.final \/ x.aborted = "shutdown" THEN x ELSE Finish(x, e, "failed")

FinalizeError(x, e) ==
  IF x.final \/ x.aborted = "shutdown"
    THEN x
    ELSE IF x.aborted = "cancel"
           THEN Finish(x, e, "canceled")
           ELSE Finish(x, e, "failed")

FinalizeSuccess(x, e) ==
  CASE x.final \/ x.aborted = "shutdown" -> x
    [] ~x.final /\ x.aborted = "cancel" -> Finish(x, e, "canceled")
    [] ~x.final /\ x.aborted = "no" /\ x.error -> Finish(x, e, "failed")
    [] ~x.final /\ x.aborted = "no" /\ ~x.error /\ x.paused -> x
    [] ~x.final /\ x.aborted = "no" /\ ~x.error /\ ~x.paused ->
         IF CanReturnDirectMessage(x) /\ x.content # "blank"
           THEN IF Refused(x)
                  THEN [x EXCEPT !.rejected = TRUE]
                  ELSE Publish(x, Direct(e))
           ELSE IF Refused(x)
                  THEN [FinalizeError(PromoteToTask(x, e), e) EXCEPT !.rejected = TRUE]
                  ELSE Finish(x, e, "completed")

-----------------------------------------------------------------------------
(* The registry: what a step of execution e that ends in x does to it.     *)

\* Variant: a paused execution stays registered.
LeavesWhenFinal(old, new) == new.final /\ ~old.final

Leaves(old, new) == (new.final /\ ~old.final) \/ (new.paused /\ ~old.paused)

\* Once execute() returned only its outcome is left of the coordinator.
Released(x) ==
  IF x.pc = "ended"
    THEN [x EXCEPT !.base = {}, !.ran = FALSE, !.working = FALSE, !.error = FALSE,
                   !.stages = 0, !.content = "blank", !.events = 0,
                   !.responseMode = "blocking"]
    ELSE x

Coordinate(e, x, done) ==
  LET t == exec[e].task IN
  /\ exec' = [exec EXCEPT ![e] = Released(x)]
  /\ registry' =
       [registry EXCEPT ![t] =
          IF Leaves(exec[e], x) THEN None
          ELSE IF x.promoted /\ ~exec[e].promoted THEN e
          ELSE @]
  /\ modes' = IF Leaves(exec[e], x) \/ done
                THEN [modes EXCEPT ![MessageOf[e]] = None]
                ELSE modes

Continue(e, x) == Coordinate(e, x, FALSE)

-----------------------------------------------------------------------------
(* message/send: bootstrapExecution, createRequestContext and execute.     *)

\* A new task, or a follow-up on a task the client has seen.
Send(e, mode, t) ==
  /\ server # "closed"
  /\ exec[e].pc = "idle"
  /\ t # e => tasks[t] # None
  /\ modes' = [modes EXCEPT ![MessageOf[e]] = mode]
  /\ exec' = [exec EXCEPT ![e].pc = IF t = e THEN "starting" ELSE "loading",
                          ![e].mode = mode, ![e].task = t,
                          ![e].continues = (t # e)]
  /\ UNCHANGED <<tasks, registry, cancel, watcher, reply, server>>

\* Variant: a follow-up on an ended task is not refused.
LoadForFollowUpUnchecked(e) ==
  /\ exec[e].pc = "loading"
  /\ exec' = [exec EXCEPT ![e].pc = "persisting"]
  /\ UNCHANGED <<tasks, registry, modes, cancel, watcher, reply, server>>

\* A follow-up on an ended task is refused, and one that does not fit: its
\* context is another one, or the task has no binding.
LoadForFollowUp(e) ==
  \E fits \in BOOLEAN :
    LET refused == ~fits \/ tasks[TaskOf(e)].state \in Terminal IN
    /\ exec[e].pc = "loading"
    /\ exec' = [exec EXCEPT ![e].pc = IF refused THEN "ended" ELSE "persisting",
                            ![e].reader = IF refused THEN "answered" ELSE @,
                            ![e].answer = IF refused THEN "refused" ELSE @]
    /\ modes' = IF refused THEN [modes EXCEPT ![MessageOf[e]] = None] ELSE modes
    /\ UNCHANGED <<tasks, registry, cancel, watcher, reply, server>>

\* persistIncomingMessage: the execution works from the task it returns.
PersistIncomingMessage(e) ==
  /\ exec[e].pc = "persisting"
  /\ exec' = [exec EXCEPT ![e].pc = "starting",
                          ![e].base = tasks[TaskOf(e)].artifacts]
  /\ UNCHANGED <<tasks, registry, modes, cancel, watcher, reply, server>>

\* The coordinator is built; a detached send gets here later.
Start(e) ==
  LET mode == modes[MessageOf[e]] IN
  /\ exec[e].pc = "starting"
  /\ exec' = [exec EXCEPT ![e].pc = "preparing", ![e].reader = "reading",
                          ![e].responseMode = IF mode = None THEN "blocking" ELSE mode]
  /\ UNCHANGED <<tasks, registry, modes, cancel, watcher, reply, server>>

\* prepareForExecution, after the inbound session was recorded.
PrepareForExecution(e) ==
  LET x == [exec[e] EXCEPT !.pc = "running"] IN
  /\ exec[e].pc = "preparing"
  /\ Continue(e, IF \/ x.continues
                    \/ AgentStyle = "task-generating"
                    \/ x.responseMode = "non_blocking"
                   THEN PromoteToTask(x, e) ELSE x)
  /\ UNCHANGED <<tasks, cancel, watcher, reply, server>>

\* Recording the session fails, or the message has no part that can be used.
PreparationFails(e) ==
  LET x == [exec[e] EXCEPT !.pc = "ended"] IN
  /\ exec[e].pc = "preparing"
  /\ Continue(e, FinalizeError(x, e)) \/ Continue(e, Publish(x, Direct(e)))
  /\ UNCHANGED <<tasks, cancel, watcher, reply, server>>

-----------------------------------------------------------------------------
(* The run, between the call of the dispatcher and its return.             *)

Running(e) == exec[e].pc = "running"
Emits(e) == Running(e) /\ exec[e].events < MaxEvents

RunStart(e) ==
  /\ Emits(e) /\ ~exec[e].ran
  /\ Continue(e, Observed(exec[e], e))
  /\ UNCHANGED <<tasks, cancel, watcher, reply, server>>

\* The next assistant message begins, with an event of the run or a reply of
\* the dispatcher; a second one makes a task, which shows the first one too.
AssistantMessage(e, content, observed) ==
  LET x == IF observed THEN Observed(exec[e], e) ELSE [exec[e] EXCEPT !.events = @ + 1]
      y == IF x.stages > 0 THEN PromoteToTask(x, e) ELSE x
  IN  /\ Emits(e)
      /\ Continue(e, PublishStage([y EXCEPT !.stages = @ + 1, !.content = content], e))
      /\ UNCHANGED <<tasks, cancel, watcher, reply, server>>

ToolProgress(x, e) ==
  Publish(PromoteToTask(Observed(x, e), e),
          Artifact(e, <<"tool", e>>))

ToolEvent(e) ==
  /\ Emits(e)
  /\ Continue(e, ToolProgress(exec[e], e))
  /\ UNCHANGED <<tasks, cancel, watcher, reply, server>>

\* A tool result that asks for approval.
ApprovalPause(e) ==
  /\ MayPause /\ Emits(e)
  /\ Continue(e, PublishInputRequired(ToolProgress(exec[e], e), e))
  /\ UNCHANGED <<tasks, cancel, watcher, reply, server>>

LifecycleError(e) ==
  /\ Emits(e)
  /\ Continue(e, PromoteToTask([Observed(exec[e], e) EXCEPT !.error = TRUE], e))
  /\ UNCHANGED <<tasks, cancel, watcher, reply, server>>

DispatchReturns(e) ==
  /\ Running(e)
  /\ LET x == FinalizeSuccess([exec[e] EXCEPT !.pc = "ended"], e)
     IN  Coordinate(e, x, ~x.rejected)
  /\ UNCHANGED <<tasks, cancel, watcher, reply, server>>

\* An error of the run, or the refusal of content that a task would have
\* shown: that goes on to the client.
DispatchThrows(e) ==
  LET x == [exec[e] EXCEPT !.pc = "ended"] IN
  /\ Running(e)
  /\ \/ Coordinate(e, FinalizeError(x, e), TRUE)
     \/ /\ Refused(x)
        /\ Coordinate(e, [FinalizeError(PromoteToTask(x, e), e) EXCEPT !.rejected = TRUE], TRUE)
  /\ UNCHANGED <<tasks, cancel, watcher, reply, server>>

-----------------------------------------------------------------------------
(* The handler of the send commits the events of the bus.                  *)

Reading(e) == exec[e].reader = "reading"

\* Variant: it stops behind any status.
StopsAtStatus(event) == event.kind \in {"message", "status-update"}

\* The event queue stops behind a message or a final status.
Stops(event) == event.kind = "message" \/ event.final

\* A non-blocking send answers with the first task or message.
FirstResult(e, event) ==
  IF exec[e].mode = "non_blocking" /\ exec[e].answer = None
    THEN CASE event.kind = "message" -> "message"
           [] event.kind = "task" -> event.state
           [] OTHER -> None
    ELSE IF event.kind = "message" THEN "message" ELSE exec[e].answer

\* The client has its answer: the mode of the request is forgotten.
Settles(e, event) ==
  /\ exec[e].mode = "non_blocking"
  /\ exec[e].answer = None /\ FirstResult(e, event) # None

CommitNext(e) ==
  LET event == Head(exec[e].bus)
      t == TaskOf(e)
      unknown == event.kind \notin {"message", "task"} /\ tasks[t] = None
  IN  /\ Reading(e) /\ exec[e].bus # <<>>
      /\ tasks' = IF event.kind = "message" \/ unknown
                    THEN tasks
                    ELSE [tasks EXCEPT ![t] = Committed(@, event)]
      /\ exec' = [exec EXCEPT
           ![e].bus = Tail(@),
           ![e].reader = IF unknown THEN "failed"
                         ELSE IF Stops(event) THEN "drained" ELSE @,
           ![e].answer = FirstResult(e, event)]
      /\ modes' = IF Settles(e, event)
                    THEN [modes EXCEPT ![MessageOf[e]] = None] ELSE modes
      /\ UNCHANGED <<registry, cancel, watcher, reply, server>>

\* Variant: the bus is only finished by a final status.
DrainFinal(e) ==
  /\ Reading(e) /\ exec[e].bus = <<>> /\ exec[e].pc = "ended" /\ exec[e].final
  /\ exec' = [exec EXCEPT ![e].reader = "drained"]
  /\ UNCHANGED <<tasks, registry, modes, cancel, watcher, reply, server>>

\* The execution is over and nothing is left on the bus.
Drain(e) ==
  /\ Reading(e) /\ exec[e].bus = <<>> /\ exec[e].pc = "ended"
  /\ exec' = [exec EXCEPT ![e].reader = "drained"]
  /\ UNCHANGED <<tasks, registry, modes, cancel, watcher, reply, server>>

Answer(e) ==
  LET t == TaskOf(e) IN
  /\ exec[e].reader \in {"drained", "failed"} /\ exec[e].pc = "ended"
  /\ exec' = [exec EXCEPT
       ![e].reader = "answered",
       ![e].answer =
          IF @ # None THEN @
          ELSE IF exec[e].rejected \/ exec[e].reader = "failed" \/ tasks[t] = None
                 THEN "error"
                 ELSE tasks[t].state]
  /\ modes' = IF exec[e].mode = "non_blocking" /\ exec[e].answer # None
                THEN modes ELSE [modes EXCEPT ![MessageOf[e]] = None]
  /\ UNCHANGED <<tasks, registry, cancel, watcher, reply, server>>

-----------------------------------------------------------------------------
(* tasks/cancel                                                            *)

Arrive(c, pc) == [cancel EXCEPT ![c].pc = pc]
Reply(c, answer) ==
  [cancel EXCEPT ![c].pc = "answered", ![c].answer = answer,
                 ![c].base = 0, ![c].open = FALSE]
StateOf(t) == tasks[t].state

RequestCancel(c, t) ==
  /\ server # "closed" /\ cancel[c].pc = "idle" /\ tasks[t] # None
  /\ cancel' = [cancel EXCEPT ![c].pc = "loading", ![c].task = t]
  /\ UNCHANGED <<tasks, exec, registry, modes, watcher, reply, server>>

CancelLoad(c) ==
  LET t == cancel[c].task IN
  /\ cancel[c].pc = "loading"
  /\ cancel' = CASE StateOf(t) \in Terminal -> Reply(c, StateOf(t))
                 [] StateOf(t) \in Quiescent -> Arrive(c, "committing")
                 [] StateOf(t) \in Active ->
                      Arrive(c, IF registry[t] = None THEN "reloading"
                                                      ELSE "subscribing")
  /\ UNCHANGED <<tasks, exec, registry, modes, watcher, reply, server>>

CancelReload(c) ==
  LET t == cancel[c].task IN
  /\ cancel[c].pc = "reloading"
  /\ cancel' = CASE StateOf(t) \in Terminal -> Reply(c, StateOf(t))
                 [] StateOf(t) \in Quiescent -> Arrive(c, "committing")
                 [] StateOf(t) \in Active -> Reply(c, "refused")
  /\ UNCHANGED <<tasks, exec, registry, modes, watcher, reply, server>>

\* Variant: a tail is opened whatever the state of the task.
CancelSubscribeUnchecked(c) ==
  /\ cancel[c].pc = "subscribing"
  /\ cancel' = [cancel EXCEPT ![c].pc = "requesting", ![c].open = TRUE,
                              ![c].base = Len(tasks[cancel[c].task].log)]
  /\ UNCHANGED <<tasks, exec, registry, modes, watcher, reply, server>>

\* subscribeToCommittedTail
CancelSubscribe(c) ==
  LET t == cancel[c].task IN
  /\ cancel[c].pc = "subscribing"
  /\ cancel' = IF StateOf(t) \in Active
                 THEN [cancel EXCEPT ![c].pc = "requesting", ![c].open = TRUE,
                                     ![c].base = Len(tasks[t].log)]
                 ELSE Arrive(c, "reloading")
  /\ UNCHANGED <<tasks, exec, registry, modes, watcher, reply, server>>

Aborted(x, reason) ==
  IF x.final \/ x.aborted # "no" THEN x ELSE [x EXCEPT !.aborted = reason]

\* Variant: the execution leaves the registry when its cancel is requested.
CancelRequestUnregisters(c) ==
  LET e == registry[cancel[c].task] IN
  /\ cancel[c].pc = "requesting"
  /\ exec' = IF e = None THEN exec
              ELSE [exec EXCEPT ![e] = Aborted(@, "cancel")]
  /\ registry' = [registry EXCEPT ![cancel[c].task] = None]
  /\ cancel' = Arrive(c, "waiting")
  /\ UNCHANGED <<tasks, modes, watcher, reply, server>>

\* requestCancellation, and cancel() of the execution registered
CancelRequest(c) ==
  LET e == registry[cancel[c].task] IN
  /\ cancel[c].pc = "requesting"
  /\ exec' = IF e = None THEN exec
              ELSE [exec EXCEPT ![e] = Aborted(@, "cancel")]
  /\ cancel' = Arrive(c, "waiting")
  /\ UNCHANGED <<tasks, registry, modes, watcher, reply, server>>

FinalAfter(t, base) ==
  \E i \in DOMAIN tasks[t].log : i > base /\ tasks[t].log[i].final

\* The tail reaches a final status, or was closed with the store.
CancelTailEnds(c) ==
  /\ cancel[c].pc = "waiting"
  /\ cancel[c].open => FinalAfter(cancel[c].task, cancel[c].base)
  /\ cancel' = Arrive(c, "settling")
  /\ UNCHANGED <<tasks, exec, registry, modes, watcher, reply, server>>

CancelSettle(c) ==
  LET t == cancel[c].task IN
  /\ cancel[c].pc = "settling"
  /\ cancel' = Reply(c, IF StateOf(t) \in Terminal THEN StateOf(t) ELSE "refused")
  /\ UNCHANGED <<tasks, exec, registry, modes, watcher, reply, server>>

\* cancelQuiescentTask
CancelQuiescent(c) ==
  LET t == cancel[c].task IN
  /\ cancel[c].pc = "committing"
  /\ tasks' = [tasks EXCEPT ![t] = Committed(@, Status(c, "canceled"))]
  /\ cancel' = Arrive(c, "cleaning")
  /\ UNCHANGED <<exec, registry, modes, watcher, reply, server>>

CancelCleanup(c) ==
  /\ cancel[c].pc = "cleaning"
  /\ registry' = [registry EXCEPT ![cancel[c].task] = None]
  /\ cancel' = Arrive(c, "reading")
  /\ UNCHANGED <<tasks, exec, modes, watcher, reply, server>>

CancelRead(c) ==
  /\ cancel[c].pc = "reading"
  /\ cancel' = Reply(c, StateOf(cancel[c].task))
  /\ UNCHANGED <<tasks, exec, registry, modes, watcher, reply, server>>

-----------------------------------------------------------------------------
(* tasks/resubscribe                                                       *)

\* allowLiveTail is decided before the store is asked.
Resubscribe(w, t) ==
  /\ server # "closed" /\ watcher[w].pc = "idle" /\ tasks[t] # None
  /\ watcher' = [watcher EXCEPT ![w].pc = "planned", ![w].task = t,
                                 ![w].live = (registry[t] # None)]
  /\ UNCHANGED <<tasks, exec, registry, modes, cancel, reply, server>>

\* Variant: a tail is opened on a task that ended meanwhile.
PrepareResubscribeUnchecked(w) ==
  /\ watcher[w].pc = "planned"
  /\ watcher' =
       IF watcher[w].live
         THEN [watcher EXCEPT ![w].pc = "tailing",
                              ![w].base = Len(tasks[watcher[w].task].log)]
         ELSE [watcher EXCEPT ![w].pc = "closed"]
  /\ UNCHANGED <<tasks, exec, registry, modes, cancel, reply, server>>

PrepareResubscribe(w) ==
  LET t == watcher[w].task IN
  /\ watcher[w].pc = "planned"
  /\ watcher' =
       IF watcher[w].live /\ StateOf(t) \in Active
         THEN [watcher EXCEPT ![w].pc = "tailing", ![w].base = Len(tasks[t].log)]
         ELSE [watcher EXCEPT ![w].pc = "closed"]
  /\ UNCHANGED <<tasks, exec, registry, modes, cancel, reply, server>>

WatcherTailEnds(w) ==
  /\ watcher[w].pc = "tailing"
  /\ FinalAfter(watcher[w].task, watcher[w].base)
  /\ watcher' = [watcher EXCEPT ![w].pc = "closed"]
  /\ UNCHANGED <<tasks, exec, registry, modes, cancel, reply, server>>

-----------------------------------------------------------------------------
\* A queued reply of the host becomes an artifact of the local task.
DeliverQueuedReply(q, t) ==
  /\ reply[q] = None /\ tasks[t] # None
  /\ tasks' = [tasks EXCEPT ![t] = Committed(@, Artifact(q, <<"reply", q>>))]
  /\ reply' = [reply EXCEPT ![q] = t]
  /\ UNCHANGED <<exec, registry, modes, cancel, watcher, server>>

\* close() of the server: shutdownAll, then the store closes the tails it has.
Close ==
  /\ MayClose /\ server = "up"
  /\ server' = "closed"
  /\ exec' = [e \in Sends |->
                IF \E t \in Tasks : registry[t] = e
                  THEN Aborted(exec[e], "shutdown") ELSE exec[e]]
  /\ registry' = [t \in Tasks |-> None]
  /\ cancel' = [c \in Cancels |-> [cancel[c] EXCEPT !.open = FALSE]]
  /\ watcher' = [w \in Watchers |->
                   IF watcher[w].pc = "tailing"
                     THEN [watcher[w] EXCEPT !.pc = "closed"] ELSE watcher[w]]
  /\ UNCHANGED <<tasks, modes, reply>>

Gone(request) == IF request.pc = "idle" THEN request ELSE [request EXCEPT !.pc = "lost"]

\* The process dies and a new server opens the same task directory.
Crash ==
  /\ MayCrash /\ server # "restarted"
  /\ server' = "restarted"
  /\ exec' = [e \in Sends |-> IF exec[e].pc = "idle" THEN exec[e]
                               ELSE [exec[e] EXCEPT !.pc = "lost", !.reader = "lost",
                                                    !.bus = <<>>]]
  /\ cancel' = [c \in Cancels |-> Gone(cancel[c])]
  /\ watcher' = [w \in Watchers |-> Gone(watcher[w])]
  /\ registry' = [t \in Tasks |-> None]
  /\ modes' = [m \in DOMAIN modes |-> None]
  /\ UNCHANGED <<tasks, reply>>

-----------------------------------------------------------------------------
Idle(e) ==
  [pc |-> "idle", mode |-> "blocking", task |-> e, continues |-> FALSE,
   base |-> {}, responseMode |-> "blocking", promoted |-> FALSE, ran |-> FALSE,
   working |-> FALSE, final |-> FALSE, paused |-> FALSE, error |-> FALSE,
   aborted |-> "no", stages |-> 0, content |-> "blank", events |-> 0,
   rejected |-> FALSE, bus |-> <<>>, reader |-> "none", answer |-> None]

Init ==
  /\ tasks = [t \in Tasks |-> None]
  /\ exec = [e \in Sends |-> Idle(e)]
  /\ registry = [t \in Tasks |-> None]
  /\ modes = [m \in {MessageOf[e] : e \in Sends} |-> None]
  /\ cancel = [c \in Cancels |->
                [pc |-> "idle", task |-> None, base |-> 0, open |-> FALSE,
                 answer |-> None]]
  /\ watcher = [w \in Watchers |->
                [pc |-> "idle", task |-> None, base |-> 0, live |-> FALSE]]
  /\ reply = [q \in Replies |-> None]
  /\ server = "up"

\* Steps the server takes by itself once a request is in.
HandleSend(e) ==
  \/ LoadForFollowUp(e) \/ PersistIncomingMessage(e) \/ Start(e)
  \/ PrepareForExecution(e) \/ PreparationFails(e)
  \/ CommitNext(e) \/ Drain(e) \/ Answer(e)

\* Steps of the agent run and of the reply dispatcher of the host.
AgentEvent(e) ==
  \/ RunStart(e) \/ ToolEvent(e) \/ ApprovalPause(e) \/ LifecycleError(e)
  \/ \E content \in Contents, observed \in BOOLEAN : AssistantMessage(e, content, observed)

DispatchEnds(e) == DispatchReturns(e) \/ DispatchThrows(e)

HandleCancel(c) ==
  \/ CancelLoad(c) \/ CancelReload(c) \/ CancelSubscribe(c)
  \/ CancelRequest(c) \/ CancelTailEnds(c) \/ CancelSettle(c)
  \/ CancelQuiescent(c) \/ CancelCleanup(c) \/ CancelRead(c)

HandleResubscribe(w) == PrepareResubscribe(w) \/ WatcherTailEnds(w)

Next ==
  \/ \E e \in Sends :
       \/ \E mode \in Modes, t \in Targets[e] : Send(e, mode, t)
       \/ HandleSend(e) \/ AgentEvent(e) \/ DispatchEnds(e)
  \/ \E c \in Cancels : (\E t \in Tasks : RequestCancel(c, t)) \/ HandleCancel(c)
  \/ \E w \in Watchers : (\E t \in Tasks : Resubscribe(w, t)) \/ HandleResubscribe(w)
  \/ \E q \in Replies, t \in Tasks : DeliverQueuedReply(q, t)
  \/ Close
  \/ Crash

Spec == Init /\ [][Next]_vars

\* The event loop runs every continuation that is ready, the store answers,
\* and the dispatcher of the host returns or throws.
FairSpec ==
  /\ Spec
  /\ \A e \in Sends : WF_vars(HandleSend(e)) /\ WF_vars(DispatchEnds(e))
  /\ \A c \in Cancels : WF_vars(HandleCancel(c))
  /\ \A w \in Watchers : WF_vars(HandleResubscribe(w))

-----------------------------------------------------------------------------
States == Terminal \union Quiescent \union Active
Answers == States \union {"refused", "message", "error"}

Authors == Sends \union Cancels \union Replies

Event ==
  [kind : {"task", "status-update"}, by : Authors, state : States,
   final : BOOLEAN, artifacts : SUBSET ArtifactIds]
  \union
  [kind : {"artifact-update", "message"}, by : Authors, state : {"none"},
   final : {FALSE}, artifacts : SUBSET ArtifactIds]

CommittedTask ==
  [state : States, artifacts : SUBSET ArtifactIds, log : Seq(Event)]

Execution ==
  [pc : {"idle", "loading", "persisting", "starting", "preparing", "running",
         "ended", "lost"},
   mode : Modes \union {"blocking"}, task : Tasks, continues : BOOLEAN,
   base : SUBSET ArtifactIds, responseMode : Modes \union {"blocking"},
   promoted : BOOLEAN, ran : BOOLEAN, working : BOOLEAN, final : BOOLEAN,
   paused : BOOLEAN, error : BOOLEAN, aborted : {"no", "cancel", "shutdown"},
   stages : 0..MaxEvents, content : Contents \union {"blank"},
   events : 0..MaxEvents, rejected : BOOLEAN, bus : Seq(Event),
   reader : {"none", "reading", "drained", "failed", "answered", "lost"},
   answer : Answers \union {None}]

CancelRequests ==
  [pc : {"idle", "loading", "reloading", "subscribing", "requesting", "waiting",
         "settling", "committing", "cleaning", "reading", "answered", "lost"},
   task : Tasks \union {None}, base : Nat, open : BOOLEAN,
   answer : States \union {"refused", None}]

ResubscribeRequests ==
  [pc : {"idle", "planned", "tailing", "closed", "lost"},
   task : Tasks \union {None}, base : Nat, live : BOOLEAN]

\* Requests are told apart, and None from everything it stands in for.
ASSUME RequestAssumption ==
  /\ Sends \intersect Cancels = {}
  /\ Replies \intersect (Sends \union Cancels) = {}
  /\ None \notin Sends /\ None \notin CommittedTask /\ None \notin Answers

\* Every variable holds a value of its shape, and executions run only for
\* requests that came in.
TypeOK ==
  /\ tasks \in [Tasks -> CommittedTask \union {None}]
  /\ exec \in [Sends -> Execution]
  /\ registry \in [Tasks -> Sends \union {None}]
  /\ modes \in [{MessageOf[e] : e \in Sends} -> Modes \union {None}]
  /\ cancel \in [Cancels -> CancelRequests]
  /\ watcher \in [Watchers -> ResubscribeRequests]
  /\ reply \in [Replies -> Tasks \union {None}]
  /\ server \in {"up", "closed", "restarted"}

\* The execution may still publish a final status and is not paused.
Live(e) == /\ exec[e].pc = "running" /\ exec[e].promoted
           /\ ~exec[e].final /\ ~exec[e].paused

\* The registry holds only executions that are still running: a cancel or a
\* resubscribe that finds one never waits for an execution that is over.
RegisteredIsLive ==
  \A t \in Tasks : registry[t] # None =>
    Live(registry[t]) /\ TaskOf(registry[t]) = t

Wrote(c, t) == tasks[t] # None /\ \E i \in DOMAIN tasks[t].log : tasks[t].log[i].by = c

\* Another send or a cancel worked on the task of e as well.
Contended(e) ==
  \/ \E f \in Sends \ {e} : TaskOf(f) = TaskOf(e) /\ exec[f].promoted
  \/ \E c \in Cancels : Wrote(c, TaskOf(e))

\* A promoted execution can be found by cancel and resubscribe until it
\* publishes its final status, pauses or the server closes, unless another
\* send or cancel on the same task took its registration.
LiveIsRegistered ==
  \A e \in Sends :
    Live(e) /\ exec[e].aborted # "shutdown" /\ ~Contended(e) /\ server # "closed"
      => registry[TaskOf(e)] = e

\* The handler commits what an execution publishes although it commits later:
\* it never meets an event of a task that does not exist yet.
CommitsKnownTask == \A e \in Sends : exec[e].reader # "failed"

Rank(state) ==
  CASE state = "submitted" -> 1
    [] state = "working" -> 2
    [] state \in Quiescent -> 3
    [] state \in Terminal -> 4
    [] state = "none" -> 0

\* The committed statuses of an execution come in the order submitted,
\* working, input-required, final, each at most once, and nothing of the
\* execution is committed behind its final status.
StatusesInOrder ==
  \A t \in Tasks : tasks[t] # None =>
    LET log == tasks[t].log IN
    \A i, j \in DOMAIN log : i < j /\ log[i].by = log[j].by =>
      /\ ~log[i].final
      /\ log[i].kind = "status-update" /\ log[j].kind = "status-update"
           => Rank(log[i].state) < Rank(log[j].state)

\* An execution ends its task as canceled exactly when a cancel reached it
\* before it published its end, and not at all when the server closed first.
FinalMatchesAbort ==
  \A t \in Tasks : tasks[t] # None =>
    \A i \in DOMAIN tasks[t].log :
      LET event == tasks[t].log[i] IN
      event.final /\ event.by \in Sends =>
        /\ (event.state = "canceled") <=> (exec[event.by].aborted = "cancel")
        /\ exec[event.by].aborted # "shutdown"

\* A send that answered with a direct message has left no task behind, and is
\* not listed as live.
DirectAnswerLeavesNoTask ==
  \A e \in Sends :
    exec[e].answer = "message" /\ ~exec[e].continues =>
      tasks[e] = None /\ registry[e] = None

\* A blocking or streaming send that had its task for itself answers with a
\* message, an error, or a task that is finished or waits for input.
BlockingAnswersSettled ==
  \A e \in Sends :
    /\ exec[e].mode # "non_blocking" /\ exec[e].reader = "answered"
    /\ \A f \in Sends \ {e} : TaskOf(f) # TaskOf(e)
    /\ server = "up"
    => exec[e].answer \notin Active

\* A request that already got past its checks of the task's state.
InProgress(t) ==
  \/ \E e \in Sends :
       /\ TaskOf(e) = t
       /\ \/ exec[e].pc \in {"persisting", "starting", "preparing", "running"}
          \/ exec[e].reader = "reading" /\ exec[e].bus # <<>>
  \/ \E c \in Cancels : cancel[c].task = t /\ cancel[c].pc = "committing"

AtRest(t) == tasks[t] # None /\ tasks[t].state \in Terminal /\ ~InProgress(t)

\* A task that ended with no request under way on it stays as it ended: no
\* later send or cancel is let through to it, by whichever path it comes.
EndedTaskStaysEnded ==
  [][\A t \in Tasks : AtRest(t) => AtRest(t)' /\ tasks'[t].state = tasks[t].state]_vars

\* "Task ... is in a terminal state and cannot be modified".
TerminalIsFinal ==
  [][\A t \in Tasks : tasks[t] # None /\ tasks[t].state \in Terminal
       => tasks'[t].state = tasks[t].state]_vars

\* "Later queued follow-ups append protocol artifacts onto that local task."
QueuedRepliesKept ==
  \A q \in Replies :
    reply[q] # None => <<"reply", q>> \in tasks[reply[q]].artifacts

\* Every send is answered.
SendsAnswer ==
  \A e \in Sends :
    exec[e].pc # "idle" ~> exec[e].reader = "answered" \/ exec[e].pc = "lost"

\* Every cancel is answered, whatever the execution does meanwhile.
CancelsAnswer ==
  \A c \in Cancels :
    cancel[c].pc # "idle" ~> cancel[c].pc \in {"answered", "lost"}

\* Every resubscription ends.
WatchersEnd ==
  \A w \in Watchers : watcher[w].pc # "idle" ~> watcher[w].pc \in {"closed", "lost"}
=============================================================================
