----------------------------- MODULE RemoteAgent -----------------------------
(***************************************************************************)
(* The remote_agent tool of the outbound plugin: the calls of              *)
(* A2AOutboundService (service.ts) over the task handle registry, the      *)
(* target catalog (target-catalog.ts) and the client pool                  *)
(* (sdk-client-pool.ts).                                                   *)
(*                                                                         *)
(* Each action runs from one await to the next; calls of one process run   *)
(* interleaved.  The peers answer as the A2A SDK lets them.  The agent     *)
(* that makes the calls keeps the continuations it was given, also when    *)
(* the process restarts.  A configured alias stands for its target.  A     *)
(* continuation without a task is one that only continues a conversation.  *)
(***************************************************************************)
EXTENDS TaskHandles

CONSTANTS
  Calls,            \* calls of the tool, each made once
  ActionsOf,        \* call -> the actions it may ask for
  Tasks,            \* task ids of the peers
  Contexts,         \* context ids: the conversations with the peers
  Targets,          \* peers: base URL and card path
  Configured,       \* the targets of the configuration
  DefaultTarget,    \* the default one of them, or None
  DefaultCardPath,  \* defaults.cardPath
  AllowOverride,    \* policy.allowTargetUrlOverride
  MayRename,        \* a peer may answer with another task or context
  MaxInFlight,      \* bound on the calls in flight at a time
  MaxEvents,        \* bound on the events of a stream
  MaxUpsets         \* bound on the ticks of the clock and the restarts together

AllActions ==
  {"list_targets", "send", "strict_send", "stream", "strict_stream", "watch",
   "status", "cancel"}

\* action=send with and without task_requirement="required", follow_updates
Sending == {"send", "strict_send", "stream", "strict_stream"}
Strict == {"strict_send", "strict_stream"}

\* Error codes a call may end with (constants.ts).
Errors == {"VALIDATION_ERROR", "TARGET_RESOLUTION_ERROR", "EXPIRED_TASK_HANDLE",
           "UNKNOWN_TASK_HANDLE", "A2A_SDK_ERROR", "STREAMING_NOT_SUPPORTED",
           "TASK_REQUIRED_BUT_MESSAGE_RETURNED"}

\* What a task handle stands for (TaskHandleRecord).
Records == [target : Targets, taskId : Tasks, contextId : Contexts \union {None},
            lastAccessedAt : Nat, expiresAt : Nat]

\* What is kept of an agent card.
CardRecords == [streaming : {"yes", "no", "unknown"}, error : BOOLEAN]

ASSUME RemoteAgentAssumption ==
  /\ ActionsOf \in [Calls -> SUBSET AllActions]
  /\ Targets \subseteq [base : {t.base : t \in Targets}, cardPath : STRING]
  /\ Configured \subseteq Targets
  /\ DefaultTarget \in Configured \union {None}
  /\ \A t \in Targets : [t EXCEPT !.cardPath = DefaultCardPath] \in Targets
  /\ {AllowOverride, MayRename} \subseteq BOOLEAN
  /\ MaxInFlight \in Nat /\ MaxEvents \in Nat /\ MaxUpsets \in Nat
  /\ None \notin Tasks /\ None \notin Contexts /\ None \notin Targets /\ None \notin Errors
  /\ None \notin Records /\ None \notin CardRecords

Bases == {t.base : t \in Targets}

VARIABLES
  clock,      \* Date.now()
  entries,    \* the handle registry
  created,    \* number of handles created so far
  cards,      \* cardCache: base URL -> its card, or None
  refreshes,  \* cardRefreshes: base URL -> whether its card is being refreshed
  call,       \* call -> its input and progress
  given,      \* the continuations the agent was given
  bindings,   \* what handles were ever bound to, for the properties
  restarts    \* number of restarts of the process

vars == <<clock, entries, created, cards, refreshes, call, given, bindings, restarts>>
registry == <<entries, created, bindings>>
catalog == <<cards, refreshes>>

-----------------------------------------------------------------------------
(* Input (schemas.ts).                                                     *)

\* continuationSummary: what the agent gets to go on with.  (can_send,
\* can_resume_send and can_cancel say whether the task had ended; they do not
\* keep the agent from asking.)
Continuation(target, taskId, contextId, handle) ==
  [target |-> target, taskId |-> taskId, contextId |-> contextId, handle |-> handle]

NoInput ==
  [action |-> "list_targets", continuation |-> None, task_handle |-> None,
   task_id |-> None, context_id |-> None, target_alias |-> None, target_url |-> None]

Input(action, field, value) == [NoInput EXCEPT !.action = action, ![field] = value]

NewRequests(c) == {[NoInput EXCEPT !.action = a] : a \in ActionsOf[c]}

\* What the agent does with a continuation: it passes it on, or it names its
\* handle, its task or its context by hand.
Continued(c, g) ==
  {Input(a, "continuation", g) : a \in ActionsOf[c] \ {"list_targets"}}
ByHand(c, g) ==
  LET flat == {Input(a, "task_handle", g.handle) : a \in ActionsOf[c] \ {"list_targets"}}
        \union {Input(a, "task_id", g.taskId) : a \in ActionsOf[c] \ {"list_targets"}}
  IN  flat \union {[i EXCEPT !.context_id = g.contextId] : i \in flat}

\* By hand it may also name a target.
Inputs(c) ==
  LET flat == NewRequests(c) \union UNION {ByHand(c, g) : g \in given}
  IN  flat
        \union {[i EXCEPT !.target_alias = t] : i \in flat, t \in Configured}
        \union {[i EXCEPT !.target_url = b] : i \in flat, b \in Bases}
        \union UNION {Continued(c, g) : g \in given}

\* validateExplicitTargetFields
TargetAllowed(i) ==
  i.target_url # None =>
    AllowOverride \/ \E t \in Configured : t.base = i.target_url

\* validateActionSpecificRules: disallowed fields, mixing with a continuation,
\* and what each action requires.
Valid(i) ==
  LET flat == {i.task_handle, i.task_id, i.context_id, i.target_alias, i.target_url} \ {None}
  IN  IF i.action = "list_targets"
        THEN flat = {} /\ i.continuation = None
      ELSE IF i.continuation # None
        THEN /\ flat = {}
             /\ \/ i.continuation.taskId # None
                \/ i.action \in Sending /\ i.continuation.contextId # None
        ELSE /\ TargetAllowed(i)
             /\ i.action \in Sending \/ i.task_handle # None \/ i.task_id # None
             /\ i.action \in Sending \/ i.context_id = None
             /\ \/ i.task_handle # None
                \/ i.target_alias # None \/ i.target_url # None
                \/ DefaultTarget # None

-----------------------------------------------------------------------------
(* Resolution of target, task and handle (resolveTaskContext).             *)

To(target, taskId, contextId, handle) ==
  [error |-> None, target |-> target, taskId |-> taskId, contextId |-> contextId,
   handle |-> handle]
Refused(error) == [To(None, None, None, None) EXCEPT !.error = error]

\* resolveRawTarget: the base URL with the default card path, unless it is
\* ambiguous or not allowed.
RawTarget(base) ==
  LET matches == {t \in Configured : t.base = base}
  IN  IF \/ Cardinality(matches) > 1
         \/ matches = {} /\ Configured # {} /\ ~AllowOverride
        THEN Refused("TARGET_RESOLUTION_ERROR")
        ELSE To([base |-> base, cardPath |-> DefaultCardPath], None, None, None)

\* resolveExplicitTarget ?? resolveDefaultTarget
RouteTarget(i) ==
  IF i.target_alias # None THEN To(i.target_alias, None, None, None)
  ELSE IF i.target_url # None THEN RawTarget(i.target_url)
  ELSE To(DefaultTarget, None, None, None)

\* What two sides say of a context is at odds.
Differ(x, y) == x # None /\ y # None /\ x # y
Given(x, otherwise) == IF x = None THEN otherwise ELSE x

\* The task of the continuation, without a handle.
RouteUnbound(k) == To(k.target, k.taskId, k.contextId, None)

\* Variant: a live handle is not compared with the task of the continuation.
RouteContinuationUnchecked(k) ==
  IF k.handle # None /\ Live(entries, k.handle, clock)
    THEN LET entry == entries[k.handle]
         IN  IF \/ k.target # entry.target
                \/ Differ(k.contextId, entry.contextId)
               THEN Refused("VALIDATION_ERROR")
               ELSE To(k.target, entry.taskId, Given(k.contextId, entry.contextId), k.handle)
    ELSE RouteUnbound(k)

\* Variant: only an expired handle makes the continuation fall back.
RouteContinuationExpired(k) ==
  IF k.handle # None /\ ~Expired(entries, k.handle, clock)
    THEN LET entry == entries[k.handle]
         IN  IF ~Live(entries, k.handle, clock)
               THEN Refused("UNKNOWN_TASK_HANDLE")
             ELSE IF \/ k.taskId # entry.taskId \/ k.target # entry.target
                     \/ Differ(k.contextId, entry.contextId)
               THEN Refused("VALIDATION_ERROR")
               ELSE To(k.target, k.taskId, Given(k.contextId, entry.contextId), k.handle)
    ELSE RouteUnbound(k)

\* A live handle has to match the continuation; without one the target, the
\* task and the context of the continuation are used as they are.
RouteContinuation(k) ==
  IF k.handle # None /\ Live(entries, k.handle, clock)
    THEN LET entry == entries[k.handle]
         IN  IF \/ k.taskId # entry.taskId \/ k.target # entry.target
                \/ Differ(k.contextId, entry.contextId)
               THEN Refused("VALIDATION_ERROR")
               ELSE To(k.target, k.taskId, Given(k.contextId, entry.contextId), k.handle)
    ELSE RouteUnbound(k)

\* Variant: a flat handle is used with whatever target is named beside it.
RouteHandleElsewhere(i) ==
  LET h == i.task_handle
      explicit == RouteTarget(i)
      named == i.target_alias # None \/ i.target_url # None
  IN  IF ~Live(entries, h, clock) THEN Refused(LookupError(entries, h, clock))
      ELSE IF named /\ explicit.error # None THEN explicit
      ELSE To(IF named THEN explicit.target ELSE entries[h].target, entries[h].taskId,
              Given(i.context_id, entries[h].contextId), h)

\* A flat handle has to be live and to match what is said beside it.
RouteHandle(i) ==
  LET h == i.task_handle
      explicit == RouteTarget(i)
      named == i.target_alias # None \/ i.target_url # None
  IN  IF ~Live(entries, h, clock) THEN Refused(LookupError(entries, h, clock))
      ELSE IF i.task_id \notin {None, entries[h].taskId} THEN Refused("VALIDATION_ERROR")
      ELSE IF named /\ explicit.error # None THEN explicit
      ELSE IF \/ named /\ explicit.target # entries[h].target
              \/ Differ(i.context_id, entries[h].contextId)
        THEN Refused("VALIDATION_ERROR")
      ELSE To(entries[h].target, entries[h].taskId,
              Given(i.context_id, entries[h].contextId), h)

Route(i) ==
  IF ~Valid(i) THEN Refused("VALIDATION_ERROR")
  ELSE IF i.continuation # None THEN RouteContinuation(i.continuation)
  ELSE IF i.task_handle # None THEN RouteHandle(i)
  ELSE [RouteTarget(i) EXCEPT !.taskId = i.task_id, !.contextId = i.context_id]

\* The handle a valid input has looked up.
LooksUp(i) ==
  IF ~Valid(i) THEN None
  ELSE IF i.continuation # None THEN i.continuation.handle
  ELSE i.task_handle

-----------------------------------------------------------------------------
(* Calls.                                                                  *)

Idle == [pc |-> "idle", action |-> "none", continuation |-> None, target |-> None,
         taskId |-> None, contextId |-> None, handle |-> None, waits |-> {}, events |-> 0,
         sent |-> FALSE, error |-> None]

Ended == {"answered", "failed", "lost"}
At(c, pc) == call[c].pc = pc
Goes(c, pc) == [call EXCEPT ![c].pc = pc]

\* A call that ends leaves its result, its locals are gone: the error, with the
\* continuation it was asked to follow if it was not sent yet, or the target,
\* the task, the context and the handle.
Failed(i, sent, error) ==
  [Idle EXCEPT !.pc = "failed", !.error = error, !.sent = sent,
               !.continuation = i.continuation,
               !.action = IF i.continuation = None THEN "none" ELSE i.action]
Fails(c, error) == [call EXCEPT ![c] = Failed(call[c], call[c].sent, error)]
Finishes(c, taskId, contextId, handle) ==
  [call EXCEPT ![c] = [Idle EXCEPT !.pc = "answered", !.target = call[c].target,
                                   !.taskId = taskId, !.contextId = contextId,
                                   !.handle = handle, !.sent = TRUE]]

CanBegin(c) ==
  /\ At(c, "idle")
  /\ Cardinality({d \in Calls : call[d].pc \notin Ended \union {"idle"}}) < MaxInFlight

\* execute(), up to the first await: validation, resolution of the target and
\* of the handle, and the look into the client pool.
Begin(c) ==
  /\ CanBegin(c)
  /\ \E i \in Inputs(c) :
       /\ i.action # "list_targets" \/ ~Valid(i)
       /\ LET to == Route(i)
          IN  call' = [call EXCEPT ![c] =
                IF to.error # None THEN Failed(i, FALSE, to.error)
                ELSE [Idle EXCEPT !.pc = "connecting", !.action = i.action,
                                  !.continuation = i.continuation,
                                  !.target = to.target, !.taskId = to.taskId,
                                  !.contextId = to.contextId, !.handle = to.handle]]
       /\ entries' = IF LooksUp(i) = None THEN entries
                     ELSE Resolve(entries, LooksUp(i), clock)
  /\ UNCHANGED <<clock, created, bindings, catalog, given, restarts>>

\* What is done when the card is there, or was not to be had.  A watch is
\* refused when the card says that the peer does not stream.  (A target knows
\* streamingSupported from a cached card only, and a card stays cached.)
StreamingRefused(base, known) ==
  known[base] # None /\ known[base].streaming = "no"

Proceed(c, known) ==
  IF call[c].action = "watch" /\ StreamingRefused(call[c].target.base, known)
    THEN Fails(c, "STREAMING_NOT_SUPPORTED")
    ELSE [call EXCEPT ![c].pc = IF call[c].action \in {"watch", "stream"}
                                  THEN "streaming" ELSE "requesting",
                      ![c].sent = TRUE, ![c].continuation = None]

\* pool.get and getAgentCard, then recordAgentCard for the base URL.
FetchCard(c) ==
  /\ At(c, "connecting")
  /\ \E streaming \in {"yes", "no"} :
       LET known == [cards EXCEPT ![call[c].target.base] =
                       [streaming |-> streaming, error |-> FALSE]]
       IN  cards' = known /\ call' = Proceed(c, known)
  /\ UNCHANGED <<clock, registry, refreshes, given, restarts>>

\* A client is found in the pool or created from the card of the target; two
\* calls that miss create two.  Its creation fails the call.
CreateClientFails(c) ==
  /\ At(c, "connecting")
  /\ call' = Fails(c, "A2A_SDK_ERROR")
  /\ UNCHANGED <<clock, registry, catalog, given, restarts>>

\* The client is there, its card is not to be had.
FetchCardFails(c) ==
  /\ At(c, "connecting")
  /\ call' = Proceed(c, cards)
  /\ UNCHANGED <<clock, registry, catalog, given, restarts>>

-----------------------------------------------------------------------------
(* Answers, and the binding of handles (bindTaskContext).                  *)

CanBind(taskId, handle) == taskId # None /\ handle = None => created < MaxHandles

\* Variant: the next handle gets the name of this one.
BindUncounted(target, taskId, contextId, handle) ==
  IF taskId = None
    THEN [entries |-> entries, created |-> created, handle |-> handle, error |-> None]
  ELSE IF handle = None
    THEN [entries |-> Create(entries, created + 1, target, taskId, contextId, clock),
          created |-> created, handle |-> created + 1, error |-> None]
    ELSE [entries |-> Refresh(entries, handle, target, taskId, contextId, clock),
          created |-> created, handle |-> handle,
          error |-> IF Live(entries, handle, clock) THEN None
                    ELSE LookupError(entries, handle, clock)]

\* The registry, the handle and the error after binding.  A handle that is
\* gone by now makes the call fail.
Bind(target, taskId, contextId, handle) ==
  IF taskId = None
    THEN [entries |-> entries, created |-> created, handle |-> handle, error |-> None]
  ELSE IF handle = None
    THEN [entries |-> Create(entries, created + 1, target, taskId, contextId, clock),
          created |-> created + 1, handle |-> created + 1, error |-> None]
    ELSE [entries |-> Refresh(entries, handle, target, taskId, contextId, clock),
          created |-> created, handle |-> handle,
          error |-> IF Live(entries, handle, clock) THEN None
                    ELSE LookupError(entries, handle, clock)]

\* The task and the context an answer names.
NamedTasks(c) ==
  IF call[c].taskId = None \/ MayRename THEN Tasks ELSE {call[c].taskId}
NamedContexts(c) ==
  IF call[c].contextId = None \/ MayRename THEN Contexts ELSE {call[c].contextId}

\* The answer to a message: a task, or a message, which need not name a task or
\* a context.
Answers(c) ==
  [kind : {"task"}, taskId : NamedTasks(c), contextId : NamedContexts(c)]
    \union [kind : {"message"}, taskId : NamedTasks(c) \union {None},
            contextId : NamedContexts(c) \union {None}]

\* mergeTaskContext: what the answer does not say stays as it was.
MergedTask(c, taskId) == Given(taskId, call[c].taskId)
MergedContext(c, contextId) == Given(contextId, call[c].contextId)

\* The agent is told how to go on, if there is a task or a conversation.
Tells(target, taskId, contextId, handle) ==
  given' = given \union
    (IF taskId = None /\ contextId = None THEN {}
     ELSE {Continuation(target, taskId, contextId, handle)})

\* Binds the task and the context for the call.
Binds(c, taskId, contextId) ==
  LET bound == Bind(call[c].target, taskId, contextId, call[c].handle)
  IN  /\ CanBind(taskId, call[c].handle)
      /\ entries' = bound.entries
      /\ created' = bound.created
      /\ bindings' = bindings \union
           {b \in {[handle |-> bound.handle, taskId |-> taskId, contextId |-> contextId]} :
              taskId # None /\ bound.error = None}

\* The call goes to pc with the continuation told to the agent, or fails when
\* the handle is gone; the context it goes on with may be newer than the bound.
BindsAndGoes(c, taskId, bound, contextId, pc, events) ==
  LET binding == Bind(call[c].target, taskId, bound, call[c].handle)
  IN  /\ Binds(c, taskId, bound)
      /\ IF binding.error # None
           THEN call' = Fails(c, binding.error) /\ UNCHANGED given
           ELSE /\ call' = IF pc = "answered"
                             THEN Finishes(c, taskId, contextId, binding.handle)
                           ELSE [call EXCEPT ![c] =
                                  [@ EXCEPT !.pc = pc, !.taskId = taskId,
                                            !.contextId = contextId,
                                            !.handle = binding.handle, !.events = events]]
                /\ Tells(call[c].target, taskId, contextId, binding.handle)

\* After the task of a strict stream was bound: a task that ended is the
\* answer, otherwise the task is watched if the peer streams.
StrictStreamGoes(c, answer, terminal) ==
  LET binding == Bind(call[c].target, answer.taskId, answer.contextId, call[c].handle)
  IN  IF /\ ~terminal /\ binding.error = None
         /\ StreamingRefused(call[c].target.base, cards)
        THEN /\ Binds(c, answer.taskId, answer.contextId)
             /\ call' = Fails(c, "STREAMING_NOT_SUPPORTED")
             /\ Tells(call[c].target, answer.taskId, answer.contextId, binding.handle)
        ELSE BindsAndGoes(c, answer.taskId, answer.contextId, answer.contextId,
                          IF terminal THEN "answered" ELSE "streaming", 0)

\* The answer to message/send.
SendAnswer(c) ==
  /\ At(c, "requesting") /\ call[c].action \in Sending
  /\ \E answer \in Answers(c) :
       \/ /\ call[c].action \in Strict /\ answer.kind = "message"
          /\ call' = Fails(c, "TASK_REQUIRED_BUT_MESSAGE_RETURNED")
          /\ UNCHANGED <<registry, given>>
       \/ /\ call[c].action = "strict_stream" /\ answer.kind = "task"
          /\ \E terminal \in BOOLEAN : StrictStreamGoes(c, answer, terminal)
       \/ /\ \/ call[c].action \notin Strict
             \/ call[c].action = "strict_send" /\ answer.kind = "task"
          /\ LET contextId == MergedContext(c, answer.contextId)
             IN  BindsAndGoes(c, MergedTask(c, answer.taskId), contextId, contextId,
                              "answered", 0)
  /\ UNCHANGED <<clock, catalog, restarts>>

\* The answer to tasks/get or tasks/cancel, the task that was asked for.
TaskAnswer(c) ==
  /\ At(c, "requesting") /\ call[c].action \notin Sending
  /\ \E contextId \in NamedContexts(c) :
       BindsAndGoes(c, call[c].taskId, contextId, contextId, "answered", 0)
  /\ UNCHANGED <<clock, catalog, restarts>>

\* An event of message/stream: of one task, named by the first event if at all.
\* What it names is bound.
SendStreamEvent(c) ==
  \E taskId \in IF call[c].events = 0 THEN NamedTasks(c) \union {None} ELSE {None},
     contextId \in NamedContexts(c) \union {None} :
    LET merged == MergedContext(c, contextId)
    IN  BindsAndGoes(c, MergedTask(c, taskId), merged, merged, "streaming",
                     call[c].events + 1)

\* An event of tasks/resubscribe, of the task that is watched.  The handle is
\* bound with what earlier events named; the agent is told what this one names.
WatchEvent(c) ==
  \E contextId \in NamedContexts(c) \union {None} :
    BindsAndGoes(c, call[c].taskId, call[c].contextId, MergedContext(c, contextId),
                 "streaming", call[c].events + 1)

\* An event of a stream.  (The first event of a strict stream is skipped when it
\* repeats the task.)
StreamEvent(c) ==
  /\ At(c, "streaming")
  /\ call[c].events < MaxEvents
  /\ IF call[c].action = "stream" THEN SendStreamEvent(c) ELSE WatchEvent(c)
  /\ UNCHANGED <<clock, catalog, restarts>>

\* Variant: the end of a stream does not bind the handle again.
StreamEndUnbound(c) ==
  /\ At(c, "streaming")
  /\ call' = IF call[c].events = 0
               THEN Fails(c, "A2A_SDK_ERROR")
             ELSE Finishes(c, call[c].taskId, call[c].contextId, call[c].handle)
  /\ UNCHANGED <<clock, registry, catalog, given, restarts>>

\* The end of a stream.  A stream without events of its own is an error; a
\* strict one is not bound again.
StreamEnd(c) ==
  /\ At(c, "streaming")
  /\ \/ /\ call[c].events = 0
        /\ call' = Fails(c, "A2A_SDK_ERROR")
        /\ UNCHANGED <<registry, given>>
     \/ /\ call[c].events > 0 /\ call[c].action = "strict_stream"
        /\ call' = Finishes(c, call[c].taskId, call[c].contextId, call[c].handle)
        /\ UNCHANGED <<registry, given>>
     \/ /\ call[c].events > 0 /\ call[c].action # "strict_stream"
        /\ BindsAndGoes(c, call[c].taskId, call[c].contextId, call[c].contextId,
                        "answered", call[c].events)
  /\ UNCHANGED <<clock, catalog, restarts>>

\* The request, or its stream, fails or runs into timeout_ms.
RequestFails(c) ==
  /\ At(c, "requesting") \/ At(c, "streaming")
  /\ call' = Fails(c, "A2A_SDK_ERROR")
  /\ UNCHANGED <<clock, registry, catalog, given, restarts>>

-----------------------------------------------------------------------------
(* The catalog: list_targets and the refreshes it shares.                  *)

ConfiguredBases == {t.base : t \in Configured}
Uncached == {b \in ConfiguredBases : cards[b] = None}

\* Variant: a call waits for the refreshes it starts itself.
ListTargetsUnshared(c) ==
  LET started == {b \in Uncached : ~refreshes[b]}
  IN  /\ CanBegin(c) /\ "list_targets" \in ActionsOf[c]
      /\ refreshes' = [b \in Bases |-> refreshes[b] \/ b \in started]
      /\ call' = [call EXCEPT ![c] = [Idle EXCEPT !.pc = "listing", !.waits = started,
                                                  !.action = "list_targets"]]
      /\ UNCHANGED <<clock, registry, cards, given, restarts>>

\* hydrateAllConfigured: a base URL without a card is refreshed, once for all
\* that wait for it, by its first target.
ListTargets(c) ==
  LET started == {b \in Uncached : ~refreshes[b]}
  IN  /\ CanBegin(c) /\ "list_targets" \in ActionsOf[c]
      /\ refreshes' = [b \in Bases |-> refreshes[b] \/ b \in started]
      /\ call' = [call EXCEPT ![c] = [Idle EXCEPT !.pc = "listing", !.waits = Uncached,
                                                  !.action = "list_targets"]]
      /\ UNCHANGED <<clock, registry, cards, given, restarts>>

\* A refresh replaces whatever was recorded since it began; one that fails
\* leaves an empty card with the error.
RefreshEnds(b) ==
  /\ refreshes[b]
  /\ \/ /\ \E streaming \in {"yes", "no"} :
             cards' = [cards EXCEPT ![b] = [streaming |-> streaming, error |-> FALSE]]
     \/ cards' = [cards EXCEPT ![b] = [streaming |-> "unknown", error |-> TRUE]]
  /\ refreshes' = [refreshes EXCEPT ![b] = FALSE]
  /\ UNCHANGED <<clock, registry, call, given, restarts>>

ListTargetsEnds(c) ==
  /\ At(c, "listing")
  /\ \A b \in call[c].waits : ~refreshes[b]
  /\ call' = Goes(c, "answered")
  /\ UNCHANGED <<clock, registry, catalog, given, restarts>>

-----------------------------------------------------------------------------
Tick ==
  /\ clock + restarts < MaxUpsets
  /\ clock' = clock + 1
  /\ UNCHANGED <<registry, catalog, call, given, restarts>>

\* The process is gone with all it had in memory; a new handle is never one of
\* the old ones.
Restart ==
  /\ clock + restarts < MaxUpsets
  /\ restarts' = restarts + 1
  /\ entries' = NoEntries
  /\ cards' = [b \in Bases |-> None]
  /\ refreshes' = [b \in Bases |-> FALSE]
  /\ call' = [c \in Calls |-> IF call[c].pc \in Ended \union {"idle"} THEN call[c]
                               ELSE [Idle EXCEPT !.pc = "lost"]]
  /\ UNCHANGED <<clock, created, given, bindings>>

Init ==
  /\ clock = 0
  /\ entries = NoEntries
  /\ created = 0
  /\ cards = [b \in Bases |-> None]
  /\ refreshes = [b \in Bases |-> FALSE]
  /\ call = [c \in Calls |-> Idle]
  /\ given = {}
  /\ bindings = {}
  /\ restarts = 0

Next ==
  \/ \E c \in Calls :
       \/ Begin(c) \/ CreateClientFails(c) \/ FetchCard(c) \/ FetchCardFails(c)
       \/ SendAnswer(c) \/ TaskAnswer(c) \/ StreamEvent(c) \/ StreamEnd(c) \/ RequestFails(c)
       \/ ListTargets(c) \/ ListTargetsEnds(c)
  \/ \E b \in Bases : RefreshEnds(b)
  \/ Tick
  \/ Restart

Spec == Init /\ [][Next]_vars

-----------------------------------------------------------------------------
Pcs == {"idle", "connecting", "requesting", "streaming", "listing"}
         \union Ended

Continuations == [target : Targets, taskId : Tasks \union {None},
                  contextId : Contexts \union {None}, handle : Handles \union {None}]
CallRecords ==
  [pc : Pcs, action : AllActions \union {"none"},
   continuation : Continuations \union {None}, target : Targets \union {None},
   taskId : Tasks \union {None}, contextId : Contexts \union {None}, handle : Handles \union {None},
   waits : SUBSET Bases, events : 0..MaxEvents, sent : BOOLEAN,
   error : Errors \union {None}]

\* Every variable holds a value of its shape, and a handle that was not
\* created yet names nothing.
TypeOK ==
  /\ clock \in Nat /\ restarts \in Nat /\ clock + restarts <= MaxUpsets
  /\ entries \in [Handles -> Records \union {None}]
  /\ created \in 0..MaxHandles
  /\ \A h \in Handles : h > created => entries[h] = None
  /\ cards \in [Bases -> CardRecords \union {None}]
  /\ refreshes \in [Bases -> BOOLEAN]
  /\ call \in [Calls -> CallRecords]
  /\ given \subseteq Continuations
  /\ bindings \subseteq [handle : Handles, taskId : Tasks, contextId : Contexts \union {None}]

Answered(c) == call[c].pc # "answered" /\ call'[c].pc = "answered"

\* A call with a continuation asks the peer and the task the continuation
\* names, in the conversation it names, whether its handle is live, expired,
\* evicted or lost in a restart, and whatever other calls did to it meanwhile.
RoutedAsContinued ==
  [][\A c \in Calls :
       LET k == call[c].continuation
       IN  ~call[c].sent /\ call'[c].sent /\ k # None =>
             /\ call'[c].target = k.target
             /\ call'[c].taskId = k.taskId
             /\ call'[c].contextId = k.contextId \/ k.contextId = None]_vars

\* A continuation the agent was given and passes on (one of a conversation
\* only to send) is refused before the peer was asked only if its handle was
\* bound, by some call and at some time, to another task or another conversation
\* than it names: never because the handle expired, was evicted or was lost in
\* a restart.
ContinuationsHonoured ==
  \A c \in Calls :
    LET k == call[c].continuation
    IN  /\ call[c].pc = "failed" /\ k # None /\ ~call[c].sent
        /\ k.taskId # None \/ call[c].action \in Sending
        => \/ call[c].error \in {"A2A_SDK_ERROR", "STREAMING_NOT_SUPPORTED"}
           \/ /\ call[c].error = "VALIDATION_ERROR"
              /\ \E b \in bindings :
                   /\ b.handle = k.handle
                   /\ b.taskId # k.taskId \/ Differ(b.contextId, k.contextId)

\* A handle reported with a task names, at that moment, this task at the peer
\* that was asked, and the conversation that is reported, and has not expired.
\* (The end of a strict stream does not bind its handle again.)
AnsweredHandleUsable ==
  [][\A c \in Calls :
       /\ Answered(c) /\ call'[c].taskId # None
       /\ call[c].pc = "streaming" => call[c].action # "strict_stream"
       => LET h == call'[c].handle
          IN  /\ h # None /\ Live(entries', h, clock)
              /\ entries'[h].taskId = call'[c].taskId
              /\ entries'[h].target = call'[c].target
              /\ call'[c].contextId \in {None, entries'[h].contextId}]_vars

\* A handle never moves to another peer, through any mixture of handles,
\* continuations and explicit targets.
HandleTargetKept ==
  [][\A h \in Handles :
       entries[h] # None /\ entries'[h] # None =>
         entries'[h].target = entries[h].target]_vars

\* A handle that has not expired leaves the registry only in a restart, or
\* when as many handles as the registry may hold were used since.
LiveHandlesKept ==
  [][\A h \in Handles :
       Live(entries, h, clock) /\ entries'[h] = None /\ restarts' = restarts =>
         Cardinality({g \in Present(entries') :
           entries'[g].lastAccessedAt >= entries[h].lastAccessedAt}) >= MaxEntries]_vars

\* list_targets answers when the card of every configured target is known or
\* has an error, also when another call does the refresh.
ListedTargetsKnown ==
  [][\A c \in Calls :
       Answered(c) /\ call[c].action = "list_targets" =>
         \A b \in ConfiguredBases : cards[b] # None]_vars
=============================================================================
