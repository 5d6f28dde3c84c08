# Formal models of the OpenClaw A2A plugins

TLA+ models of the two plugins of this repository, checked with TLC and in large
part proved with TLAPS.  `openclaw-a2a-inbound` serves an OpenClaw account as an
A2A agent; `openclaw-a2a-outbound` calls remote agents on behalf of OpenClaw.  The
core of the inbound side is its task runtime: tasks are committed to a store,
executions publish on a bus, and requests of several clients meet on the same
task.  The core of the outbound side is the task handle: calls that overlap
create, use and refresh names of remote tasks while those expire and are
evicted.

Paths below are relative to `packages/openclaw-a2a-inbound/src` unless they
start with `outbound/` (`packages/openclaw-a2a-outbound/src`).

## Inventory

| Component | State it keeps | Operations | Interacts with | Hard behaviour | What makes it correct | Modelled by |
|---|---|---|---|---|---|---|
| Task store (`task-store.ts`) | records per task, promise chain per task, pending bindings, subscriptions and listener sets | load, save, commitEvent, persistIncomingMessage, bindings, subscribe, prepareResubscribe, close | backend files, request handler, executor, planner, queued replies | every operation awaits the file system; writes fail; the process dies; tails open and close between commits | one at a time in call order; no update lost; acknowledged events survive; tails equal the journal behind their snapshot | `TaskStore` |
| Writer lock (`task-store-write-lock.ts`) | lock file, `HELD_LOCKS` of the process | acquire, release, reclaim, clean-up on signals | json-file backend, other processes | dead owners, half-written payloads, age, termination signals that the host survives | one process writes a directory; a dead owner blocks nobody for ever | `WriterLock` |
| Plugin host (`plugin-host.ts`) | active accounts | startAccount, stopAccount, routing of requests | gateway, server, lock | the account is aborted while its server is created; starts overlap | a stopped account has no running server and no lock | `PluginHost` |
| Request handler (`request-handler.ts`) | one `PreparedExecution` per send | message/send, message/stream, tasks/cancel, tasks/resubscribe | store, registry, executor | checks before awaits, results after them | requests are answered; a task that ended stays ended | `TaskLifecycle` |
| Coordinator (`task-execution-coordinator.ts`) | promoted, working, paused, final, cancelRequested, stages | run, assistant, tool and lifecycle events, finalize, cancel | event bus, registry | publishes before earlier events are committed; pause, cancel and shutdown race with the end; text arrives as deltas, whole texts or both | statuses in order; the end tells why it ended; the artifacts show the text last told | `TaskLifecycle`, `AssistantOutput` |
| Executor (`openclaw-executor.ts`) | none | execute, cancelTask | host dispatcher, store bindings | errors at any step | the bus is finished on every path | `TaskLifecycle` |
| Live registry (`live-execution-registry.ts`) | executions by task, modes by messageId | activate, cleanup, requestCancellation, shutdownAll | handler, coordinator, planner | two executions on one task | it names executions that are running | `TaskLifecycle` |
| Resubscribe planner (`resubscribe-planner.ts`) | none | prepare | registry, store | liveness is read before the store is asked | every resubscription ends | `TaskLifecycle` |
| Inbound server (`a2a-server.ts`) | the components above | HTTP dispatch, deliverQueuedReply, close | host | close with requests under way | queued replies reach the task | `TaskLifecycle`, `PluginHost` |
| Response mapping (`response-mapping.ts`) | none | what of a reply is text, acceptable, appended | coordinator | - | an append extends what was published | `TaskRecord`, `AssistantOutput` |
| Session routing, configuration, channel | none | pure conversions | - | - | - | - |
| Outbound service (`outbound/service.ts`) | none of its own | list_targets, send, watch, status, cancel | handle registry, client pool, catalog | remote call between resolve and refresh of a handle; answers that name another task or context | a handle keeps its peer; a continuation leads to the task and the conversation it names, or is refused before the peer is asked | `RemoteAgent` |
| Handle registry (`outbound/task-handle-registry.ts`) | handles with expiry and last access | create, resolve, refresh | service | expiry and eviction during a call | bounded; recently used handles survive | `TaskHandles` |
| Catalog and client pool (`outbound/target-catalog.ts`, `outbound/sdk-client-pool.ts`) | card cache, refreshes in flight, clients | hydrate, resolve, record, get | remote peers | shared refresh, late failures | every configured target is listed with a card or an error | `RemoteAgent` |
| Schemas and results (`outbound/schemas.ts`, `outbound/result-shape.ts`) | none | validation, continuation, task accumulated from a stream | service | - | a continuation names what the call left open | `RemoteAgent` |
| Outbound configuration, CLI, demo peer | none | parsing, fixtures | - | - | - | - |

`PROJECT.json` lists the hazards at their lines with the properties that guard
them, and what no property guards yet.

## Modules

| Module | What it is |
|---|---|
| `TaskRecord` | task states, stored records and the pure functions on them: `ensureHistoryContainsMessage`, `mergeStatus`, `mergeArtifact`, what the record parser accepts |
| `TaskStore` | `A2ATaskRuntimeStore` over either backend |
| `CommittedLog` | abstract specification: one snapshot and one growing log per task, each operation in one step |
| `TaskStoreRefinement` | the mapping under which `TaskStore` implements `CommittedLog` |
| `TaskLifecycle` | requests, executions, registry and planner over the committed log |
| `AssistantOutput` | one execution's stages, deltas and artifacts, and what client and journal make of them |
| `WriterLock` | the lock file, shared by processes and by the stores of a process |
| `PluginHost` | accounts started, stopped and aborted, over `WriterLock` |
| `TaskHandles` | the handle registry as functions of its entries, the time and the last use |
| `RemoteAgent` | calls of the outbound tool over `TaskHandles`, the catalog and the remote peers |
| `TaskStoreProofs` | types, queue order and journal order of `TaskStore` |
| `TaskStoreCommitProofs` | acknowledged events, reads, bindings |
| `TaskStoreTailProofs` | tails reachable and faithful |
| `TaskStoreRefinementProofs` | `TaskStore` implements `CommittedLog` |
| `TaskLifecycleProofs` | every safety property of `TaskLifecycle` that holds |
| `AssistantOutputProofs` | every property of `AssistantOutput` |
| `PluginHostProofs` | the lock and the host: what holds always, and the single writer under its conditions |
| `RemoteAgentProofs` | what eviction bounds and keeps, and every property of `RemoteAgent` |
| `MC...` | instances for TLC |

### TaskStore

A call appends an operation record to `ops` and becomes the `tail` of its
task's promise chain (`enqueueByTask`).  `LoadRecord`, `SaveRecord`,
`RenameRecord` and `FinishCommit` are the stretches of its body between two
awaits; a record on its way is kept in the operation, as it is in the closure.
For `json-file`, `SaveRecord` writes the temporary file and `RenameRecord`
makes it the record; for `memory` the record is stored at once.  `LoadFails`
and `SaveFails` are the rejections of the file system.  Tails are kept twice,
as in the code: the store's listener set for the task, and the buffer, the
waiting consumer and the events delivered of each subscription.  `bound` is a
history variable: the binding accepted last.  An event is identified by the
commit call it came with.

`Close` drops subscriptions and bindings and lets queued operations run on, as
the code does.  `Crash` loses the queue and memory, keeps the files and lets a
new store open the directory.

### TaskLifecycle

Tasks are the committed state that `TaskStore` was shown to provide: every store
call is one atomic step here, and a new task is named after the send that
creates it.  `exec[e]` joins the request and the coordinator it starts; `bus` is
what was published and not committed yet.  Coordinator handlers are functions
from its state to its next state (`PromoteToTask`, `FinalizeSuccess`, ...), and
`Coordinate` applies what they do to the registry: activation on promotion,
clean-up at the final status and at a pause.  Agent events arrive at any time
during the run.  The text of assistant messages is abstracted to whether the
negotiated output modes show it, refuse it or find it blank; an assistant
message, a tool call and a queued reply are one artifact id each.  Assistant
messages may or may not be told by events of the run; a tool event always is (a
tool reply of the dispatcher, which captures no run id, is not told apart).  A
follow-up whose task is not found, or does not fit the request (context,
binding), is refused.  An error -32005 of the run (output the requester does not
accept) goes on to the client, behind the failed status of a task that was
promoted.  A cancel is modelled from await to await: the loads and checks,
`subscribeToCommittedTail`, the abort, the wait on the tail and the last load.

### AssistantOutput

One execution.  OpenClaw tells what the assistant says through callbacks that
need not agree: events of the assistant stream (the whole text so far or only what
is new), block replies and final replies; message starts, tool results, tool
progress, a lifecycle error and a cancel come in between, in any order.  A text
is a sequence over `Chars`, which is all the code asks of it (`startsWith`, `trim`,
concatenation).  Each callback is one action that runs to its end, as the handlers
of the coordinator do; the coordinator is the record `run`, and an operator takes
it to what it is after the method of that name.  What a handler publishes is
merged into the stored artifacts at once (`Merge`, the store's `mergeArtifact`) and,
from the moment a client joins (`Watch`), into what that client accumulates
(`Accumulate`, `applyArtifactUpdate` of the outbound plugin).  `Microtask` runs
the flush that `queueMicrotask` holds back.  Text that the requester's output
modes refuse makes a handler throw; `thrown` skips the rest of that handler, and
OpenClaw may swallow it or let it end the run, so that `FinalizeError` is possible
at any time.

Of a follow-up (`followUp`) the model shows what the earlier turn left behind:
the execution starts at `assistant-output-0001` again (`Earlier` is that artifact)
and replaces the artifact of the earlier turn, in the code as in `Merge`.
A delta that happens to begin with the whole preview is taken for a cumulative
text; that is how the code tells the two apart, and `ArtifactsShowStages`
speaks of the text as the coordinator understood it.

### WriterLock and PluginHost

Each action of `WriterLock` is one call of the file system and the code up to
the next one.  A process stands for one life of a host process.  The payload
carries the start time (Linux), so that a recycled pid is told from the
owner's; `Stale` then means dead or older than thirty minutes.  `Age` lets that
time pass only for a lock left behind, unless `MayOutlive` is set.  `GivesUp` is
the timeout of an acquire and any other error of the file system.

A termination signal makes the process remove its lock files and clear
`HELD_LOCKS`.  It then dies (`Die`, which may also be a crash that removes nothing),
unless somebody else listens for the signal: then the handler returns
(`task-store-write-lock.ts:273`) and the process goes on with its stores open and no
lock (`Signal`, for the processes in `MaySurvive`).  Two history variables say
what that took: `lost`, the stores that were open then, and `overtaken`, that a
signal came while its process was in the `rm` of a release, which may now hit the
lock of the next owner.  The properties except exactly these.  A reclaim
whose `rm` fails ends the acquire (`GivesUp`); everywhere else the code swallows the
error and the model takes the removal to succeed.

`PluginHost` runs the lock as the plugin does.  The stores that contend are the
servers of successive `startAccount` calls of one account: the configuration
rejects two accounts with one directory.  A start awaits the lock, then the rest
of `createA2AInboundServer`, then registers its server, and from there waits for
its abort signal; an abort may come before, between or after those steps, and
each place is an early return of its own.  A failed start releases what it
took.  `HostSignal` leaves the host and its server as they are.  Overlapping
starts of one account (`MayOverlap`) lose the server that was registered first,
as the code does; `overlapped` records the account and the properties say so.
`handleHttpRoute` reads the table and changes nothing.

### TaskHandles and RemoteAgent

`TaskHandles` has the registry's three operations and its eviction as functions
from entries to entries: `PruneExpired`, then the entries used least recently
until there is room.  A handle is drawn fresh by `randomUUID`; here the next
number stands for it.

`RemoteAgent` has one record per call.  A call of the tool resolves its target
and its handle, awaits the peer's card where it needs it, awaits the peer, and
takes what came as its result, its continuation and the handle it creates or
refreshes; one action is the code between two awaits.  The peer is external: it
answers with a message, with a task in any state, with a stream of events that
ends early, or not at all until the timeout, and may name another task or
another context than it was asked about (`MayRename`).  Calls overlap; between
two awaits of one the others run, time passes (`Tick`) and the process may
restart, which loses handles and cards.  `given` is every continuation the agent
was told, with a task or of a conversation only; it may pass one on verbatim
(`Continued`) or name its handle, task and context by hand (`ByHand`).  A call
keeps the `continuation` it follows until its request is sent.  `bindings` is a
history variable: what each handle was ever bound to. `RouteContinuation` and
`RouteHandle` make the comparisons of `resolveTaskContext`: task, target and,
where both sides name one, context.  `Tick` and `Restart` share one bound,
`MaxUpsets`.  `status` and `cancel` differ only in the request the peer gets and
share `TaskAnswer`.

## Runs

Times are with two workers.

| Run | Shows | Bounds |
|---|---|---|
| `store_file` (1 min) | `TypeOK`, `FifoPerTask`, `AcknowledgedEventsStored`, `ReadsSeeEarlierCommits`, `BindingKept`, and `ImplementsCommittedLog`, with reads and writes that fail | 3 calls of any of the 7 kinds, 1 task, 1 tail, 1 crash |
| `store_memory` (10 s) | `JournalInOrder`; tails deliver exactly the journal behind their snapshot, whatever tails close and reopen (`TailsFaithful`, `TailsReachable`, `TailsDeliver`); calls settle | 3 calls, 2 tails |
| `lifecycle_contended` (2 min) | the registry names running executions, statuses come in order, the final state matches the abort, ended tasks stay ended | a send, a follow-up on its task, a cancel, pauses, 1 agent event each |
| `lifecycle_single` (70 s) | a live execution can be found, commits never meet an unknown task, direct answers leave no task, blocking answers are settled | 1 send in both modes, 1 cancel, 1 resubscription, 1 queued reply, close, crash, 2 agent events |
| `lifecycle_live` (45 s) | sends, cancels and resubscriptions end | the same without pauses, replies and close |
| `account_host` (30 s) | one writer and its file in place, but for stores whose lock a survived signal took; stores counted; a server the host knows is open, an aborted start leaves none open, starts end | 2 processes, both may survive signals, 2 starts on the one that may die, 1 on the other; starts may overlap |
| `outbound_calls` (3 min) | continuations lead to the peer, the task and the conversation they name, or are refused before the peer is asked because their handle was bound to another task or conversation; a handle answered is live and names the task and the conversation of the answer; a handle keeps its peer (its task may change, by an answer that names another); a live handle is evicted only for as many others as there is room for; `list_targets` answers when every configured target has a card or an error | 3 calls, 2 under way, 2 tasks, 2 contexts, 2 targets at one base URL, 3 handles, room for 2 entries, 1 event, one tick or one restart |
| `artifact_stream` (20 s) | the artifacts show the stages' text; journal and streaming client end with the same artifacts; a completed task shows the reply | 4 callbacks |

Three calls are the least with which a call overtakes, fails under or reads
between two others of its task; a second task shares nothing with the first but
the tables that are indexed by task.  Two sends are the least that contend for
one task, and an execution needs two agent events for a second assistant message
or a tool call behind a message.  Outbound, three calls are one that makes a
handle, one that uses it and one that evicts it meanwhile; room for two entries
makes the third handle evict.  `send` with a required task and without streaming
(`strict_send`) is in the module and its theorems, not in the instance: it
differs from the streaming one in the method called and in ending with the
answer.  With one tick the recency that eviction goes by is hardly more than the
order of creation: `LiveHandlesCorrect` covers the rest.  Four callbacks are a
text, its replacement, an interruption and the final reply.  The only caps are
those constants named `Max...` and the sets of stores; the bounded systems stop,
which is why deadlock is not checked.

### Disagreements the runs show

Each of these runs is expected to end in a counterexample.

- `cancel_meets_pause`: a cancel that found its execution live waits for a
  final status for ever when the execution pauses for approval first.  README.md:235
  of the package: "quiescent tasks are canceled immediately".
- `terminal_overwritten`: a follow-up that passed the check of the task's state
  just before the task ended brings it back to submitted, against the error it
  otherwise gets (`request-handler.ts:524`).  `EndedTaskStaysEnded` is what
  does hold: a task that ended with no request under way stays as it is.
- `queued_reply_lost`: a queued reply that is committed between a follow-up's
  `persistIncomingMessage` and its first snapshot vanishes from the task, against
  README.md:115.
- `lock_outlives_stale`: a store open for more than thirty minutes loses its
  directory to the next process, against "a single-writer JSON file directory"
  (`config.ts:250`).

`SingleWriter` holds in `account_host` with one waiter for the lock of a dead
process.  With two, the second may remove the lock the first has just created
(inspected before, removed after); the hazards list it.  The model knows four
ways to two writers: this one, a holder that outlives `staleMs`
(`lock_outlives_stale`), a store that was open at a termination signal its
process survived, and a removal of the lock file that such a signal overtook.
`ReclaimsAloneWrite` (below) proves that it has no other.  Removals that
fail silently are outside the model.

Two more are told in prose only.  The first is about a choice the service makes
per call: outbound README.md:158 says that an expired or unavailable nested
handle makes the plugin fall back to the fields beside it.  That is so when the
handle is resolved; a handle that expires or is evicted during the remote call
fails the call at its refresh (`outbound/service.ts:828`), although the peer has
done what it was asked.  `ContinuationsHonoured` states what does hold before
the peer is asked.  The second is a context that changes under a watch: each
event binds the handle before the event is taken over
(`outbound/service.ts:957`), so that an update may tell the agent a continuation
with the event's context while the handle is bound with the one before.  If the
stream then fails, this continuation is refused when it is passed on verbatim;
`ContinuationsHonoured` allows it, since the handle was bound to another
conversation.

## Fairness

`TaskStore`: the event loop runs every callback that is ready and the file
system answers each call with a result or an error (`StoreFairness`, weak);
a consumer keeps reading its tail (`ReaderFairness`).  Nothing is assumed of
callers, `Close` or `Crash`.  `TaskLifecycle`: continuations of a request run,
and the dispatcher of the host returns or throws; agent events, pauses and new
requests need never come.  `WriterLock` and `PluginHost`: file-system calls
return, the code behind an await runs, the gateway aborts every start some time
and time goes by; that an attempt times out is not assumed.  `RemoteAgent` and
`AssistantOutput` assume nothing and have no liveness property: a remote peer
need not answer a request for its card, which `timeout_ms` does not
cover, and OpenClaw need not call again.

## Proofs

Everything below is proved for every set of tasks, messages, events, bindings,
peers and calls and any bounds.  The assumptions are on constants only:
`NoneAssumption` and `StoreAssumption` (a value outside the data stands for
`undefined`, bounds are natural), `ViewAssumption` (that value is no committed
state either), `LifecycleAssumption` and `RequestAssumption` (sends, cancels and
queued replies are told apart, `None` is none of the data), `RegistryAssumption`
and `RemoteAgentAssumption` (room for an entry, a positive time to live, targets
closed under the default card path), `LockAssumption` (finitely many stores,
each of one process, any of which may die or survive signals) and
`OutputAssumption` (texts are not empty, replies not blank, a white space
character).

### The store

The invariants are built up one layer at a time, each over those before it.

- `TypeCorrect`: the type invariant.
- `QueueCorrect`, `FifoCorrect`: `FifoPerTask` is not inductive, since it
  says nothing of operations that have not started.  `QueueInv` adds what the
  promise chain is: an operation's `prev` is an earlier one of its task
  (`PrevIsEarlier`) and the latest that had not settled and left the chain
  (`PrevIsLatest`); so is the entry in `taskQueues` (`TailIsLatest`); and what
  started found everything before it settled (`StartedInOrder`).  The clean-up
  of a queue's entry is the interesting case: it may drop the entry only
  because whatever it dropped has settled.
- `JournalCorrect`: `JournalInOrder` needs to know the record an operation
  carries between its awaits.  `JournalInv` says that stored and carried records
  are numbered and in call order, and that a loaded record has no event of a
  later call; with `QueueInv` no other operation of the task can have written
  since it was loaded.
- `CommitCorrect`: `AcknowledgedEventsStored` follows from `CommitInv`.
  `WorksOnStored` says that the operation under way, alone on its task by
  `QueueInv`, holds the stored record or its successor, and `EventStored` that
  its event is in the journal exactly from the rename on.
- `ReadsCorrect`: `ReadInv` keeps, for a read that finished, that what was
  acknowledged before its call is in its result.
- `BindingCorrect`: `BindInv` follows the binding accepted last from pending,
  over the record carried, to the record stored (`Bears`, `Kept`,
  `PendingNeeded`).
- `ReachableCorrect`: inductive as it stands.
- `FaithfulCorrect`: `FaithInv` adds to `TailsFaithful` what an operation that has
  stored and not notified yet still owes each tail (`Told`).
- `Implements`: `Spec => ImplementsCommittedLog`.  `StoreInv` collects what the
  steps need.  The step that writes a record is a `Replace`, `Note`, `Bind` or
  `Commit` of the log, a subscription an `Open`, the end of a commit and the
  delivery to a waiting consumer a `Receive`, and closing the memory backend a
  `Forget`; every other step stutters.

### The life of tasks

`TaskLifecycleProofs` proves the nine safety properties of `TaskLifecycle` that
hold.  Eight follow from one inductive invariant, `IInv` (`InvariantHolds`), for any
number of sends, cancels, resubscriptions and queued replies on any tasks.

- Why it is needed: `StatusesInOrder` and `FinalMatchesAbort` speak of the log,
  but the coordinator only publishes, and the handler commits what was published
  much later, when the flags of the coordinator have moved on.  `IInv` therefore
  speaks of log and bus together.  What an execution published comes in order
  (`Before`), agrees with the coordinator's flags as they are now (`Tells`),
  and while it runs ranks no higher than the execution has come (`Ranked`,
  `Level`); an entry of the log precedes everything of its author that is still
  on the bus (`EntryOk`).
- A handler of the coordinator only extends the bus, by statuses that rank
  higher (`Extends`); the lemmas `PromoteKeeps`, `FinalKeeps`, `PauseKeeps`, ...
  say so of each of its functions, and `CoordinateKeeps` of what they do to the
  registry.  The handler of the request only moves the head of the bus to the
  log (`CommitKeeps`).  A final status stays true because an abort is recorded
  only while the execution has no final status (`AbortsKeep`).
- `RegisteredCorrect`: the registry is cleaned up in the step that pauses or
  ends an execution, and shut down as a whole (`RegistryOk`).  `LiveIsRegistered`
  is inductive over the rest of `IInv`.
- `CommitsCorrect`: a promoted execution whose task is not stored has the task's
  snapshot at the head of its bus (`Known`).
- `DirectCorrect`: whoever stored a task had been promoted (`LogOk`), and a
  promoted execution sends no direct message.
- `EndedCorrect`: an action property.  Every action that writes the state of a
  task, or that lets a request start on one, is shown to need a request already
  under way on it, or to check the state first (`WorksOn`, `RestKept`).

- `BlockingCorrect`: the answer of a blocking send is read from the log when the
  bus is drained, so it is settled only if the end or the pause of the
  execution was published (`Marks`: a handler that ends or pauses an execution
  publishes its status in the same step) and not overtaken in the log by
  anything of its own: either that status is still on the bus with nothing behind
  it that makes the task active again, or it was committed (`Rests`).  `SInv` adds
  this to `IInv` as `SettleOk`, for sends that have their task for themselves
  (`Own`), which is what the property speaks of.

### What an execution shows

`AssistantOutputProofs` proves the three properties of `AssistantOutput` from
`OInv` (`OutputInv`), for any texts and any number of stages and callbacks.

- `Basic` is about publishing alone and is kept by every operator on the
  coordinator, whatever it is called with and whether it throws: an artifact holds
  what its stage published last (`Shows`), the client holds what the store holds
  (`Agrees`), and nothing is published before there is a task (`Untold`).
  `ArtifactsCorrect` and `ViewsCorrect` are parts of it.  The step is
  `PublishTextStep`: the delta behind the published text, appended to it, is
  the text (`Continuation`), also when the artifact is that of an earlier
  execution.
- `OutcomeShowsReply` needs `Good`, which holds between callbacks: all stages but
  the current one are completed (`Past`); a completed stage that has something
  to show has shown it and is closed (`Settled`); before there is a task there
  is one stage at most, it is staged and not completed (`Early`); and a current
  stage that is completed shows nothing (`Quiet`, the state a refused final reply
  leaves).  One lemma per operator says what it keeps of `Good` (`FlushQueuedGood`,
  `PromoteGood`, `StageForReplyGood`, ...), one per callback that it keeps all of it
  (`MessageStartKept`, `ReplyKept`, ...), and `CompletedReply` and `DirectReply`
  that the two successful ends show the reply.

### The writer lock and the host

`PluginHostProofs` is about any number of processes, stores and accounts.

- `CountCorrect` holds without a condition: the entry of `HELD_LOCKS` counts the
  stores that share it, although entries, files and stores go apart when a file
  is reclaimed.  `CountInv` adds that an entry is named after a store of its own
  process (`EntriesOwned`) and that a death leaves nothing but the file
  (`DeadRest`).
- `SingleWriter` and `HolderHasFile` are false in general, as said above.
  `ReclaimsAloneWrite` proves them of every behaviour in which no holder
  outlives `staleMs` (`~MayOutlive`) and no two waiters are between the look at
  a stale lock and its removal (`ReclaimsAlone`).  Their statements except the
  stores in `lost` and all that follows a removal that was overtaken.  `LockInv`
  says that the file is the one of the entry or of the store that writes it
  (`OwnFiles`) and that every other open store has its share of the entry
  (`OwnEntries`), that a waiter about to reclaim looks at a lock whose owner is
  dead (`AbandonedLocks`), and that a store in `lost` shares no entry of its
  process any more (`LostStores`), so that its release touches no file. It is
  kept as long as no removal is overtaken; a signal keeps it because it takes
  file, entry and stores together.  `OneWaiterWrites` replaces the condition on
  the behaviour by one on the constants (`OneWaiter`: at most one store is there
  to wait for the lock of a process that may die), which the instance of
  `account_host` satisfies.
- `HostImplementsLock`: `HostSpec => Spec`.  The host never calls the lock in an
  order the lock does not expect, so every theorem of the lock is one of the host.
- `HostTypeCorrect`; and `ActiveServerWrites`, `OneWaiterServes`: the server
  that requests go to is open and, with the same exceptions for survived
  signals, the writer of its directory, under the two conditions.  `HostInv`
  says that a registered server's store is open, in the process it is registered
  in (`ActiveHolds`).

### The outbound calls

`RemoteAgentProofs` begins with the registry's operators: eviction leaves at
most `MaxEntries` (`EvictionBounds`), drops nothing used more recently than what
it keeps (`EvictionKeepsRecent`), and never the handle just bound
(`BoundHandleStays`).  It then proves all seven properties of `outbound_calls`.
None is inductive.  `ContinuationsHonoured` needs that whatever an entry holds,
and held, is among the `bindings` of its handle: then a comparison that fails
names the binding that made it fail (`BoundTo`).  `RoutedAsContinued` needs, for
every call that has not sent its request, that what it resolved is what its
continuation names (`CallOk`).  `HandleTargetKept` needs that calls and
continuations name the peer of their handle as long as the registry holds it,
which it does since handles are never reused (`GivenOk`, `RegistryOk`).
`LiveHandlesKept` needs that no entry was used in the future (`UsedOk`).

### What is model-checked only

Liveness (`CallsSettle`, `TailsDeliver`, `SendsAnswer`, `CancelsAnswer`,
`WatchersEnd`, `AbortedStartsClose`, `StartsEnd`), which is out of the prover's
reach.  `SingleWriter`, `HolderHasFile` and
`ActiveServerOpen` are proved under the conditions above, which they need.

## Not modelled

- Parsing of version 1 records and malformed files, `listTaskIds`, the layout of
  parts, statuses and summaries: no state, or wording only.
- Session routing, both configurations, the channel, the CLI, request
  normalization, capability diagnostics, logging: pure conversions that a table
  of unit tests covers.  The demo peer is a fixture.
- Commits that fail under an execution (`request-handler.ts:381`), errors that
  `execute()` throws outside its own `try`, retried messages with one
  `messageId`, reference tasks.
- A commit that writes after `close()` has released the lock
  (`task-store.ts:526`): store and lock are not composed.  For the same reason
  `lifecycle_live` does not close the server: a resubscription after `close()`
  opens a tail that never ends.
- Platforms without `/proc`, where a recycled pid cannot be told.
- A removal of the lock file that fails and is not reported: in a release, on a
  signal, after a payload that could not be written.
- Express and the agent card.

The A2A SDK (event bus, `ExecutionEventQueue`, client), the gateway and the host
(dispatcher, detached work) are external and modelled from how the code uses them.

## Plan

1. `TaskLifecycle`: failing commits and retried messages.
2. `TaskStore` composed with `WriterLock`: writes queued behind `close()`.
3. A theorem that joins `AssistantOutput` to `TaskLifecycle`: the events of one are
   those of the other, with their texts.
