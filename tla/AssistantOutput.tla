---------------------------- MODULE AssistantOutput ----------------------------
(***************************************************************************)
(* What an execution shows of the assistant: the stages of                 *)
(* A2ATaskExecutionCoordinator (task-execution-coordinator.ts), the        *)
(* artifact updates they are published as (response-mapping.ts), the       *)
(* artifacts the store merges them into (task-store.ts), and those a       *)
(* client of the outbound plugin that joined at some moment accumulates    *)
(* from the stream (result-shape.ts).                                      *)
(*                                                                         *)
(* TaskLifecycle has the statuses, the tails and what interleaves with an  *)
(* execution; here an event is stored and delivered as it is published.    *)
(* One action is one callback of OpenClaw, or the microtask it queued.     *)
(* Text is a sequence of characters, Space being white space.  Parts are   *)
(* text parts, and an artifact is their text: media and vendor content     *)
(* never become parts, they only count as content that was there           *)
(* (hasCandidates).                                                        *)
(***************************************************************************)
EXTENDS Integers, SequencesExt

CONSTANTS
  Chars,      \* characters
  Streamed,   \* texts of assistant events, cumulative or deltas
  Replies,    \* texts of block and final replies, never blank
  Space,      \* the white space character
  MaxEvents,  \* bound on the callbacks
  None

Texts == Seq(Chars)

ASSUME OutputAssumption ==
  /\ Space \in Chars /\ None \notin Texts
  /\ Streamed \union Replies \subseteq Texts
  /\ <<>> \notin Streamed \union Replies
  /\ \A t \in Replies : \E i \in DOMAIN t : t[i] # Space
  /\ MaxEvents \in Nat

VARIABLES
  input,      \* the request: what decides how the execution begins
  run,        \* the coordinator, and where its events went
  outcome     \* how the execution ended

vars == <<input, run, outcome>>

OptText(texts) == texts \union {None}

\* follow-ups go on with a task that has output of an earlier execution;
\* agentStyle or the mode may make a task of anything; text/plain may not be
\* among the accepted output modes.
Inputs == [followUp : BOOLEAN, eager : BOOLEAN, accepted : BOOLEAN]

Assistant(i) == <<"assistant-output", i>>
Tool(n) == <<"tool-result", n>>
Progress == <<"tool-progress", 1>>

NoArtifacts == [id \in {} |-> <<>>]
Earlier == [id \in {Assistant(1)} |-> <<Space>>]
Before == IF input.followUp THEN Earlier ELSE NoArtifacts

\* blocks: what summarizeBufferedReplies makes of the blocks so far, or None
NewStage == [blocks |-> None, streamed |-> None, final |-> None, media |-> FALSE,
             finalSeen |-> FALSE, completed |-> FALSE, published |-> FALSE,
             text |-> <<>>, closed |-> FALSE]

\* artifacts: those of the stored task, id -> text; view: the same as a client
\* sees them, or None; thrown: the callback has thrown.
NewRun == [stages |-> <<>>, current |-> 0, staged |-> <<>>, promoted |-> FALSE,
           tools |-> 0, queued |-> FALSE, scheduled |-> FALSE, failing |-> FALSE,
           canceled |-> FALSE, artifacts |-> Before, view |-> None,
           thrown |-> FALSE, events |-> 0]

-----------------------------------------------------------------------------
(* Text.                                                                   *)

Blank(t) == \A i \in DOMAIN t : t[i] = Space
Shown(t) == t # None /\ ~Blank(t)

\* normalizeAssistantPreviewText: a text that repeats the preview goes on from
\* it as a whole, any other is a delta.
Preview(streamed, t) ==
  LET previous == IF streamed = None THEN <<>> ELSE streamed
  IN  IF previous # <<>> /\ IsPrefix(previous, t) THEN t ELSE previous \o t

\* summarizeBufferedReplies: the blocks, joined with an empty line.
Joined(blocks, text) == IF blocks = None THEN text ELSE blocks \o <<Space>> \o text

\* pickAssistantText
FirstShown(candidates) ==
  LET shown == {i \in DOMAIN candidates : Shown(candidates[i])}
  IN  IF shown = {} THEN None
      ELSE candidates[CHOOSE i \in shown : \A j \in shown : i <= j]

\* resolveAssistantPayload
StageText(stage, terminal) ==
  IF terminal THEN FirstShown(<<stage.final, stage.streamed, stage.blocks>>)
              ELSE FirstShown(<<stage.streamed, stage.final, stage.blocks>>)

HasActivity(stage) ==
  \/ stage.blocks # None \/ stage.streamed # None \/ stage.final # None
  \/ stage.media \/ stage.finalSeen

\* buildReplyContent
Visible(text) == text # None /\ input.accepted
HasCandidates(text, media) == text # None \/ media

-----------------------------------------------------------------------------
(* Where the events go.                                                    *)

\* commitTaskSnapshot and mergeArtifact: an update of a new artifact, or one
\* without append, is the artifact.
Merge(stored, event) ==
  IF event.kind = "task" THEN event.artifacts
  ELSE [id \in DOMAIN stored \union {event.id} |->
          IF id # event.id THEN stored[id]
          ELSE IF id \notin DOMAIN stored \/ ~event.append THEN event.text
          ELSE stored[id] \o event.text]

\* Variant: an empty last chunk takes the place of the artifact.
AccumulateLast(seen, event) ==
  IF event.kind = "task" THEN event.artifacts
  ELSE LET append == event.id \in DOMAIN seen /\ event.append /\ ~event.lastChunk
       IN  [id \in DOMAIN seen \union {event.id} |->
              IF id # event.id THEN seen[id]
              ELSE (IF append THEN seen[id] ELSE <<>>) \o event.text]

\* accumulateTaskState and applyArtifactUpdate of the outbound plugin.
Accumulate(seen, event) ==
  IF event.kind = "task" THEN event.artifacts
  ELSE LET append == event.id \in DOMAIN seen /\ event.append
       IN  [id \in DOMAIN seen \union {event.id} |->
              IF id # event.id THEN seen[id]
              ELSE (IF append THEN seen[id] ELSE <<>>) \o event.text]

-----------------------------------------------------------------------------
(* Publishing.  An operator takes the coordinator to what it is after the  *)
(* method; one that has thrown stays as it is.                             *)

Snapshot == [kind |-> "task", artifacts |-> Before]
Update(id, text, append, lastChunk) ==
  [kind |-> "artifact-update", id |-> id, text |-> text, append |-> append,
   lastChunk |-> lastChunk]

\* An event is stored, and sent to the client.
Publish(r, event) ==
  [r EXCEPT !.artifacts = Merge(@, event),
            !.view = IF @ = None THEN None ELSE Accumulate(@, event)]

\* Variant: a text that replaces the published one is appended to it.
PublishTextAppends(r, i, text, lastChunk) ==
  LET stage == r.stages[i]
      delta == IF IsPrefix(stage.text, text)
                 THEN SubSeq(text, Len(stage.text) + 1, Len(text)) ELSE text
  IN  [Publish(r, Update(Assistant(i), delta, stage.published, lastChunk))
         EXCEPT !.stages[i] = [stage EXCEPT !.published = TRUE, !.text = text,
                                            !.closed = lastChunk]]

\* Text that goes on from what was published is appended, any other replaces
\* it; a last chunk may be empty.
PublishText(r, i, text, lastChunk) ==
  LET stage == r.stages[i]
      goesOn == stage.published /\ IsPrefix(stage.text, text)
      delta == SubSeq(text, Len(stage.text) + 1, Len(text))
      event == CASE ~goesOn -> Update(Assistant(i), text, FALSE, lastChunk)
                 [] goesOn /\ delta # <<>> ->
                      Update(Assistant(i), delta, TRUE, lastChunk)
                 [] OTHER -> Update(Assistant(i), <<>>, TRUE, TRUE)
      nothing == goesOn /\ delta = <<>> /\ (~lastChunk \/ stage.closed)
      after == [stage EXCEPT !.published = TRUE, !.text = text,
                             !.closed = IF nothing THEN @ ELSE lastChunk]
  IN  [IF nothing THEN r ELSE Publish(r, event) EXCEPT !.stages[i] = after]

\* publishAssistantStage
PublishStage(r, i, lastChunk, terminal, required) ==
  LET stage == r.stages[i]
      text == StageText(stage, terminal)
  IN  IF r.thrown \/ ~r.promoted THEN r
      ELSE IF Visible(text) THEN PublishText(r, i, text, lastChunk)
      ELSE IF required /\ ~stage.published /\ HasCandidates(text, stage.media)
        THEN [r EXCEPT !.thrown = TRUE]
      ELSE IF lastChunk /\ stage.published /\ ~stage.closed
        THEN [Publish(r, Update(Assistant(i), <<>>, TRUE, TRUE))
                EXCEPT !.stages[i].closed = TRUE]
      ELSE r

\* publishToolArtifact
PublishTool(r, tool) ==
  IF r.thrown THEN r
  ELSE IF Visible(tool.text)
    THEN [Publish(r, Update(Tool(r.tools + 1), tool.text, FALSE, FALSE))
            EXCEPT !.tools = @ + 1]
  ELSE [r EXCEPT !.thrown = HasCandidates(tool.text, tool.media)]

FlushOutput(r, k) ==
  LET output == r.staged[k]
      completed == r.stages[output.index].completed
  IN  CASE k \notin DOMAIN r.staged -> r
        [] k \in DOMAIN r.staged /\ output.kind = "tool" -> PublishTool(r, output)
        [] OTHER -> PublishStage(r, output.index, completed, completed, completed)

\* flushStagedOutputs: what was staged before there was a task, in its order.
\* That is never more than two outputs, for a tool result and a second stage
\* make a task at once.
FlushStaged(r) ==
  LET flushed == FlushOutput(FlushOutput(r, 1), 2)
  IN  IF flushed.thrown THEN flushed ELSE [flushed EXCEPT !.staged = <<>>]

\* promoteToTask
Promote(r) ==
  IF r.promoted \/ r.thrown THEN r
  ELSE FlushStaged(Publish([r EXCEPT !.promoted = TRUE], Snapshot))

\* flushQueuedAssistantArtifact
FlushQueued(r) ==
  IF ~r.queued \/ r.thrown THEN r
  ELSE LET q == [r EXCEPT !.queued = FALSE]
       IN  IF r.current = 0 THEN q ELSE PublishStage(q, r.current, FALSE, FALSE, FALSE)

Open(r) == r.current # 0 /\ ~r.stages[r.current].completed

\* startAssistantStage: a second stage needs a task.
StartStage(r) ==
  IF r.thrown \/ Open(r) THEN r
  ELSE LET i == Len(r.stages) + 1
           begun == [r EXCEPT !.stages = Append(@, NewStage), !.current = i]
           staged == [begun EXCEPT !.staged = Append(@, [kind |-> "assistant", index |-> i])]
       IN  CASE r.promoted -> begun
             [] ~r.promoted /\ i > 1 -> Promote(staged)
             [] OTHER -> staged

Complete(r, i) == [r EXCEPT !.stages[i].completed = TRUE]

\* closeCurrentAssistantStage
CloseCurrent(r, required) ==
  IF r.thrown \/ r.current = 0 THEN r
  ELSE PublishStage(Complete(r, r.current), r.current, TRUE, TRUE, required)

-----------------------------------------------------------------------------
(* Callbacks.  One that throws makes the dispatch fail, or OpenClaw goes   *)
(* on: FinalizeError is possible at any time.                              *)

Running == outcome.kind = "running"
Happens == Running /\ run.events < MaxEvents
Counted(r) == [r EXCEPT !.events = @ + 1]

\* The callback leaves the coordinator as r.
Becomes(r) == run' = [r EXCEPT !.thrown = FALSE]

\* prepareForExecution
PrepareForExecution ==
  /\ outcome.kind = "new"
  /\ Becomes(IF input.followUp \/ input.eager THEN Promote(run) ELSE run)
  /\ outcome' = [kind |-> "running", text |-> None]
  /\ UNCHANGED input

\* handleAssistantMessageStart
AssistantMessageStart ==
  /\ Happens
  /\ LET flushed == FlushQueued(Counted(run))
         previous == run.current
         completed == IF previous # 0 /\ HasActivity(flushed.stages[previous])
                        THEN Complete(flushed, previous) ELSE flushed
         started == StartStage(completed)
     IN  Becomes(IF /\ previous \notin {0, started.current}
                    /\ started.promoted /\ ~started.stages[previous].closed
                   THEN PublishStage(started, previous, TRUE, TRUE, TRUE)
                   ELSE started)
  /\ UNCHANGED <<input, outcome>>

\* handleAssistantEvent: the text is published in a microtask, with others
\* that come before it runs.
AssistantEvent ==
  /\ Happens
  /\ \E text \in OptText(Streamed), media \in BOOLEAN :
       /\ text # None \/ media
       /\ LET r == StartStage(Counted(run))
              stage == [r.stages[r.current] EXCEPT
                !.streamed = IF text = None THEN @ ELSE Preview(@, text),
                !.media = @ \/ media]
          IN  Becomes(IF r.thrown THEN r
                      ELSE [r EXCEPT !.stages[r.current] = stage,
                                     !.queued = @ \/ r.promoted,
                                     !.scheduled = @ \/ r.promoted])
  /\ UNCHANGED <<input, outcome>>

\* The microtask; it does nothing when the text was published meanwhile.
Microtask ==
  /\ Running /\ run.scheduled
  /\ Becomes(FlushQueued([run EXCEPT !.scheduled = FALSE]))
  /\ UNCHANGED <<input, outcome>>

\* A second final reply belongs to another stage than the first.
StageForReply(r, kind) ==
  StartStage(IF kind = "final" /\ Open(r) /\ r.stages[r.current].finalSeen
               THEN LET done == Complete(r, r.current)
                    IN  IF r.stages[r.current].closed THEN done
                        ELSE PublishStage(done, r.current, TRUE, TRUE, TRUE)
               ELSE r)

\* handleReplyPayload of a block or final reply
Reply ==
  /\ Happens
  /\ \E kind \in {"block", "final"}, text \in OptText(Replies), media \in BOOLEAN :
       LET r == StageForReply(FlushQueued(Counted(run)), kind)
           stage == [r.stages[r.current] EXCEPT
             !.finalSeen = @ \/ kind = "final",
             !.final = IF kind = "final" /\ text # None THEN text ELSE @,
             !.blocks = IF kind = "block" /\ text # None THEN Joined(@, text) ELSE @,
             !.media = @ \/ media]
       IN  Becomes(IF r.thrown THEN r
                   ELSE PublishStage([r EXCEPT !.stages[r.current] = stage],
                                     r.current, FALSE, kind = "final", FALSE))
  /\ UNCHANGED <<input, outcome>>

\* handleReplyPayload of a tool result
ToolReply ==
  /\ Happens
  /\ \E text \in OptText(Replies), media \in BOOLEAN :
       LET r == FlushQueued(Counted(run))
           tool == [kind |-> "tool", text |-> text, media |-> media]
       IN  Becomes(IF r.promoted THEN PublishTool(r, tool)
                   ELSE Promote([r EXCEPT !.staged = Append(@, tool)]))
  /\ UNCHANGED <<input, outcome>>

\* handleToolEvent: progress of a tool call replaces what was shown of it.
ToolProgress ==
  /\ Happens
  /\ \E last \in BOOLEAN :
       LET r == FlushQueued(Promote(Counted(run)))
       IN  Becomes(IF r.thrown THEN r
                   ELSE Publish(r, Update(Progress, <<Space>>, FALSE, last)))
  /\ UNCHANGED <<input, outcome>>

\* The lifecycle error of the run, and cancel() of the execution.
LifecycleError ==
  /\ Happens
  /\ Becomes(FlushQueued(Promote(Counted([run EXCEPT !.failing = TRUE]))))
  /\ UNCHANGED <<input, outcome>>

Cancel ==
  /\ Happens /\ run.promoted /\ ~run.canceled
  /\ Becomes(FlushQueued(Counted([run EXCEPT !.canceled = TRUE])))
  /\ UNCHANGED <<input, outcome>>

-----------------------------------------------------------------------------
(* The end.                                                                *)

\* buildCanonicalAssistantStatusMessage: the last stage with something to show.
Canonical(r) ==
  LET shown == {i \in DOMAIN r.stages : Visible(StageText(r.stages[i], TRUE))}
  IN  IF shown = {} THEN None
      ELSE LET last == CHOOSE i \in shown : \A j \in shown : j <= i
           IN  StageText(r.stages[last], TRUE)

Ends(r, kind, text) ==
  /\ Becomes(r)
  /\ outcome' = [kind |-> kind, text |-> text]
  /\ UNCHANGED input

\* A final status without a requirement on what it shows.
EndsWith(r, kind) ==
  LET closed == CloseCurrent(Promote(FlushQueued([r EXCEPT !.thrown = FALSE])), FALSE)
  IN  Ends(closed, kind, Canonical(closed))

\* What the executor does with an error: one about output modes, before there
\* is a task, is the answer.
FinalizeError ==
  /\ Running
  /\ EndsWith(run, IF run.canceled THEN "canceled" ELSE "failed")

\* canReturnDirectMessage
Direct(r) ==
  /\ ~input.followUp /\ ~input.eager /\ ~r.promoted /\ ~r.canceled /\ ~r.failing
  /\ \A k \in DOMAIN r.staged : r.staged[k].kind # "tool"
  /\ Cardinality({i \in DOMAIN r.stages : HasActivity(r.stages[i])}) = 1

\* Variant: the last stage is not closed before the final status.
FinalizeCompletedOpen(r) ==
  LET promoted == Promote(r)
  IN  Ends(promoted, "completed", Canonical(promoted))

\* The task completes, or fails when what there is to show was not accepted.
FinalizeCompleted(r) ==
  LET closed == CloseCurrent(Promote(r), TRUE)
  IN  IF closed.thrown THEN EndsWith(closed, "failed")
      ELSE Ends(closed, "completed", Canonical(closed))

FinalizeSuccess ==
  /\ Running
  /\ LET r == FlushQueued(run)
         text == IF r.current = 0 THEN None ELSE StageText(r.stages[r.current], TRUE)
     IN  CASE run.canceled -> EndsWith(run, "canceled")
           [] run.failing /\ ~run.canceled -> EndsWith(run, "failed")
           [] Direct(r) /\ Visible(text) -> Ends(r, "message", text)
           [] /\ Direct(r) /\ ~Visible(text)
              /\ HasCandidates(text, r.stages[r.current].media) ->
                Ends(r, "refused", None)
           [] OTHER -> FinalizeCompleted(r)

\* A client joins: it gets the stored task, and the events from then on.
Watch ==
  /\ run.view = None /\ run.promoted
  /\ run' = [run EXCEPT !.view = run.artifacts]
  /\ UNCHANGED <<input, outcome>>

-----------------------------------------------------------------------------
Init ==
  /\ input \in Inputs
  /\ run = NewRun
  /\ outcome = [kind |-> "new", text |-> None]

Next ==
  \/ PrepareForExecution
  \/ AssistantMessageStart \/ AssistantEvent \/ Microtask
  \/ Reply \/ ToolReply \/ ToolProgress \/ LifecycleError \/ Cancel
  \/ FinalizeSuccess \/ FinalizeError
  \/ Watch

Spec == Init /\ [][Next]_vars

-----------------------------------------------------------------------------
\* The stored artifact of a stage reads as the text last published of it,
\* through every mixture of deltas, replacements and empty last chunks, and
\* although an earlier execution of the task used the same artifact id.
ArtifactsShowStages ==
  \A i \in DOMAIN run.stages :
    run.stages[i].published =>
      /\ Assistant(i) \in DOMAIN run.artifacts
      /\ run.artifacts[Assistant(i)] = run.stages[i].text

\* A client that joined at any moment has accumulated the artifacts of the
\* stored task.
ViewsAgree == run.view # None => run.view = run.artifacts

\* When a task completed, every stage that has something to show is closed and
\* shows its final reply, or else what was streamed, or else its blocks, and
\* the final status shows the last of them.  A direct message is the whole
\* reply, and leaves nothing behind.
OutcomeShowsReply ==
  /\ outcome.kind = "completed" =>
       \A i \in DOMAIN run.stages :
         LET text == StageText(run.stages[i], TRUE)
         IN  Visible(text) =>
               /\ run.stages[i].closed
               /\ run.artifacts[Assistant(i)] = text
               /\ (\A j \in DOMAIN run.stages :
                     j > i => ~Visible(StageText(run.stages[j], TRUE)))
                  => outcome.text = text
  /\ outcome.kind = "message" =>
       run.artifacts = NoArtifacts /\ outcome.text = Canonical(run)
=============================================================================
