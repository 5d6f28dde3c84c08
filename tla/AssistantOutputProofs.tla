------------------------- MODULE AssistantOutputProofs -------------------------
(***************************************************************************)
(* Theorems about AssistantOutput, for every value of its constants: the   *)
(* stored artifacts, what a client accumulates of them, and what the       *)
(* outcome shows.                                                          *)
(***************************************************************************)
EXTENDS AssistantOutput, SequenceTheorems, TLAPS

-----------------------------------------------------------------------------
(* The invariant.                                                          *)

Stage ==
  [blocks : OptText(Texts), streamed : OptText(Texts), final : OptText(Texts),
   media : BOOLEAN, finalSeen : BOOLEAN, completed : BOOLEAN, published : BOOLEAN,
   text : Texts, closed : BOOLEAN]

AssistantOutputs == [kind : {"assistant"}, index : Nat \ {0}]
ToolOutputs == [kind : {"tool"}, text : OptText(Texts), media : BOOLEAN]

IsRun(r) ==
  /\ r \in [stages : Seq(Stage), current : Nat,
            staged : Seq(AssistantOutputs \union ToolOutputs), promoted : BOOLEAN,
            tools : Nat, queued : BOOLEAN, scheduled : BOOLEAN, failing : BOOLEAN,
            canceled : BOOLEAN, artifacts : {r.artifacts}, view : {r.view},
            thrown : BOOLEAN, events : Nat]
  /\ r.current = Len(r.stages)
  /\ \A k \in DOMAIN r.staged :
       r.staged[k].kind = "assistant" => r.staged[k].index \in DOMAIN r.stages
  /\ \A id \in DOMAIN r.artifacts : r.artifacts[id] \in Texts

\* What is published of a stage is what its artifact holds.
Shows(r) ==
  \A i \in DOMAIN r.stages :
    r.stages[i].published =>
      /\ Assistant(i) \in DOMAIN r.artifacts
      /\ r.artifacts[Assistant(i)] = r.stages[i].text

Agrees(r) == r.view # None => r.view = r.artifacts

\* There is a task.
HasTask(r) == r.promoted

\* Nothing is published before there is a task.
Untold(r) ==
  ~r.promoted => /\ r.artifacts = Before
                 /\ \A i \in DOMAIN r.stages : ~r.stages[i].published

Basic(r) == IsRun(r) /\ Shows(r) /\ Agrees(r) /\ Untold(r)

\* A stage is completed when the next one begins, and is not closed before.
Past(r) ==
  \A i \in DOMAIN r.stages :
    /\ i < r.current => r.stages[i].completed
    /\ r.stages[i].closed => r.stages[i].completed

\* A completed stage shows what it has to show.
Told(stage) ==
  stage.completed /\ Visible(StageText(stage, TRUE)) =>
    /\ stage.published /\ stage.closed
    /\ stage.text = StageText(stage, TRUE)

Settled(r) == HasTask(r) => \A i \in DOMAIN r.stages : Told(r.stages[i])

\* Before there is a task there is one stage at most, and it is staged.
Begins(r) ==
  /\ Len(r.stages) <= 1
  /\ r.staged = [k \in 1..Len(r.stages) |-> [kind |-> "assistant", index |-> k]]

Early(r) ==
  ~HasTask(r) =>
    /\ Begins(r)
    /\ \A i \in DOMAIN r.stages : ~r.stages[i].completed

\* A stage that is completed and not followed by another one shows nothing.
Quiet(r) ==
  \A i \in DOMAIN r.stages :
    i = r.current /\ r.stages[i].completed => ~Visible(StageText(r.stages[i], TRUE))

Good(r) == Past(r) /\ Settled(r) /\ Early(r) /\ Quiet(r)

OInv ==
  /\ input \in Inputs
  /\ Basic(run) /\ ~run.thrown
  /\ outcome.kind \in {"new", "running"} => Good(run)
  /\ OutcomeShowsReply

-----------------------------------------------------------------------------
(* Text.                                                                   *)

\* What was published and the delta that is appended are the text.
LEMMA Continuation ==
  ASSUME NEW s \in Texts, NEW t \in Texts, IsPrefix(s, t)
  PROVE  /\ SubSeq(t, Len(s) + 1, Len(t)) \in Texts
         /\ s \o SubSeq(t, Len(s) + 1, Len(t)) = t
<1>1. /\ s = SubSeq(s, 1, Len(s)) /\ t = SubSeq(t, 1, Len(t))
      /\ Len(s) \in Nat /\ Len(t) \in Nat
  BY SubSeqFull, LenProperties DEF Texts
<1>2. s = SubSeq(t, 1, Len(s)) /\ Len(s) <= Len(t)
  BY <1>1 DEF IsPrefix
<1>3. SubSeq(t, 1, Len(s)) \o SubSeq(t, Len(s) + 1, Len(t)) = SubSeq(t, 1, Len(t))
  <2>1. /\ 1 \in 1..Len(t) + 1 /\ Len(s) \in 1 - 1..Len(t)
        /\ Len(t) \in Len(s)..Len(t) /\ t \in Seq(Chars)
    BY <1>1, <1>2 DEF Texts
  <2> QED BY <2>1, ConcatAdjacentSubSeq
<1>4. SubSeq(t, Len(s) + 1, Len(t)) \in Texts
  BY <1>1, <1>2, SubSeqProperties DEF Texts
<1> QED BY <1>1, <1>2, <1>3, <1>4

LEMMA NoDelta ==
  ASSUME NEW s \in Texts, NEW t \in Texts, IsPrefix(s, t),
         SubSeq(t, Len(s) + 1, Len(t)) = <<>>
  PROVE  s = t
<1>1. s \o <<>> = t
  BY Continuation
<1> QED BY <1>1, ConcatEmptySeq DEF Texts

LEMMA EmptyText == <<>> \in Texts /\ \A t \in Texts : t \o <<>> = t /\ <<>> \o t = t
  BY EmptySeq, ConcatEmptySeq DEF Texts

LEMMA Concatenation ==
  \A s, t \in Texts : s \o t \in Texts
  BY ConcatProperties DEF Texts

LEMMA FirstShownType ==
  ASSUME NEW a \in OptText(Texts), NEW b \in OptText(Texts), NEW c \in OptText(Texts)
  PROVE  /\ FirstShown(<<a, b, c>>) \in OptText(Texts)
         /\ FirstShown(<<a, b, c>>) = None <=> ~Shown(a) /\ ~Shown(b) /\ ~Shown(c)
<1> DEFINE shown == {i \in DOMAIN <<a, b, c>> : Shown(<<a, b, c>>[i])}
           first == CHOOSE i \in shown : \A j \in shown : i <= j
<1>1. DOMAIN <<a, b, c>> = 1..3
  OBVIOUS
<1>2. CASE shown = {}
  <2>1. FirstShown(<<a, b, c>>) = None
    BY <1>2 DEF FirstShown
  <2>2. ~Shown(a) /\ ~Shown(b) /\ ~Shown(c)
    BY <1>1, <1>2
  <2> QED BY <2>1, <2>2 DEF OptText
<1>3. CASE shown # {}
  <2>1. shown \subseteq 1..3
    BY <1>1
  <2>2. \E i \in shown : \A j \in shown : i <= j
    <3>1. CASE 1 \in shown
      BY <2>1, <3>1
    <3>2. CASE 1 \notin shown /\ 2 \in shown
      BY <2>1, <3>2
    <3>3. CASE 1 \notin shown /\ 2 \notin shown
      BY <2>1, <3>3, <1>3
    <3> QED BY <3>1, <3>2, <3>3
  <2>3. first \in shown
    BY <2>2
  <2>4. FirstShown(<<a, b, c>>) = <<a, b, c>>[first]
    BY <1>3 DEF FirstShown
  <2> HIDE DEF first
  <2>5. /\ first \in 1..3 /\ Shown(<<a, b, c>>[first])
    BY <1>1, <2>3
  <2>6. <<a, b, c>>[first] \in {a, b, c}
    BY <2>5
  <2>7. Shown(a) \/ Shown(b) \/ Shown(c)
    BY <2>5, <2>6
  <2> QED BY <2>4, <2>5, <2>6, <2>7 DEF Shown
<1> QED BY <1>2, <1>3

\* Whether a stage has something to show does not depend on the order.
LEMMA StageTextType ==
  ASSUME NEW stage \in Stage, NEW terminal \in BOOLEAN
  PROVE  /\ StageText(stage, terminal) \in OptText(Texts)
         /\ StageText(stage, TRUE) = None <=> StageText(stage, FALSE) = None
<1>1. /\ stage.final \in OptText(Texts) /\ stage.streamed \in OptText(Texts)
      /\ stage.blocks \in OptText(Texts)
  BY DEF Stage
<1> QED BY <1>1, FirstShownType DEF StageText

LEMMA VisibleText ==
  \A text \in OptText(Texts) : Visible(text) => text \in Texts
  BY DEF Visible, OptText

LEMMA PreviewType ==
  \A streamed \in OptText(Texts), t \in Texts : Preview(streamed, t) \in Texts
  BY EmptyText, Concatenation DEF Preview, OptText

LEMMA JoinedType ==
  \A blocks \in OptText(Texts), t \in Texts : Joined(blocks, t) \in Texts
<1>1. <<Space>> \in Texts
  BY OutputAssumption DEF Texts
<1> QED BY <1>1, Concatenation DEF Joined, OptText

-----------------------------------------------------------------------------
(* Publishing.                                                             *)

\* Its text is added to the artifact.
Appends(event) == event.append

\* The client does to the artifacts what the store does.
LEMMA MergeUpdate ==
  ASSUME NEW a, NEW event, event.kind # "task", event.text \in Texts
  PROVE  /\ DOMAIN Merge(a, event) = DOMAIN a \union {event.id}
         /\ \A other \in DOMAIN a : other # event.id => Merge(a, event)[other] = a[other]
         /\ event.id \in DOMAIN a /\ Appends(event) =>
              Merge(a, event)[event.id] = a[event.id] \o event.text
         /\ event.id \notin DOMAIN a \/ ~Appends(event) =>
              Merge(a, event)[event.id] = event.text
         /\ Merge(a, event) = Accumulate(a, event)
<1>1. Merge(a, event) = [x \in DOMAIN a \union {event.id} |->
             IF x # event.id THEN a[x]
             ELSE IF event.id \notin DOMAIN a \/ ~event.append THEN event.text
             ELSE a[event.id] \o event.text]
  BY DEF Merge
<1>2. Accumulate(a, event) =
        [x \in DOMAIN a \union {event.id} |->
           IF x # event.id THEN a[x]
           ELSE (IF event.id \in DOMAIN a /\ event.append THEN a[event.id] ELSE <<>>)
                  \o event.text]
  BY DEF Accumulate
<1>3. (IF event.id \in DOMAIN a /\ event.append THEN a[event.id] ELSE <<>>) \o event.text
        = IF event.id \notin DOMAIN a \/ ~event.append THEN event.text
          ELSE a[event.id] \o event.text
  BY EmptyText
<1>4. Accumulate(a, event) = Merge(a, event)
  BY <1>1, <1>2, <1>3
<1> QED BY <1>1, <1>4 DEF Appends

\* s differs from r in nothing but what is stored and seen.
Same(r, s) ==
  /\ s.stages = r.stages /\ s.current = r.current /\ s.staged = r.staged
  /\ s.promoted = r.promoted /\ s.tools = r.tools /\ s.queued = r.queued
  /\ s.scheduled = r.scheduled /\ s.failing = r.failing
  /\ s.canceled = r.canceled /\ s.thrown = r.thrown /\ s.events = r.events

LEMMA PublishFields ==
  ASSUME NEW r, IsRun(r), NEW event
  PROVE  /\ Same(r, Publish(r, event))
         /\ Publish(r, event).artifacts = Merge(r.artifacts, event)
         /\ Publish(r, event).view
              = IF r.view = None THEN None ELSE Accumulate(r.view, event)
  BY DEF IsRun, Publish, Same

LEMMA PublishType ==
  ASSUME NEW r, IsRun(r), NEW event,
         \A id \in DOMAIN Merge(r.artifacts, event) : Merge(r.artifacts, event)[id] \in Texts
  PROVE  IsRun(Publish(r, event))
<1> DEFINE s == Publish(r, event)
<1>1. /\ Same(r, s) /\ s.artifacts = Merge(r.artifacts, event)
  BY PublishFields
<1>2. s \in [stages : Seq(Stage), current : Nat,
            staged : Seq(AssistantOutputs \union ToolOutputs), promoted : BOOLEAN,
            tools : Nat, queued : BOOLEAN, scheduled : BOOLEAN, failing : BOOLEAN,
            canceled : BOOLEAN, artifacts : {s.artifacts}, view : {s.view},
            thrown : BOOLEAN, events : Nat]
  BY DEF IsRun, Publish
<1> HIDE DEF s
<1> QED BY <1>1, <1>2 DEF IsRun, Same, s

LEMMA PublishUpdate ==
  ASSUME NEW r, IsRun(r), Agrees(r), NEW event, event.kind # "task", event.text \in Texts
  PROVE  LET s == Publish(r, event)
         IN  /\ IsRun(s) /\ Agrees(s) /\ Same(r, s)
             /\ DOMAIN s.artifacts = DOMAIN r.artifacts \union {event.id}
             /\ \A id \in DOMAIN r.artifacts :
                  id # event.id => s.artifacts[id] = r.artifacts[id]
             /\ event.id \in DOMAIN r.artifacts /\ Appends(event) =>
                  s.artifacts[event.id] = r.artifacts[event.id] \o event.text
             /\ event.id \notin DOMAIN r.artifacts \/ ~Appends(event) =>
                  s.artifacts[event.id] = event.text
<1> DEFINE s == Publish(r, event)
           m == Merge(r.artifacts, event)
<1>1. /\ DOMAIN m = DOMAIN r.artifacts \union {event.id}
      /\ \A id \in DOMAIN r.artifacts : id # event.id => m[id] = r.artifacts[id]
      /\ event.id \in DOMAIN r.artifacts /\ Appends(event) =>
           m[event.id] = r.artifacts[event.id] \o event.text
      /\ event.id \notin DOMAIN r.artifacts \/ ~Appends(event) => m[event.id] = event.text
      /\ m = Accumulate(r.artifacts, event)
  BY MergeUpdate
<1>2. /\ Same(r, s) /\ s.artifacts = m
      /\ s.view = IF r.view = None THEN None ELSE Accumulate(r.view, event)
  BY PublishFields
<1>3. \A id \in DOMAIN r.artifacts : r.artifacts[id] \in Texts
  BY DEF IsRun
<1> HIDE DEF m
<1>4. \A id \in DOMAIN m : m[id] \in Texts
  BY <1>1, <1>3, Concatenation
<1>5. IsRun(s)
  BY <1>4, PublishType DEF m
<1> HIDE DEF s
<1>6. Agrees(s)
  BY <1>1, <1>2 DEF Agrees
<1>7. /\ IsRun(s) /\ Agrees(s) /\ Same(r, s)
      /\ DOMAIN s.artifacts = DOMAIN r.artifacts \union {event.id}
      /\ \A id \in DOMAIN r.artifacts :
           id # event.id => s.artifacts[id] = r.artifacts[id]
      /\ event.id \in DOMAIN r.artifacts /\ Appends(event) =>
           s.artifacts[event.id] = r.artifacts[event.id] \o event.text
      /\ event.id \notin DOMAIN r.artifacts \/ ~Appends(event) =>
           s.artifacts[event.id] = event.text
  BY <1>1, <1>2, <1>5, <1>6
<1> QED BY <1>7 DEF s

LEMMA StageUpdate ==
  ASSUME NEW r, IsRun(r), NEW i \in DOMAIN r.stages, NEW stage \in Stage
  PROVE  LET s == [r EXCEPT !.stages[i] = stage]
         IN  /\ IsRun(s) /\ s.artifacts = r.artifacts /\ s.view = r.view
             /\ s.current = r.current /\ s.staged = r.staged
             /\ s.promoted = r.promoted /\ s.tools = r.tools /\ s.queued = r.queued
             /\ s.scheduled = r.scheduled /\ s.failing = r.failing
             /\ s.canceled = r.canceled /\ s.thrown = r.thrown /\ s.events = r.events
             /\ DOMAIN s.stages = DOMAIN r.stages /\ Len(s.stages) = Len(r.stages)
             /\ s.stages[i] = stage
             /\ \A j \in DOMAIN r.stages : j # i => s.stages[j] = r.stages[j]
<1> DEFINE s == [r EXCEPT !.stages[i] = stage]
<1>1. r.stages \in Seq(Stage)
  BY DEF IsRun
<1>2. i \in 1..Len(r.stages)
  BY <1>1
<1>3. s.stages = [r.stages EXCEPT ![i] = stage]
  BY DEF IsRun
<1>4. /\ s.stages \in Seq(Stage) /\ Len(s.stages) = Len(r.stages)
      /\ \A j \in 1..Len(r.stages) :
           s.stages[j] = IF j = i THEN stage ELSE r.stages[j]
  BY <1>1, <1>2, <1>3, ExceptSeq
<1>5. DOMAIN s.stages = DOMAIN r.stages
  BY <1>3
<1>6. /\ s.artifacts = r.artifacts /\ s.view = r.view
      /\ s.current = r.current /\ s.staged = r.staged
      /\ s.promoted = r.promoted /\ s.tools = r.tools /\ s.queued = r.queued
      /\ s.scheduled = r.scheduled /\ s.failing = r.failing
      /\ s.canceled = r.canceled /\ s.thrown = r.thrown /\ s.events = r.events
  BY DEF IsRun
<1>7. s \in [stages : {s.stages}, current : Nat,
            staged : Seq(AssistantOutputs \union ToolOutputs), promoted : BOOLEAN,
            tools : Nat, queued : BOOLEAN, scheduled : BOOLEAN, failing : BOOLEAN,
            canceled : BOOLEAN, artifacts : {s.artifacts}, view : {s.view},
            thrown : BOOLEAN, events : Nat]
  BY DEF IsRun
<1>8. IsRun(s)
  BY <1>4, <1>5, <1>6, <1>7 DEF IsRun
<1> HIDE DEF s
<1>9. /\ IsRun(s) /\ s.artifacts = r.artifacts /\ s.view = r.view
      /\ s.current = r.current /\ s.staged = r.staged
      /\ s.promoted = r.promoted /\ s.tools = r.tools /\ s.queued = r.queued
      /\ s.scheduled = r.scheduled /\ s.failing = r.failing
      /\ s.canceled = r.canceled /\ s.thrown = r.thrown /\ s.events = r.events
      /\ DOMAIN s.stages = DOMAIN r.stages /\ Len(s.stages) = Len(r.stages)
      /\ s.stages[i] = stage
      /\ \A j \in DOMAIN r.stages : j # i => s.stages[j] = r.stages[j]
  BY <1>1, <1>2, <1>4, <1>5, <1>6, <1>8
<1> QED BY <1>9 DEF s

\* Two stages with the same content, published or not.
Alike(a, b) ==
  /\ a.blocks = b.blocks /\ a.streamed = b.streamed /\ a.final = b.final
  /\ a.media = b.media /\ a.finalSeen = b.finalSeen /\ a.completed = b.completed

LEMMA AlikeText ==
  ASSUME NEW a, NEW b, Alike(a, b), NEW terminal
  PROVE  StageText(a, terminal) = StageText(b, terminal)
  BY DEF Alike, StageText

\* The same stages with the same content: what publishing leaves alone.
Contents(r, s) ==
  /\ s.current = r.current /\ DOMAIN s.stages = DOMAIN r.stages
  /\ \A i \in DOMAIN r.stages : Alike(s.stages[i], r.stages[i])

Frame(r, s) == Contents(r, s) /\ s.promoted = r.promoted

LEMMA FrameItself == \A r : Frame(r, r)
  BY DEF Frame, Contents, Alike

LEMMA ContentsAgain ==
  \A r, s, t : Contents(r, s) /\ Contents(s, t) => Contents(r, t)
  BY DEF Contents, Alike

LEMMA FrameAgain ==
  \A r, s, t : Frame(r, s) /\ Frame(s, t) => Frame(r, t)
  BY ContentsAgain DEF Frame

LEMMA AssistantIds ==
  \A i, j : (Assistant(i) = Assistant(j) => i = j)
  BY DEF Assistant

LEMMA OtherIds ==
  \A i, n : Assistant(i) # Tool(n) /\ Assistant(i) # Progress
  BY DEF Assistant, Tool, Progress

\* The stage i of a run whose artifact was updated, and which notes it.
LEMMA Noted ==
  ASSUME NEW r, Basic(r), HasTask(r), NEW i \in DOMAIN r.stages,
         NEW p, IsRun(p), Agrees(p), Same(r, p),
         \A j \in DOMAIN r.stages : j # i /\ Assistant(j) \in DOMAIN r.artifacts =>
           /\ Assistant(j) \in DOMAIN p.artifacts
           /\ p.artifacts[Assistant(j)] = r.artifacts[Assistant(j)],
         NEW stage \in Stage, Alike(stage, r.stages[i]),
         stage.published =>
           /\ Assistant(i) \in DOMAIN p.artifacts
           /\ p.artifacts[Assistant(i)] = stage.text
  PROVE  LET s == [p EXCEPT !.stages[i] = stage]
         IN  /\ Basic(s) /\ Frame(r, s) /\ s.staged = r.staged /\ s.thrown = r.thrown
             /\ s.stages[i] = stage
             /\ \A j \in DOMAIN r.stages : j # i => s.stages[j] = r.stages[j]
<1> DEFINE s == [p EXCEPT !.stages[i] = stage]
<1>1. /\ p.stages = r.stages /\ p.current = r.current /\ p.promoted = r.promoted
      /\ p.staged = r.staged /\ p.thrown = r.thrown
  BY DEF Same
<1>2. /\ IsRun(s) /\ s.artifacts = p.artifacts /\ s.view = p.view
      /\ s.current = r.current /\ s.promoted = r.promoted /\ s.staged = r.staged
      /\ s.thrown = r.thrown /\ DOMAIN s.stages = DOMAIN r.stages /\ s.stages[i] = stage
      /\ \A j \in DOMAIN r.stages : j # i => s.stages[j] = r.stages[j]
  <2>1. i \in DOMAIN p.stages
    BY <1>1
  <2>2. /\ IsRun(s) /\ s.artifacts = p.artifacts /\ s.view = p.view
        /\ s.current = p.current /\ s.promoted = p.promoted /\ s.staged = p.staged
        /\ s.thrown = p.thrown /\ DOMAIN s.stages = DOMAIN p.stages /\ s.stages[i] = stage
        /\ \A j \in DOMAIN p.stages : j # i => s.stages[j] = p.stages[j]
    BY <2>1, StageUpdate
  <2> HIDE DEF s
  <2> QED BY <1>1, <2>2
<1> HIDE DEF s
<1>3. Shows(s)
  <2> SUFFICES ASSUME NEW j \in DOMAIN s.stages, s.stages[j].published
               PROVE  /\ Assistant(j) \in DOMAIN s.artifacts
                      /\ s.artifacts[Assistant(j)] = s.stages[j].text
    BY DEF Shows
  <2>1. CASE j = i
    BY <1>2, <2>1
  <2>2. CASE j # i
    <3>1. s.stages[j] = r.stages[j]
      BY <1>2, <2>2
    <3>2. /\ Assistant(j) \in DOMAIN r.artifacts
          /\ r.artifacts[Assistant(j)] = r.stages[j].text
      BY <1>2, <3>1 DEF Basic, Shows
    <3> QED BY <1>2, <2>2, <3>1, <3>2
  <2> QED BY <2>1, <2>2
<1>4. Agrees(s)
  BY <1>2 DEF Agrees
<1>5. Untold(s)
  BY <1>2 DEF Untold, HasTask
<1>6. Frame(r, s)
  BY <1>2 DEF Frame, Contents, Alike
<1> QED BY <1>2, <1>3, <1>4, <1>5, <1>6 DEF Basic, s

LEMMA StageType ==
  \A r : IsRun(r) => /\ r.stages \in Seq(Stage)
                     /\ \A i \in DOMAIN r.stages : r.stages[i] \in Stage
  BY DEF IsRun

\* What a stage is after its text was published.
LEMMA PublishTextStep ==
  ASSUME NEW r, Basic(r), HasTask(r), NEW i \in DOMAIN r.stages,
         NEW text \in Texts, NEW lastChunk \in BOOLEAN
  PROVE  LET s == PublishText(r, i, text, lastChunk)
         IN  /\ Basic(s) /\ Frame(r, s) /\ s.staged = r.staged /\ s.thrown = r.thrown
             /\ s.stages[i].published /\ s.stages[i].text = text
             /\ lastChunk => s.stages[i].closed
             /\ s.stages[i].closed => lastChunk \/ r.stages[i].closed
             /\ \A j \in DOMAIN r.stages : j # i => s.stages[j] = r.stages[j]
<1> DEFINE stage == r.stages[i]
           goesOn == stage.published /\ IsPrefix(stage.text, text)
           delta == SubSeq(text, Len(stage.text) + 1, Len(text))
           update == CASE ~goesOn -> Update(Assistant(i), text, FALSE, lastChunk)
                      [] goesOn /\ delta # <<>> ->
                           Update(Assistant(i), delta, TRUE, lastChunk)
                      [] OTHER -> Update(Assistant(i), <<>>, TRUE, TRUE)
           nothing == goesOn /\ delta = <<>> /\ (~lastChunk \/ stage.closed)
           closed == IF nothing THEN stage.closed ELSE lastChunk
           after == [stage EXCEPT !.published = TRUE, !.text = text, !.closed = closed]
           p == IF nothing THEN r ELSE Publish(r, update)
           s == PublishText(r, i, text, lastChunk)
<1>1. s = [p EXCEPT !.stages[i] = after]
  BY DEF PublishText
<1>2. stage \in Stage /\ stage.text \in Texts /\ stage.closed \in BOOLEAN
  BY StageType DEF Basic, Stage
<1>3. closed \in BOOLEAN
  BY <1>2
<1>4. /\ after \in Stage /\ Alike(after, stage)
      /\ after.published /\ after.text = text /\ after.closed = closed
  <2> HIDE DEF stage, closed
  <2>1. after \in Stage
    BY <1>2, <1>3 DEF Stage
  <2>2. Alike(after, stage)
    BY <1>2 DEF Stage, Alike
  <2>3. after.published /\ after.text = text /\ after.closed = closed
    BY <1>2 DEF Stage
  <2> QED BY <2>1, <2>2, <2>3
<1>5. stage.published => /\ Assistant(i) \in DOMAIN r.artifacts
                         /\ r.artifacts[Assistant(i)] = stage.text
  BY DEF Basic, Shows
<1>6. IsRun(r) /\ Agrees(r)
  BY DEF Basic
<1>7. /\ IsRun(p) /\ Agrees(p) /\ Same(r, p)
      /\ DOMAIN p.artifacts = DOMAIN r.artifacts \union {Assistant(i)}
      /\ \A x \in DOMAIN r.artifacts : x # Assistant(i) => p.artifacts[x] = r.artifacts[x]
      /\ p.artifacts[Assistant(i)] = text
  <2>1. CASE nothing
    <3>1. p = r /\ goesOn /\ delta = <<>>
      BY <2>1
    <3>2. stage.text = text
      BY <1>2, <3>1, NoDelta
    <3>3. Same(r, r)
      BY DEF Same
    <3> HIDE DEF p, delta, nothing, update
    <3> QED BY <1>5, <1>6, <3>1, <3>2, <3>3
  <2>2. CASE ~nothing /\ ~goesOn
    <3>1. update = Update(Assistant(i), text, FALSE, lastChunk)
      BY <2>2
    <3>2. p = Publish(r, update)
      BY <2>2
    <3> HIDE DEF p, goesOn, delta, nothing, update
    <3>3. /\ update.kind # "task" /\ update.id = Assistant(i) /\ update.text = text
          /\ ~Appends(update)
      BY <3>1 DEF Update, Appends
    <3>4. /\ IsRun(p) /\ Agrees(p) /\ Same(r, p)
          /\ DOMAIN p.artifacts = DOMAIN r.artifacts \union {update.id}
          /\ \A x \in DOMAIN r.artifacts : x # update.id => p.artifacts[x] = r.artifacts[x]
          /\ update.id \in DOMAIN r.artifacts /\ Appends(update) =>
               p.artifacts[update.id] = r.artifacts[update.id] \o update.text
          /\ update.id \notin DOMAIN r.artifacts \/ ~Appends(update) =>
               p.artifacts[update.id] = update.text
      BY <1>6, <3>2, <3>3, PublishUpdate
    <3> QED BY <3>3, <3>4
  <2>3. CASE ~nothing /\ goesOn /\ delta # <<>>
    <3>1. update = Update(Assistant(i), delta, TRUE, lastChunk)
      BY <2>3
    <3>2. p = Publish(r, update)
      BY <2>3
    <3>3. delta \in Texts /\ stage.text \o delta = text
      BY <1>2, <2>3, Continuation
    <3>4. Assistant(i) \in DOMAIN r.artifacts /\ r.artifacts[Assistant(i)] = stage.text
      BY <1>5, <2>3
    <3> HIDE DEF p, goesOn, delta, nothing, update
    <3>5. /\ update.kind # "task" /\ update.id = Assistant(i) /\ update.text = delta
          /\ Appends(update)
      BY <3>1 DEF Update, Appends
    <3>6. /\ IsRun(p) /\ Agrees(p) /\ Same(r, p)
          /\ DOMAIN p.artifacts = DOMAIN r.artifacts \union {update.id}
          /\ \A x \in DOMAIN r.artifacts : x # update.id => p.artifacts[x] = r.artifacts[x]
          /\ update.id \in DOMAIN r.artifacts /\ Appends(update) =>
               p.artifacts[update.id] = r.artifacts[update.id] \o update.text
          /\ update.id \notin DOMAIN r.artifacts \/ ~Appends(update) =>
               p.artifacts[update.id] = update.text
      BY <1>6, <3>2, <3>3, <3>5, PublishUpdate
    <3> QED BY <3>3, <3>4, <3>5, <3>6
  <2>4. CASE ~nothing /\ goesOn /\ delta = <<>>
    <3>1. update = Update(Assistant(i), <<>>, TRUE, TRUE)
      BY <2>4
    <3>2. p = Publish(r, update)
      BY <2>4
    <3>3. stage.text = text
      BY <1>2, <2>4, NoDelta
    <3>4. Assistant(i) \in DOMAIN r.artifacts /\ r.artifacts[Assistant(i)] = stage.text
      BY <1>5, <2>4
    <3> HIDE DEF p, goesOn, delta, nothing, update
    <3>5. /\ update.kind # "task" /\ update.id = Assistant(i) /\ update.text = <<>>
          /\ Appends(update)
      BY <3>1 DEF Update, Appends
    <3>6. <<>> \in Texts /\ stage.text \o <<>> = text
      BY <1>2, <3>3, EmptyText
    <3>7. /\ IsRun(p) /\ Agrees(p) /\ Same(r, p)
          /\ DOMAIN p.artifacts = DOMAIN r.artifacts \union {update.id}
          /\ \A x \in DOMAIN r.artifacts : x # update.id => p.artifacts[x] = r.artifacts[x]
          /\ update.id \in DOMAIN r.artifacts /\ Appends(update) =>
               p.artifacts[update.id] = r.artifacts[update.id] \o update.text
          /\ update.id \notin DOMAIN r.artifacts \/ ~Appends(update) =>
               p.artifacts[update.id] = update.text
      BY <1>6, <3>2, <3>5, <3>6, PublishUpdate
    <3> QED BY <3>4, <3>5, <3>6, <3>7
  <2> QED BY <2>1, <2>2, <2>3, <2>4
<1>8. closed => lastChunk \/ stage.closed
  OBVIOUS
<1>9. lastChunk => closed
  OBVIOUS
<1> HIDE DEF s, p, after, closed, nothing, update, delta, goesOn
<1>10. \A j \in DOMAIN r.stages : j # i /\ Assistant(j) \in DOMAIN r.artifacts =>
         /\ Assistant(j) \in DOMAIN p.artifacts
         /\ p.artifacts[Assistant(j)] = r.artifacts[Assistant(j)]
  BY <1>7, AssistantIds
<1>11. /\ Basic(s) /\ Frame(r, s) /\ s.staged = r.staged /\ s.thrown = r.thrown
       /\ s.stages[i] = after
       /\ \A j \in DOMAIN r.stages : j # i => s.stages[j] = r.stages[j]
  BY <1>1, <1>4, <1>7, <1>10, Noted
<1>12. /\ s.stages[i].published /\ s.stages[i].text = text
       /\ lastChunk => s.stages[i].closed
       /\ s.stages[i].closed => lastChunk \/ r.stages[i].closed
  BY <1>4, <1>8, <1>9, <1>11
<1> QED BY <1>11, <1>12 DEF s

Thrown(r) == r.thrown

LEMMA ThrownUpdate ==
  ASSUME NEW r, Basic(r)
  PROVE  /\ LET s == [r EXCEPT !.thrown = TRUE]
            IN  /\ Basic(s) /\ Frame(r, s) /\ s.staged = r.staged /\ s.stages = r.stages
                /\ s.artifacts = r.artifacts /\ s.view = r.view /\ Thrown(s)
         /\ LET s == [r EXCEPT !.thrown = FALSE]
            IN  /\ Basic(s) /\ Frame(r, s) /\ s.staged = r.staged /\ s.stages = r.stages
                /\ s.artifacts = r.artifacts /\ s.view = r.view /\ ~Thrown(s)
<1> SUFFICES ASSUME NEW b \in BOOLEAN, NEW s, s = [r EXCEPT !.thrown = b]
             PROVE  /\ Basic(s) /\ Frame(r, s) /\ s.staged = r.staged /\ s.stages = r.stages
                    /\ s.artifacts = r.artifacts /\ s.view = r.view /\ s.thrown = b
  BY DEF Thrown
<1>1. /\ s.staged = r.staged /\ s.stages = r.stages /\ s.artifacts = r.artifacts
      /\ s.view = r.view /\ s.thrown = b /\ s.current = r.current
      /\ s.promoted = r.promoted
  BY DEF Basic, IsRun
<1>2. s \in [stages : Seq(Stage), current : Nat,
            staged : Seq(AssistantOutputs \union ToolOutputs), promoted : BOOLEAN,
            tools : Nat, queued : BOOLEAN, scheduled : BOOLEAN, failing : BOOLEAN,
            canceled : BOOLEAN, artifacts : {s.artifacts}, view : {s.view},
            thrown : BOOLEAN, events : Nat]
  BY DEF Basic, IsRun
<1>3. IsRun(s)
  BY <1>1, <1>2 DEF Basic, IsRun
<1>4. Shows(s) /\ Agrees(s) /\ Untold(s)
  BY <1>1 DEF Basic, Shows, Agrees, Untold
<1>5. Frame(r, s)
  BY <1>1 DEF Frame, Contents, Alike
<1> QED BY <1>1, <1>3, <1>4, <1>5 DEF Basic

Published(stage) == stage.published

\* A stage that shows nothing more is closed.
LEMMA ClosedUpdate ==
  ASSUME NEW r, Basic(r), HasTask(r), NEW i \in DOMAIN r.stages, Published(r.stages[i])
  PROVE  LET s == [Publish(r, Update(Assistant(i), <<>>, TRUE, TRUE))
                     EXCEPT !.stages[i].closed = TRUE]
         IN  /\ Basic(s) /\ Frame(r, s) /\ s.staged = r.staged /\ s.thrown = r.thrown
             /\ \A j \in DOMAIN r.stages : j # i => s.stages[j] = r.stages[j]
<1> DEFINE update == Update(Assistant(i), <<>>, TRUE, TRUE)
           p == Publish(r, update)
           stage == r.stages[i]
           after == [stage EXCEPT !.closed = TRUE]
           s == [p EXCEPT !.stages[i].closed = TRUE]
<1>1. stage \in Stage
  BY StageType DEF Basic
<1>2. /\ after \in Stage /\ Alike(after, stage) /\ after.text = stage.text
  BY <1>1 DEF Stage, Alike
<1>3. /\ update.kind # "task" /\ update.id = Assistant(i) /\ update.text = <<>>
      /\ Appends(update)
  BY DEF Update, Appends
<1>4. /\ Assistant(i) \in DOMAIN r.artifacts
      /\ r.artifacts[Assistant(i)] = stage.text
  BY DEF Basic, Shows, Published
<1>5. IsRun(r) /\ Agrees(r) /\ <<>> \in Texts /\ stage.text \o <<>> = stage.text
  BY <1>1, EmptyText DEF Basic, Stage
<1> HIDE DEF update, stage, after
<1>6. /\ IsRun(p) /\ Agrees(p) /\ Same(r, p)
      /\ DOMAIN p.artifacts = DOMAIN r.artifacts \union {Assistant(i)}
      /\ \A x \in DOMAIN r.artifacts : x # Assistant(i) => p.artifacts[x] = r.artifacts[x]
      /\ p.artifacts[Assistant(i)] = stage.text
  <2>1. update.kind # "task" /\ update.text \in Texts
    BY <1>3, <1>5
  <2>2. /\ IsRun(p) /\ Agrees(p) /\ Same(r, p)
        /\ DOMAIN p.artifacts = DOMAIN r.artifacts \union {update.id}
        /\ \A x \in DOMAIN r.artifacts : x # update.id => p.artifacts[x] = r.artifacts[x]
        /\ update.id \in DOMAIN r.artifacts /\ Appends(update) =>
             p.artifacts[update.id] = r.artifacts[update.id] \o update.text
    BY <1>5, <2>1, PublishUpdate
  <2> QED BY <1>3, <1>4, <1>5, <2>2
<1> HIDE DEF p
<1>7. s = [p EXCEPT !.stages[i] = after]
  <2>1. p.stages[i] = stage
    BY <1>6 DEF Same, stage
  <2> QED BY <2>1 DEF after
<1> HIDE DEF s
<1>8. \A j \in DOMAIN r.stages : j # i /\ Assistant(j) \in DOMAIN r.artifacts =>
        /\ Assistant(j) \in DOMAIN p.artifacts
        /\ p.artifacts[Assistant(j)] = r.artifacts[Assistant(j)]
  BY <1>6, AssistantIds
<1>9. /\ Assistant(i) \in DOMAIN p.artifacts
      /\ p.artifacts[Assistant(i)] = after.text
  BY <1>2, <1>6
<1>10. Alike(after, r.stages[i])
  BY <1>2 DEF stage
<1>11. /\ Basic(s) /\ Frame(r, s) /\ s.staged = r.staged /\ s.thrown = r.thrown
       /\ \A j \in DOMAIN r.stages : j # i => s.stages[j] = r.stages[j]
  BY <1>2, <1>6, <1>7, <1>8, <1>9, <1>10, Noted
<1> QED BY <1>11 DEF s, p, update

LEMMA PublishStageStep ==
  ASSUME NEW r, Basic(r), NEW i \in DOMAIN r.stages,
         NEW lastChunk \in BOOLEAN, NEW terminal \in BOOLEAN, NEW required \in BOOLEAN
  PROVE  LET s == PublishStage(r, i, lastChunk, terminal, required)
         IN  /\ Basic(s) /\ Frame(r, s) /\ s.staged = r.staged
             /\ \A j \in DOMAIN r.stages : j # i => s.stages[j] = r.stages[j]
             /\ s.stages[i].closed => lastChunk \/ r.stages[i].closed
             /\ (/\ HasTask(r) /\ ~Thrown(r) /\ lastChunk
                 /\ Visible(StageText(r.stages[i], terminal)))
                => /\ s.stages[i].published /\ s.stages[i].closed
                   /\ s.stages[i].text = StageText(r.stages[i], terminal)
             /\ Thrown(s) => \/ Thrown(r)
                             \/ required /\ ~Visible(StageText(r.stages[i], terminal))
             /\ Thrown(r) \/ ~HasTask(r) => s = r
<1> DEFINE s == PublishStage(r, i, lastChunk, terminal, required)
           stage == r.stages[i]
           text == StageText(stage, terminal)
<1>1. Frame(r, r)
  BY FrameItself
<1>2. CASE Thrown(r) \/ ~HasTask(r)
  <2>1. s = r
    BY <1>2 DEF PublishStage, Thrown, HasTask
  <2> HIDE DEF s
  <2> QED BY <1>1, <1>2, <2>1 DEF s
<1>3. CASE ~Thrown(r) /\ HasTask(r) /\ Visible(text)
  <2>1. s = PublishText(r, i, text, lastChunk)
    BY <1>3 DEF PublishStage, Thrown, HasTask
  <2>2. text \in Texts
    BY <1>3, StageType, StageTextType, VisibleText DEF Basic
  <2> HIDE DEF s, text
  <2>3. /\ Basic(s) /\ Frame(r, s) /\ s.staged = r.staged /\ s.thrown = r.thrown
        /\ s.stages[i].published /\ s.stages[i].text = text
        /\ lastChunk => s.stages[i].closed
        /\ s.stages[i].closed => lastChunk \/ r.stages[i].closed
        /\ \A j \in DOMAIN r.stages : j # i => s.stages[j] = r.stages[j]
    BY <1>3, <2>1, <2>2, PublishTextStep
  <2> QED BY <1>3, <2>3 DEF s, text, Thrown
<1>4. CASE /\ ~Thrown(r) /\ HasTask(r) /\ ~Visible(text)
           /\ required /\ ~stage.published /\ HasCandidates(text, stage.media)
  <2>1. s = [r EXCEPT !.thrown = TRUE]
    BY <1>4 DEF PublishStage, Thrown, HasTask
  <2> HIDE DEF s, text
  <2>2. Basic(s) /\ Frame(r, s) /\ s.staged = r.staged /\ s.stages = r.stages
    BY <2>1, ThrownUpdate
  <2> QED BY <1>4, <2>2 DEF s, text
<1>5. CASE /\ ~Thrown(r) /\ HasTask(r) /\ ~Visible(text)
           /\ ~(required /\ ~stage.published /\ HasCandidates(text, stage.media))
           /\ lastChunk /\ stage.published /\ ~stage.closed
  <2>1. s = [Publish(r, Update(Assistant(i), <<>>, TRUE, TRUE))
               EXCEPT !.stages[i].closed = TRUE]
    BY <1>5 DEF PublishStage, Thrown, HasTask
  <2>2. Published(stage) /\ HasTask(r)
    BY <1>5 DEF Published
  <2> HIDE DEF s, text
  <2>3. /\ Basic(s) /\ Frame(r, s) /\ s.staged = r.staged /\ s.thrown = r.thrown
        /\ \A j \in DOMAIN r.stages : j # i => s.stages[j] = r.stages[j]
    BY <2>1, <2>2, ClosedUpdate
  <2> QED BY <1>5, <2>3 DEF s, text, Thrown
<1>6. CASE /\ ~Thrown(r) /\ HasTask(r) /\ ~Visible(text)
           /\ ~(required /\ ~stage.published /\ HasCandidates(text, stage.media))
           /\ ~(lastChunk /\ stage.published /\ ~stage.closed)
  <2>1. s = r
    BY <1>6 DEF PublishStage, Thrown, HasTask
  <2> HIDE DEF s, text
  <2> QED BY <1>1, <1>6, <2>1 DEF s, text
<1> QED BY <1>2, <1>3, <1>4, <1>5, <1>6

\* More of a stage is published, after a reply or what was streamed.
More(r, i, kind) == PublishStage(r, i, FALSE, kind = "final", FALSE)

LEMMA PublishMore ==
  ASSUME NEW r, Basic(r), NEW i \in DOMAIN r.stages, NEW kind
  PROVE  LET s == More(r, i, kind)
         IN  /\ Basic(s) /\ Frame(r, s) /\ s.staged = r.staged
             /\ \A j \in DOMAIN r.stages : j # i => s.stages[j] = r.stages[j]
             /\ s.stages[i].closed => r.stages[i].closed
             /\ Thrown(s) => Thrown(r)
             /\ Thrown(r) \/ ~HasTask(r) => s = r
<1> DEFINE s == More(r, i, kind)
<1>1. PICK last \in BOOLEAN, terminal \in BOOLEAN, required \in BOOLEAN :
        s = PublishStage(r, i, last, terminal, required) /\ ~last /\ ~required
  BY DEF More
<1> HIDE DEF s
<1>2. /\ Basic(s) /\ Frame(r, s) /\ s.staged = r.staged
      /\ \A j \in DOMAIN r.stages : j # i => s.stages[j] = r.stages[j]
      /\ s.stages[i].closed => last \/ r.stages[i].closed
      /\ Thrown(s) => \/ Thrown(r)
                      \/ required /\ ~Visible(StageText(r.stages[i], terminal))
      /\ Thrown(r) \/ ~HasTask(r) => s = r
  BY <1>1, PublishStageStep
<1> QED BY <1>1, <1>2 DEF s

\* A stage is published to its end; when the task completes, it is an error
\* that nothing of it was accepted.
Finish(r, i, kind) == PublishStage(r, i, TRUE, TRUE, kind = "completed")

LEMMA PublishEnd ==
  ASSUME NEW r, Basic(r), NEW i \in DOMAIN r.stages, NEW kind
  PROVE  LET s == Finish(r, i, kind)
         IN  /\ Basic(s) /\ Frame(r, s) /\ s.staged = r.staged
             /\ \A j \in DOMAIN r.stages : j # i => s.stages[j] = r.stages[j]
             /\ HasTask(r) /\ ~Thrown(r) => Told(s.stages[i])
             /\ Thrown(s) => Thrown(r) \/ ~Visible(StageText(r.stages[i], TRUE))
             /\ Thrown(r) \/ ~HasTask(r) => s = r
<1> DEFINE s == Finish(r, i, kind)
           text == StageText(r.stages[i], TRUE)
<1>1. PICK last \in BOOLEAN, terminal \in BOOLEAN, required \in BOOLEAN :
        s = PublishStage(r, i, last, terminal, required) /\ last /\ terminal
  BY DEF Finish
<1>2. StageText(r.stages[i], terminal) = text
  BY <1>1
<1> HIDE DEF s, text
<1>3. /\ Basic(s) /\ Frame(r, s) /\ s.staged = r.staged
      /\ \A j \in DOMAIN r.stages : j # i => s.stages[j] = r.stages[j]
      /\ (/\ HasTask(r) /\ ~Thrown(r) /\ last
          /\ Visible(StageText(r.stages[i], terminal)))
         => /\ s.stages[i].published /\ s.stages[i].closed
            /\ s.stages[i].text = StageText(r.stages[i], terminal)
      /\ Thrown(s) => \/ Thrown(r)
                      \/ required /\ ~Visible(StageText(r.stages[i], terminal))
      /\ Thrown(r) \/ ~HasTask(r) => s = r
  <2>1. s = PublishStage(r, i, last, terminal, required)
    BY <1>1
  <2> QED BY <2>1, PublishStageStep
<1>4. Alike(s.stages[i], r.stages[i])
  BY <1>3 DEF Frame, Contents
<1>5. StageText(s.stages[i], TRUE) = text
  BY <1>4, AlikeText DEF text
<1>6. HasTask(r) /\ ~Thrown(r) => Told(s.stages[i])
  BY <1>1, <1>2, <1>3, <1>5 DEF Told
<1>7. Thrown(s) => Thrown(r) \/ ~Visible(text)
  BY <1>2, <1>3
<1> QED BY <1>3, <1>6, <1>7 DEF s, text

-----------------------------------------------------------------------------
(* From staging to a task.                                                 *)

\* s differs from r in what no property is about.
LEMMA OtherFields ==
  ASSUME NEW r, Basic(r), NEW s, IsRun(s), s.stages = r.stages, s.current = r.current,
         s.promoted = r.promoted, s.artifacts = r.artifacts, s.view = r.view
  PROVE  Basic(s) /\ Frame(r, s)
<1>1. Shows(s) /\ Agrees(s) /\ Untold(s)
  BY DEF Basic, Shows, Agrees, Untold
<1> QED BY <1>1 DEF Basic, Frame, Contents, Alike

LEMMA PublishOther ==
  ASSUME NEW r, Basic(r), HasTask(r), NEW event, event.kind # "task",
         event.text \in Texts, \A i : event.id # Assistant(i)
  PROVE  Basic(Publish(r, event)) /\ Same(r, Publish(r, event))
<1> DEFINE s == Publish(r, event)
<1>1. IsRun(r) /\ Agrees(r)
  BY DEF Basic
<1>2. /\ IsRun(s) /\ Agrees(s) /\ Same(r, s)
      /\ DOMAIN s.artifacts = DOMAIN r.artifacts \union {event.id}
      /\ \A id \in DOMAIN r.artifacts : id # event.id => s.artifacts[id] = r.artifacts[id]
  BY <1>1, PublishUpdate
<1> HIDE DEF s
<1>3. Shows(s)
  BY <1>2 DEF Basic, Shows, Same
<1>4. Untold(s)
  BY <1>2 DEF Untold, Same, HasTask
<1> QED BY <1>2, <1>3, <1>4 DEF Basic, s

LEMMA PublishToolStep ==
  ASSUME NEW r, Basic(r), HasTask(r), NEW tool \in ToolOutputs
  PROVE  LET s == PublishTool(r, tool)
         IN  Basic(s) /\ Frame(r, s) /\ s.staged = r.staged /\ s.stages = r.stages
<1> DEFINE s == PublishTool(r, tool)
<1>1. CASE Thrown(r)
  <2>1. s = r
    BY <1>1 DEF PublishTool, Thrown
  <2> QED BY <2>1, FrameItself
<1>2. CASE ~Thrown(r) /\ Visible(tool.text)
  <2> DEFINE update == Update(Tool(r.tools + 1), tool.text, FALSE, FALSE)
             p == Publish(r, update)
  <2>1. s = [p EXCEPT !.tools = @ + 1]
    BY <1>2 DEF PublishTool, Thrown
  <2>2. update.kind # "task" /\ update.text = tool.text /\ update.id = Tool(r.tools + 1)
    BY DEF Update
  <2>3. tool.text \in Texts
    BY <1>2, VisibleText DEF ToolOutputs
  <2> HIDE DEF update
  <2>4. \A i : update.id # Assistant(i)
    BY <2>2, OtherIds
  <2>5. Basic(p) /\ Same(r, p)
    BY <2>2, <2>3, <2>4, PublishOther
  <2> HIDE DEF p, s
  <2>6. PICK n \in Nat : s = [p EXCEPT !.tools = n]
    <3>1. p.tools + 1 \in Nat
      BY <2>5 DEF Basic, IsRun
    <3>2. s = [p EXCEPT !.tools = p.tools + 1]
      BY <2>1
    <3> QED BY <3>1, <3>2
  <2>7. /\ s.stages = p.stages /\ s.current = p.current /\ s.staged = p.staged
        /\ s.promoted = p.promoted /\ s.artifacts = p.artifacts /\ s.view = p.view
    BY <2>6, <2>5 DEF Basic, IsRun
  <2>8. s \in [stages : Seq(Stage), current : Nat,
            staged : Seq(AssistantOutputs \union ToolOutputs), promoted : BOOLEAN,
            tools : Nat, queued : BOOLEAN, scheduled : BOOLEAN, failing : BOOLEAN,
            canceled : BOOLEAN, artifacts : {s.artifacts}, view : {s.view},
            thrown : BOOLEAN, events : Nat]
    BY <2>6, <2>5 DEF Basic, IsRun
  <2>9. IsRun(s)
    BY <2>5, <2>7, <2>8 DEF Basic, IsRun
  <2>10. Basic(s) /\ Frame(p, s)
    BY <2>5, <2>7, <2>9, OtherFields
  <2>11. Frame(r, p) /\ p.staged = r.staged /\ p.stages = r.stages
    BY <2>5 DEF Same, Frame, Contents, Alike
  <2> QED BY <2>7, <2>10, <2>11, FrameAgain DEF s
<1>3. CASE ~Thrown(r) /\ ~Visible(tool.text)
  <2>1. s = [r EXCEPT !.thrown = HasCandidates(tool.text, tool.media)]
    BY <1>3 DEF PublishTool, Thrown
  <2>2. s = [r EXCEPT !.thrown = TRUE] \/ s = [r EXCEPT !.thrown = FALSE]
    BY <2>1 DEF HasCandidates
  <2> HIDE DEF s
  <2>3. Basic(s) /\ Frame(r, s) /\ s.staged = r.staged /\ s.stages = r.stages
    BY <2>2, ThrownUpdate
  <2> QED BY <2>3 DEF s
<1> QED BY <1>1, <1>2, <1>3

\* Nothing is closed that is not completed.
ClosedLate(r) == \A i \in DOMAIN r.stages : r.stages[i].closed => r.stages[i].completed

LEMMA OutputType ==
  ASSUME NEW r, IsRun(r), NEW k \in DOMAIN r.staged
  PROVE  \/ /\ r.staged[k] \in AssistantOutputs /\ r.staged[k].kind = "assistant"
            /\ r.staged[k].index \in DOMAIN r.stages
         \/ r.staged[k] \in ToolOutputs /\ r.staged[k].kind = "tool"
<1>1. r.staged[k] \in AssistantOutputs \union ToolOutputs
  BY DEF IsRun
<1>2. r.staged[k].kind = "assistant" => r.staged[k].index \in DOMAIN r.stages
  BY DEF IsRun
<1> QED BY <1>1, <1>2 DEF AssistantOutputs, ToolOutputs

\* The stage that an output publishes is published to the end if it is completed.
LEMMA FlushAssistant ==
  ASSUME NEW r, Basic(r), HasTask(r), NEW i \in DOMAIN r.stages,
         NEW completed \in BOOLEAN, completed = r.stages[i].completed
  PROVE  LET s == PublishStage(r, i, completed, completed, completed)
         IN  /\ Basic(s) /\ Frame(r, s) /\ s.staged = r.staged
             /\ ClosedLate(r) => ClosedLate(s)
             /\ \A j \in DOMAIN r.stages : Told(r.stages[j]) => Told(s.stages[j])
             /\ ~Thrown(r) => Told(s.stages[i])
<1> DEFINE s == PublishStage(r, i, completed, completed, completed)
           text == StageText(r.stages[i], TRUE)
<1>1. /\ Basic(s) /\ Frame(r, s) /\ s.staged = r.staged
      /\ \A j \in DOMAIN r.stages : j # i => s.stages[j] = r.stages[j]
      /\ s.stages[i].closed => completed \/ r.stages[i].closed
      /\ Thrown(r) \/ ~HasTask(r) => s = r
  BY PublishStageStep
<1>2. ~Thrown(r) /\ completed /\ Visible(text)
        => s.stages[i].published /\ s.stages[i].closed /\ s.stages[i].text = text
  <2> SUFFICES ASSUME ~Thrown(r), completed = TRUE, Visible(text)
               PROVE  s.stages[i].published /\ s.stages[i].closed /\ s.stages[i].text = text
    OBVIOUS
  <2>1. s = PublishStage(r, i, TRUE, TRUE, TRUE)
    OBVIOUS
  <2> HIDE DEF s, text
  <2> QED BY <2>1, PublishStageStep DEF text
<1> HIDE DEF s, text
<1>3. /\ DOMAIN s.stages = DOMAIN r.stages
      /\ \A j \in DOMAIN r.stages : Alike(s.stages[j], r.stages[j])
  BY <1>1 DEF Frame, Contents
<1>4. StageText(s.stages[i], TRUE) = text /\ s.stages[i].completed = completed
  <2>1. Alike(s.stages[i], r.stages[i])
    BY <1>3
  <2>2. StageText(s.stages[i], TRUE) = text
    BY <2>1, AlikeText DEF text
  <2>3. s.stages[i].completed = completed
    BY <2>1 DEF Alike
  <2> QED BY <2>2, <2>3
<1>5. ~Thrown(r) => Told(s.stages[i])
  BY <1>2, <1>4 DEF Told
<1>6. \A j \in DOMAIN r.stages : Told(r.stages[j]) => Told(s.stages[j])
  BY <1>1, <1>5
<1>7. ClosedLate(r) => ClosedLate(s)
  BY <1>1, <1>3, <1>4 DEF ClosedLate
<1> QED BY <1>1, <1>5, <1>6, <1>7 DEF s

LEMMA FlushOutputStep ==
  ASSUME NEW r, Basic(r), HasTask(r), NEW k
  PROVE  LET s == FlushOutput(r, k)
         IN  /\ Basic(s) /\ Frame(r, s) /\ s.staged = r.staged
             /\ ClosedLate(r) => ClosedLate(s)
             /\ \A j \in DOMAIN r.stages : Told(r.stages[j]) => Told(s.stages[j])
             /\ k \in DOMAIN r.staged /\ r.staged[k].kind = "assistant" /\ ~Thrown(r)
                => Told(s.stages[r.staged[k].index])
<1> DEFINE s == FlushOutput(r, k)
<1>1. IsRun(r)
  BY DEF Basic
<1>2. CASE k \notin DOMAIN r.staged
  <2>1. s = r
    BY <1>2 DEF FlushOutput
  <2> HIDE DEF s
  <2> QED BY <1>2, <2>1, FrameItself DEF s
<1>3. CASE k \in DOMAIN r.staged /\ r.staged[k].kind = "tool"
  <2>1. s = PublishTool(r, r.staged[k]) /\ r.staged[k] \in ToolOutputs
    BY <1>1, <1>3, OutputType DEF FlushOutput
  <2> HIDE DEF s
  <2>2. Basic(s) /\ Frame(r, s) /\ s.staged = r.staged /\ s.stages = r.stages
    BY <2>1, PublishToolStep
  <2> QED BY <1>3, <2>2 DEF s, ClosedLate
<1>4. CASE k \in DOMAIN r.staged /\ r.staged[k].kind = "assistant"
  <2> DEFINE i == r.staged[k].index
             completed == r.stages[i].completed
  <2>1. i \in DOMAIN r.stages
    BY <1>1, <1>4, OutputType
  <2>2. s = PublishStage(r, i, completed, completed, completed)
    BY <1>4 DEF FlushOutput
  <2>3. completed \in BOOLEAN
    BY <1>1, <2>1, StageType DEF Stage
  <2> HIDE DEF s, i
  <2>4. /\ Basic(s) /\ Frame(r, s) /\ s.staged = r.staged
        /\ ClosedLate(r) => ClosedLate(s)
        /\ \A j \in DOMAIN r.stages : Told(r.stages[j]) => Told(s.stages[j])
        /\ ~Thrown(r) => Told(s.stages[i])
    BY <2>1, <2>2, <2>3, FlushAssistant
  <2> QED BY <2>4 DEF s, i
<1> QED BY <1>1, <1>2, <1>3, <1>4, OutputType

LEMMA FlushStagedStep ==
  ASSUME NEW r, Basic(r), HasTask(r)
  PROVE  LET s == FlushStaged(r)
         IN  /\ Basic(s) /\ Frame(r, s)
             /\ ClosedLate(r) => ClosedLate(s)
             /\ \A j \in DOMAIN r.stages : Told(r.stages[j]) => Told(s.stages[j])
             /\ r.staged # <<>> /\ r.staged[1].kind = "assistant" /\ ~Thrown(r)
                => Told(s.stages[r.staged[1].index])
<1> DEFINE p == FlushOutput(r, 1)
           q == FlushOutput(p, 2)
           s == FlushStaged(r)
<1>1. /\ Basic(p) /\ Frame(r, p) /\ p.staged = r.staged
      /\ ClosedLate(r) => ClosedLate(p)
      /\ \A j \in DOMAIN r.stages : Told(r.stages[j]) => Told(p.stages[j])
      /\ 1 \in DOMAIN r.staged /\ r.staged[1].kind = "assistant" /\ ~Thrown(r)
         => Told(p.stages[r.staged[1].index])
  BY FlushOutputStep
<1>2. s = IF q.thrown THEN q ELSE [q EXCEPT !.staged = <<>>]
  BY DEF FlushStaged
<1> HIDE DEF p
<1>3. HasTask(p)
  BY <1>1 DEF HasTask, Frame
<1>4. /\ Basic(q) /\ Frame(p, q)
      /\ ClosedLate(p) => ClosedLate(q)
      /\ \A j \in DOMAIN p.stages : Told(p.stages[j]) => Told(q.stages[j])
  BY <1>1, <1>3, FlushOutputStep
<1> HIDE DEF q, s
<1>5. Basic(s) /\ Frame(q, s) /\ s.stages = q.stages
  <2>1. CASE s = q
    BY <1>4, <2>1, FrameItself
  <2>2. CASE s = [q EXCEPT !.staged = <<>>]
    <3>1. <<>> \in Seq(AssistantOutputs \union ToolOutputs)
      BY EmptySeq
    <3>2. /\ s.stages = q.stages /\ s.current = q.current /\ s.staged = <<>>
          /\ s.promoted = q.promoted /\ s.artifacts = q.artifacts /\ s.view = q.view
      BY <1>4, <2>2 DEF Basic, IsRun
    <3>3. s \in [stages : Seq(Stage), current : Nat,
                 staged : Seq(AssistantOutputs \union ToolOutputs), promoted : BOOLEAN,
                 tools : Nat, queued : BOOLEAN, scheduled : BOOLEAN, failing : BOOLEAN,
                 canceled : BOOLEAN, artifacts : {s.artifacts}, view : {s.view},
                 thrown : BOOLEAN, events : Nat]
      BY <1>4, <2>2, <3>1 DEF Basic, IsRun
    <3>4. IsRun(s)
      BY <1>4, <3>2, <3>3 DEF Basic, IsRun
    <3> QED BY <1>4, <3>2, <3>4, OtherFields
  <2> QED BY <1>2, <2>1, <2>2
<1>6. Basic(s) /\ Frame(r, s)
  BY <1>1, <1>4, <1>5, FrameAgain
<1>7. ClosedLate(r) => ClosedLate(s)
  BY <1>1, <1>4, <1>5 DEF ClosedLate
<1>8. DOMAIN p.stages = DOMAIN r.stages
  BY <1>1 DEF Frame, Contents
<1>9. \A j \in DOMAIN r.stages : Told(p.stages[j]) => Told(s.stages[j])
  BY <1>4, <1>5, <1>8
<1>10. \A j \in DOMAIN r.stages : Told(r.stages[j]) => Told(s.stages[j])
  BY <1>1, <1>9
<1>11. r.staged # <<>> /\ r.staged[1].kind = "assistant" /\ ~Thrown(r)
         => Told(s.stages[r.staged[1].index])
  <2> SUFFICES ASSUME r.staged # <<>>, r.staged[1].kind = "assistant", ~Thrown(r)
               PROVE  Told(s.stages[r.staged[1].index])
    OBVIOUS
  <2>1. IsRun(r)
    BY DEF Basic
  <2>2. r.staged \in Seq(AssistantOutputs \union ToolOutputs)
    BY <2>1 DEF IsRun
  <2>3. 1 \in DOMAIN r.staged
    BY <2>2
  <2>4. r.staged[1].index \in DOMAIN r.stages
    BY <2>1, <2>3 DEF IsRun
  <2> QED BY <1>1, <1>9, <2>3, <2>4
<1> QED BY <1>6, <1>7, <1>10, <1>11 DEF s

\* Every completed stage is the first that is staged.
Waiting(r) ==
  \A i \in DOMAIN r.stages :
    r.stages[i].completed =>
      r.staged # <<>> /\ r.staged[1].kind = "assistant" /\ r.staged[1].index = i

LEMMA BeforeType == \A id \in DOMAIN Before : Before[id] \in Texts
<1>1. <<Space>> \in Texts
  BY OutputAssumption DEF Texts
<1> QED BY <1>1 DEF Before, Earlier, NoArtifacts

\* The task that is published first shows what an earlier execution left.
LEMMA SnapshotStep ==
  ASSUME NEW r, Basic(r), ~HasTask(r)
  PROVE  LET s == Publish([r EXCEPT !.promoted = TRUE], Snapshot)
         IN  /\ Basic(s) /\ HasTask(s) /\ s.stages = r.stages /\ s.current = r.current
             /\ s.staged = r.staged /\ s.thrown = r.thrown
<1> DEFINE p == [r EXCEPT !.promoted = TRUE]
           s == Publish(p, Snapshot)
<1>1. /\ p.stages = r.stages /\ p.current = r.current /\ p.staged = r.staged
      /\ p.promoted = TRUE /\ p.artifacts = r.artifacts /\ p.view = r.view
      /\ p.thrown = r.thrown
  BY DEF Basic, IsRun
<1>2. p \in [stages : Seq(Stage), current : Nat,
             staged : Seq(AssistantOutputs \union ToolOutputs), promoted : BOOLEAN,
             tools : Nat, queued : BOOLEAN, scheduled : BOOLEAN, failing : BOOLEAN,
             canceled : BOOLEAN, artifacts : {p.artifacts}, view : {p.view},
             thrown : BOOLEAN, events : Nat]
  BY DEF Basic, IsRun
<1> HIDE DEF p
<1>3. IsRun(p)
  BY <1>1, <1>2 DEF Basic, IsRun
<1>4. \A a : Merge(a, Snapshot) = Before /\ Accumulate(a, Snapshot) = Before
  BY DEF Merge, Accumulate, Snapshot
<1>5. /\ Same(p, s) /\ s.artifacts = Before
      /\ s.view = IF p.view = None THEN None ELSE Before
  BY <1>3, <1>4, PublishFields
<1>6. IsRun(s)
  BY <1>3, <1>4, PublishType, BeforeType
<1> HIDE DEF s
<1>7. \A i \in DOMAIN r.stages : ~r.stages[i].published
  BY DEF Basic, Untold, HasTask
<1>8. Shows(s)
  BY <1>1, <1>5, <1>7 DEF Shows, Same
<1>9. Agrees(s)
  BY <1>5 DEF Agrees
<1>10. Untold(s) /\ HasTask(s)
  BY <1>1, <1>5 DEF Untold, HasTask, Same
<1>11. /\ s.stages = r.stages /\ s.current = r.current
       /\ s.staged = r.staged /\ s.thrown = r.thrown
  BY <1>1, <1>5 DEF Same
<1> QED BY <1>6, <1>8, <1>9, <1>10, <1>11 DEF Basic, s, p

LEMMA PromoteStep ==
  ASSUME NEW r, Basic(r)
  PROVE  LET s == Promote(r)
         IN  /\ Basic(s) /\ Contents(r, s)
             /\ HasTask(r) \/ Thrown(r) => s = r
             /\ HasTask(s) <=> HasTask(r) \/ ~Thrown(r)
             /\ ClosedLate(r) => ClosedLate(s)
             /\ Waiting(r) /\ ~HasTask(r) /\ ~Thrown(r) =>
                  \A i \in DOMAIN r.stages : Told(s.stages[i])
<1> DEFINE s == Promote(r)
<1>1. CASE HasTask(r) \/ Thrown(r)
  <2>1. s = r
    BY <1>1 DEF Promote, HasTask, Thrown
  <2> HIDE DEF s
  <2>2. Contents(r, r)
    BY FrameItself DEF Frame
  <2> QED BY <1>1, <2>1, <2>2 DEF s
<1>2. CASE ~HasTask(r) /\ ~Thrown(r)
  <2> DEFINE p == Publish([r EXCEPT !.promoted = TRUE], Snapshot)
  <2>1. s = FlushStaged(p)
    BY <1>2 DEF Promote, HasTask, Thrown
  <2>2. /\ Basic(p) /\ HasTask(p) /\ p.stages = r.stages /\ p.current = r.current
        /\ p.staged = r.staged /\ p.thrown = r.thrown
    BY <1>2, SnapshotStep
  <2> HIDE DEF p, s
  <2>3. /\ Basic(s) /\ Frame(p, s)
        /\ ClosedLate(p) => ClosedLate(s)
        /\ \A j \in DOMAIN p.stages : Told(p.stages[j]) => Told(s.stages[j])
        /\ p.staged # <<>> /\ p.staged[1].kind = "assistant" /\ ~Thrown(p)
           => Told(s.stages[p.staged[1].index])
    BY <2>1, <2>2, FlushStagedStep
  <2>4. Contents(r, s) /\ HasTask(s)
    BY <2>2, <2>3 DEF Frame, Contents, HasTask
  <2>5. ClosedLate(r) => ClosedLate(s)
    BY <2>2, <2>3 DEF ClosedLate
  <2>6. ASSUME Waiting(r), NEW i \in DOMAIN r.stages PROVE Told(s.stages[i])
    <3>1. CASE r.stages[i].completed
      BY <1>2, <2>2, <2>3, <2>6, <3>1 DEF Waiting, Thrown
    <3>2. CASE ~r.stages[i].completed
      <4>1. Told(r.stages[i])
        BY <3>2 DEF Told
      <4> QED BY <2>2, <2>3, <4>1
    <3> QED BY <3>1, <3>2
  <2> QED BY <1>2, <2>3, <2>4, <2>5, <2>6 DEF s
<1> QED BY <1>1, <1>2

-----------------------------------------------------------------------------
(* The stages.                                                             *)

\* A record that differs from r only in what no property is about.
Beside(r, s) ==
  /\ IsRun(s) /\ s.stages = r.stages /\ s.current = r.current
  /\ s.promoted = r.promoted /\ s.artifacts = r.artifacts /\ s.view = r.view
  /\ s.staged = r.staged /\ s.thrown = r.thrown

LEMMA BesideStep ==
  \A r, s : Basic(r) /\ Beside(r, s) => Basic(s) /\ Frame(r, s)
  BY OtherFields DEF Beside

\* A stage that is settled stays so when more of the current one is published.
LEMMA FlushQueuedStep ==
  ASSUME NEW r, Basic(r)
  PROVE  LET s == FlushQueued(r)
         IN  /\ Basic(s) /\ Frame(r, s) /\ s.staged = r.staged
             /\ Thrown(s) => Thrown(r)
             /\ ~HasTask(r) => s.artifacts = r.artifacts
             /\ ClosedLate(r) => ClosedLate(s)
             /\ Quiet(r) => \A i \in DOMAIN r.stages : Told(r.stages[i]) => Told(s.stages[i])
<1> DEFINE q == [r EXCEPT !.queued = FALSE]
           s == FlushQueued(r)
<1>1. Beside(r, r)
  BY DEF Basic, Beside
<1>2. Beside(r, q)
  <2>1. /\ q.stages = r.stages /\ q.current = r.current
        /\ q.promoted = r.promoted /\ q.artifacts = r.artifacts /\ q.view = r.view
        /\ q.staged = r.staged /\ q.thrown = r.thrown
    BY DEF Basic, IsRun
  <2>2. q \in [stages : Seq(Stage), current : Nat,
               staged : Seq(AssistantOutputs \union ToolOutputs), promoted : BOOLEAN,
               tools : Nat, queued : BOOLEAN, scheduled : BOOLEAN, failing : BOOLEAN,
               canceled : BOOLEAN, artifacts : {q.artifacts}, view : {q.view},
               thrown : BOOLEAN, events : Nat]
    BY DEF Basic, IsRun
  <2> HIDE DEF q
  <2> QED BY <2>1, <2>2 DEF Basic, IsRun, Beside
<1>3. \/ s = r \/ s = q
      \/ r.current # 0 /\ s = More(q, r.current, "block")
  BY DEF FlushQueued, More
<1> HIDE DEF q, s
<1>4. CASE Beside(r, s)
  <2>1. Basic(s) /\ Frame(r, s)
    BY <1>4, BesideStep
  <2> QED BY <1>4, <2>1 DEF s, Beside, Thrown, ClosedLate
<1>5. CASE r.current # 0 /\ s = More(q, r.current, "block")
  <2>1. Basic(q) /\ Frame(r, q) /\ q.stages = r.stages /\ q.current = r.current
    BY <1>2, BesideStep DEF Beside
  <2>2. r.current \in DOMAIN q.stages
    BY <1>5, <2>1 DEF Basic, IsRun
  <2>3. /\ Basic(s) /\ Frame(q, s) /\ s.staged = q.staged
        /\ \A j \in DOMAIN q.stages : j # r.current => s.stages[j] = q.stages[j]
        /\ s.stages[r.current].closed => q.stages[r.current].closed
        /\ Thrown(s) => Thrown(q)
        /\ ~HasTask(q) => s = q
    BY <1>5, <2>1, <2>2, PublishMore
  <2>4. Frame(r, s)
    BY <2>1, <2>3, FrameAgain
  <2>5. ClosedLate(r) => ClosedLate(s)
    BY <2>1, <2>2, <2>3 DEF ClosedLate, Frame, Contents, Alike
  <2>6. ASSUME Quiet(r), NEW i \in DOMAIN r.stages, Told(r.stages[i])
        PROVE  Told(s.stages[i])
    <3>1. CASE i # r.current
      BY <2>1, <2>3, <2>6, <3>1
    <3>2. CASE i = r.current
      <4>1. r.stages[i].completed => ~Visible(StageText(r.stages[i], TRUE))
        BY <2>6, <3>2 DEF Quiet
      <4>2. Alike(s.stages[i], r.stages[i])
        BY <2>4 DEF Frame, Contents
      <4>3. s.stages[i].completed = r.stages[i].completed
        BY <4>2 DEF Alike
      <4>4. StageText(s.stages[i], TRUE) = StageText(r.stages[i], TRUE)
        BY <4>2, AlikeText
      <4> QED BY <4>1, <4>3, <4>4 DEF Told
    <3> QED BY <3>1, <3>2
  <2>7. /\ s.staged = r.staged /\ (Thrown(s) => Thrown(r))
        /\ ~HasTask(r) => s.artifacts = r.artifacts
    BY <1>2, <2>3 DEF Beside, Thrown, HasTask
  <2> QED BY <2>3, <2>4, <2>5, <2>6, <2>7 DEF s
<1> QED BY <1>1, <1>2, <1>3, <1>4, <1>5

Begun(r) == [r EXCEPT !.stages = Append(@, NewStage), !.current = Len(r.stages) + 1]
Output(i) == [kind |-> "assistant", index |-> i]
Staged(r) == [Begun(r) EXCEPT !.staged = Append(@, Output(Len(r.stages) + 1))]

LEMMA NewStageType ==
  /\ NewStage \in Stage /\ ~NewStage.published /\ ~NewStage.completed /\ ~NewStage.closed
  BY EmptyText DEF NewStage, Stage, OptText

\* A stage begins.
Longer(r, s) ==
  /\ s.current = r.current + 1 /\ s.current = Len(s.stages)
  /\ DOMAIN s.stages = 1..r.current + 1 /\ DOMAIN r.stages = 1..r.current
  /\ s.stages[r.current + 1] = NewStage
  /\ \A j \in DOMAIN r.stages : s.stages[j] = r.stages[j]

LEMMA BegunStep ==
  ASSUME NEW r, Basic(r)
  PROVE  LET s == Begun(r)
         IN  /\ Basic(s) /\ Longer(r, s)
             /\ s.promoted = r.promoted /\ s.staged = r.staged /\ s.thrown = r.thrown
             /\ s.artifacts = r.artifacts
<1> DEFINE s == Begun(r)
<1>1. r.stages \in Seq(Stage) /\ r.current = Len(r.stages)
  BY DEF Basic, IsRun
<1>2. /\ Append(r.stages, NewStage) \in Seq(Stage)
      /\ Len(Append(r.stages, NewStage)) = Len(r.stages) + 1
      /\ \A j \in 1..Len(r.stages) : Append(r.stages, NewStage)[j] = r.stages[j]
      /\ Append(r.stages, NewStage)[Len(r.stages) + 1] = NewStage
  BY <1>1, NewStageType, AppendProperties
<1>3. /\ s.stages = Append(r.stages, NewStage) /\ s.current = Len(r.stages) + 1
      /\ s.promoted = r.promoted /\ s.staged = r.staged /\ s.thrown = r.thrown
      /\ s.artifacts = r.artifacts /\ s.view = r.view
  BY DEF Begun, Basic, IsRun
<1>4. Longer(r, s)
  BY <1>1, <1>2, <1>3 DEF Longer
<1>5. s \in [stages : Seq(Stage), current : Nat,
             staged : Seq(AssistantOutputs \union ToolOutputs), promoted : BOOLEAN,
             tools : Nat, queued : BOOLEAN, scheduled : BOOLEAN, failing : BOOLEAN,
             canceled : BOOLEAN, artifacts : {s.artifacts}, view : {s.view},
             thrown : BOOLEAN, events : Nat]
  <2> DEFINE list == Append(r.stages, NewStage)
             n == Len(r.stages) + 1
  <2>1. list \in Seq(Stage) /\ n \in Nat
    BY <1>1, <1>2
  <2>2. s = [r EXCEPT !.stages = list, !.current = n]
    BY DEF Begun
  <2> HIDE DEF list, n, s
  <2> QED BY <2>1, <2>2 DEF Basic, IsRun
<1> HIDE DEF s
<1>6. IsRun(s)
  BY <1>1, <1>2, <1>3, <1>4, <1>5 DEF Basic, IsRun, Longer
<1>7. \A j \in DOMAIN s.stages :
        s.stages[j].published => j \in DOMAIN r.stages /\ s.stages[j] = r.stages[j]
  <2> SUFFICES ASSUME NEW j \in DOMAIN s.stages, Published(s.stages[j])
               PROVE  j \in DOMAIN r.stages /\ s.stages[j] = r.stages[j]
    BY DEF Published
  <2>1. j # r.current + 1
    BY <1>4, NewStageType DEF Longer, Published
  <2>2. r.current \in Nat
    BY DEF Basic, IsRun
  <2> QED BY <1>4, <2>1, <2>2 DEF Longer
<1>8. Shows(s)
  BY <1>3, <1>7 DEF Basic, Shows
<1>9. Agrees(s) /\ Untold(s)
  BY <1>3, <1>7 DEF Basic, Agrees, Untold
<1> QED BY <1>3, <1>4, <1>6, <1>8, <1>9 DEF Basic, s

LEMMA StagedStep ==
  ASSUME NEW r, Basic(r)
  PROVE  LET s == Staged(r)
         IN  /\ Basic(s) /\ Longer(r, s)
             /\ s.promoted = r.promoted /\ s.thrown = r.thrown /\ s.artifacts = r.artifacts
             /\ s.staged = Append(r.staged, Output(Len(r.stages) + 1))
<1> DEFINE p == Begun(r)
           s == Staged(r)
           i == Len(r.stages) + 1
<1>1. /\ Basic(p) /\ Longer(r, p)
      /\ p.promoted = r.promoted /\ p.staged = r.staged /\ p.thrown = r.thrown
      /\ p.artifacts = r.artifacts
  BY BegunStep
<1>2. s = [p EXCEPT !.staged = Append(p.staged, Output(i))]
  BY DEF Staged
<1> HIDE DEF p, s
<1>3. r.current = Len(r.stages) /\ Len(r.stages) \in Nat
  BY DEF Basic, IsRun
<1>4. Output(i) \in AssistantOutputs \union ToolOutputs
  BY <1>3 DEF Output, AssistantOutputs
<1>5. p.staged \in Seq(AssistantOutputs \union ToolOutputs)
  BY <1>1 DEF Basic, IsRun
<1>6. /\ Append(p.staged, Output(i)) \in Seq(AssistantOutputs \union ToolOutputs)
      /\ Len(Append(p.staged, Output(i))) = Len(p.staged) + 1
      /\ \A j \in 1..Len(p.staged) : Append(p.staged, Output(i))[j] = p.staged[j]
      /\ Append(p.staged, Output(i))[Len(p.staged) + 1] = Output(i)
  BY <1>4, <1>5, AppendProperties
<1>7. /\ s.stages = p.stages /\ s.current = p.current /\ s.promoted = p.promoted
      /\ s.staged = Append(p.staged, Output(i)) /\ s.thrown = p.thrown
      /\ s.artifacts = p.artifacts /\ s.view = p.view
  BY <1>1, <1>2 DEF Basic, IsRun
<1>8. s \in [stages : Seq(Stage), current : Nat,
             staged : Seq(AssistantOutputs \union ToolOutputs), promoted : BOOLEAN,
             tools : Nat, queued : BOOLEAN, scheduled : BOOLEAN, failing : BOOLEAN,
             canceled : BOOLEAN, artifacts : {s.artifacts}, view : {s.view},
             thrown : BOOLEAN, events : Nat]
  BY <1>1, <1>2, <1>6 DEF Basic, IsRun
<1>9. \A k \in DOMAIN s.staged :
        s.staged[k].kind = "assistant" => s.staged[k].index \in DOMAIN s.stages
  <2> SUFFICES ASSUME NEW k \in DOMAIN s.staged, s.staged[k].kind = "assistant"
               PROVE  s.staged[k].index \in DOMAIN s.stages
    OBVIOUS
  <2>1. k \in 1..Len(p.staged) \/ k = Len(p.staged) + 1
    BY <1>5, <1>6, <1>7
  <2>2. CASE k \in 1..Len(p.staged)
    BY <1>1, <1>5, <1>6, <1>7, <2>2 DEF Basic, IsRun
  <2>3. CASE k = Len(p.staged) + 1
    BY <1>1, <1>3, <1>6, <1>7, <2>3 DEF Longer, Output
  <2> QED BY <2>1, <2>2, <2>3
<1>10. IsRun(s)
  BY <1>1, <1>7, <1>8, <1>9 DEF Basic, IsRun
<1>11. Basic(s)
  BY <1>1, <1>7, <1>10, OtherFields
<1>12. Longer(r, s)
  BY <1>1, <1>7 DEF Longer
<1> QED BY <1>1, <1>7, <1>11, <1>12 DEF s

\* How StartStage goes on.
LEMMA StartStageCases ==
  ASSUME NEW r, Basic(r)
  PROVE  LET s == StartStage(r)
         IN  /\ Thrown(r) \/ Open(r) => s = r
             /\ ~Thrown(r) /\ ~Open(r) =>
                  /\ HasTask(r) => s = Begun(r)
                  /\ ~HasTask(r) /\ r.current # 0 => s = Promote(Staged(r))
                  /\ ~HasTask(r) /\ r.current = 0 => s = Staged(r)
<1>1. r.current = Len(r.stages) /\ Len(r.stages) \in Nat
  BY DEF Basic, IsRun
<1>2. Len(r.stages) + 1 > 1 <=> r.current # 0
  BY <1>1
<1> QED BY <1>2 DEF StartStage, Begun, Staged, Output, Thrown, HasTask

LEMMA StartStageBasic ==
  ASSUME NEW r, Basic(r)
  PROVE  Basic(StartStage(r))
<1>1. Basic(Begun(r)) /\ Basic(Staged(r))
  BY BegunStep, StagedStep
<1>2. Basic(Promote(Staged(r)))
  BY <1>1, PromoteStep
<1> QED BY <1>1, <1>2, StartStageCases

\* What holds while the current stage may be completed and not yet published.
Almost(r) ==
  /\ Past(r)
  /\ HasTask(r) => \A i \in DOMAIN r.stages : i # r.current => Told(r.stages[i])
  /\ ~HasTask(r) => Begins(r)

LEMMA GoodIsAlmost == \A r : Good(r) => Almost(r)
  BY DEF Good, Almost, Settled, Early

LEMMA PastIsLate == \A r : Past(r) => ClosedLate(r)
  BY DEF Past, ClosedLate

LEMMA AtMostOne == \A n \in Nat : n <= 1 => n = 0 \/ n = 1
  OBVIOUS

\* A stage begins when the last one, if there is one, is completed.
LEMMA StartStageStep ==
  ASSUME NEW r, Basic(r), Almost(r), ~Thrown(r), ~Open(r)
  PROVE  LET s == StartStage(r)
         IN  /\ s.current = r.current + 1
             /\ Past(s) /\ Early(s) /\ Quiet(s)
             /\ \A i \in DOMAIN s.stages :
                  (HasTask(r) => i # r.current) /\ HasTask(s) => Told(s.stages[i])
             /\ ~s.stages[s.current].completed
             /\ HasTask(r) => ~Thrown(s) /\ HasTask(s) /\ Longer(r, s)
             /\ r.current # 0 => r.current \in DOMAIN s.stages
                                 /\ s.stages[r.current].completed
<1> DEFINE s == StartStage(r)
<1>1. r.current = Len(r.stages) /\ r.stages \in Seq(Stage)
  BY DEF Basic, IsRun
<1>2. r.current \in Nat /\ Len(r.stages) \in Nat
  BY <1>1
<1>3. ASSUME NEW p, Longer(r, p)
      PROVE  /\ Past(p) /\ ~p.stages[p.current].completed
             /\ r.current # 0 => r.current \in DOMAIN p.stages
                                 /\ p.stages[r.current].completed
  <2>1. \A i \in DOMAIN r.stages : r.stages[i].completed
    BY <1>1 DEF Almost, Past, Open
  <2>2. p.stages[r.current + 1] = NewStage /\ p.current = r.current + 1
    BY <1>3 DEF Longer
  <2>3. \A i \in DOMAIN p.stages :
          \/ i = p.current
          \/ i \in DOMAIN r.stages /\ p.stages[i] = r.stages[i] /\ i < p.current
    BY <1>1, <1>3 DEF Longer
  <2>4. Past(p)
    <3> SUFFICES ASSUME NEW i \in DOMAIN p.stages
                 PROVE  /\ i < p.current => p.stages[i].completed
                        /\ p.stages[i].closed => p.stages[i].completed
      BY DEF Past
    <3>1. CASE i = p.current
      <4>1. ~(i < p.current)
        BY <1>2, <2>2, <3>1
      <4> QED BY <2>2, <3>1, <4>1, NewStageType
    <3>2. CASE i \in DOMAIN r.stages /\ p.stages[i] = r.stages[i]
      BY <2>1, <3>2
    <3> QED BY <2>3, <3>1, <3>2
  <2>5. r.current # 0 => /\ r.current \in DOMAIN r.stages
                         /\ r.current \in DOMAIN p.stages
                         /\ p.stages[r.current] = r.stages[r.current]
    BY <1>1, <1>3 DEF Longer
  <2> QED BY <2>1, <2>2, <2>4, <2>5, NewStageType
<1>4. CASE HasTask(r)
  <2>1. s = Begun(r)
    BY <1>4, StartStageCases
  <2>2. /\ Longer(r, s) /\ s.promoted = r.promoted /\ s.thrown = r.thrown
    BY <2>1, BegunStep
  <2> HIDE DEF s
  <2>3. /\ Past(s) /\ ~s.stages[s.current].completed
        /\ r.current # 0 => r.current \in DOMAIN s.stages
                            /\ s.stages[r.current].completed
    BY <1>3, <2>2
  <2>4. s.current = r.current + 1 /\ ~Thrown(s) /\ HasTask(s)
    BY <1>4, <2>2 DEF Longer, Thrown, HasTask
  <2>5. ASSUME NEW i \in DOMAIN s.stages, i # r.current PROVE Told(s.stages[i])
    <3>1. CASE i \in DOMAIN r.stages
      BY <1>4, <2>2, <2>5, <3>1 DEF Almost, Longer
    <3>2. CASE i = s.current
      BY <2>3, <3>2 DEF Told
    <3> QED BY <1>1, <2>2, <3>1, <3>2 DEF Longer
  <2>6. Early(s) /\ Quiet(s)
    BY <2>3, <2>4 DEF Early, Quiet
  <2> QED BY <1>4, <2>2, <2>3, <2>4, <2>5, <2>6 DEF s
<1>5. CASE ~HasTask(r) /\ r.current # 0
  <2> DEFINE p == Staged(r)
  <2>1. s = Promote(p)
    BY <1>5, StartStageCases
  <2>2. /\ Basic(p) /\ Longer(r, p) /\ p.promoted = r.promoted /\ p.thrown = r.thrown
        /\ p.staged = Append(r.staged, Output(Len(r.stages) + 1))
    BY StagedStep
  <2> HIDE DEF p, s
  <2>3. /\ Past(p) /\ ~p.stages[p.current].completed
        /\ r.current # 0 => r.current \in DOMAIN p.stages
                            /\ p.stages[r.current].completed
    BY <1>3, <2>2
  <2>4. r.current = 1 /\ Len(r.stages) = 1
    <3>1. Len(r.stages) <= 1
      BY <1>5 DEF Almost, Begins
    <3>2. Len(r.stages) = 0 \/ Len(r.stages) = 1
      BY <1>2, <3>1, AtMostOne
    <3>3. r.current # 0
      BY <1>5
    <3> QED BY <1>1, <3>2, <3>3
  <2>5. r.staged \in Seq(AssistantOutputs \union ToolOutputs)
    BY DEF Basic, IsRun
  <2>6. /\ Len(r.staged) = 1 /\ r.staged[1].kind = "assistant" /\ r.staged[1].index = 1
    BY <1>5, <2>4, <2>5 DEF Almost, Begins
  <2>7. p.staged # <<>> /\ p.staged[1] = r.staged[1]
    <3>1. Output(Len(r.stages) + 1) \in AssistantOutputs \union ToolOutputs
      BY <1>1 DEF Output, AssistantOutputs
    <3> QED BY <2>2, <2>5, <2>6, <3>1, AppendProperties
  <2>8. Waiting(p)
    BY <2>2, <2>3, <2>4, <2>6, <2>7 DEF Waiting, Longer
  <2>9. ~HasTask(p) /\ ~Thrown(p)
    BY <1>5, <2>2 DEF HasTask, Thrown
  <2>10. /\ Contents(p, s) /\ HasTask(s) /\ (ClosedLate(p) => ClosedLate(s))
         /\ \A i \in DOMAIN p.stages : Told(s.stages[i])
    BY <2>1, <2>2, <2>8, <2>9, PromoteStep
  <2>11. /\ s.current = p.current /\ DOMAIN s.stages = DOMAIN p.stages
         /\ \A i \in DOMAIN p.stages : s.stages[i].completed = p.stages[i].completed
    BY <2>10 DEF Contents, Alike
  <2>12. Past(s)
    BY <2>3, <2>10, <2>11, PastIsLate DEF Past, ClosedLate
  <2>13. s.current = r.current + 1 /\ s.current \in DOMAIN s.stages
    BY <1>1, <2>2, <2>11 DEF Longer
  <2>14. ~s.stages[s.current].completed
    BY <2>3, <2>11, <2>13
  <2>15. Early(s) /\ Quiet(s)
    BY <2>10, <2>14 DEF Early, Quiet
  <2>16. r.current \in DOMAIN s.stages /\ s.stages[r.current].completed
    BY <1>5, <2>3, <2>11
  <2> QED BY <1>5, <2>10, <2>11, <2>12, <2>13, <2>14, <2>15, <2>16 DEF s
<1>6. CASE ~HasTask(r) /\ r.current = 0
  <2>1. s = Staged(r)
    BY <1>6, StartStageCases
  <2>2. /\ Longer(r, s) /\ s.promoted = r.promoted
        /\ s.staged = Append(r.staged, Output(Len(r.stages) + 1))
    BY <2>1, StagedStep
  <2> HIDE DEF s
  <2>3. /\ Past(s) /\ ~s.stages[s.current].completed
    BY <1>3, <2>2
  <2>4. s.current = 1 /\ Len(s.stages) = 1 /\ DOMAIN s.stages = {1} /\ ~HasTask(s)
    <3>1. s.current = 0 + 1 /\ Len(s.stages) = 0 + 1 /\ DOMAIN s.stages = 1..0 + 1
      BY <1>6, <2>2 DEF Longer
    <3>2. ~HasTask(s)
      BY <1>6, <2>2 DEF HasTask
    <3> QED BY <3>1, <3>2
  <2>5. s.staged = <<Output(1)>>
    <3>1. Len(r.stages) = 0
      BY <1>1, <1>6
    <3>2. r.staged = <<>>
      BY <1>6, <3>1 DEF Almost, Begins
    <3> QED BY <2>2, <3>1, <3>2
  <2>6. Begins(s)
    BY <2>4, <2>5 DEF Begins, Output
  <2>7. Early(s) /\ Quiet(s)
    BY <2>3, <2>4, <2>6 DEF Early, Quiet
  <2> QED BY <1>6, <2>2, <2>3, <2>4, <2>7 DEF s
<1> QED BY <1>4, <1>5, <1>6

\* The invariant is about a few fields only.
LEMMA GoodFields ==
  ASSUME NEW r, Good(r), NEW s, s.stages = r.stages, s.current = r.current,
         s.promoted = r.promoted, s.staged = r.staged
  PROVE  Good(s)
<1>1. Past(s) /\ Quiet(s)
  BY DEF Good, Past, Quiet
<1>2. HasTask(s) <=> HasTask(r)
  BY DEF HasTask
<1>3. Settled(s) /\ Early(s)
  BY <1>2 DEF Good, Settled, Early, Begins
<1> QED BY <1>1, <1>3 DEF Good

LEMMA GoodBeside == \A r, s : Good(r) /\ Beside(r, s) => Good(s)
  BY GoodFields DEF Beside

\* Publishing keeps it when what is completed is published to the end.
LEMMA GoodFrame ==
  ASSUME NEW r, NEW s, Basic(r), Basic(s), Frame(r, s), Past(r), Early(r), Quiet(r),
         ~HasTask(r) => s.staged = r.staged,
         ClosedLate(s), \A i \in DOMAIN s.stages : HasTask(r) => Told(s.stages[i])
  PROVE  Good(s)
<1>1. /\ s.current = r.current /\ DOMAIN s.stages = DOMAIN r.stages
      /\ \A i \in DOMAIN r.stages : Alike(s.stages[i], r.stages[i])
      /\ HasTask(s) <=> HasTask(r)
  BY DEF Frame, Contents, HasTask
<1>2. \A i \in DOMAIN r.stages :
        /\ s.stages[i].completed <=> r.stages[i].completed
        /\ StageText(s.stages[i], TRUE) = StageText(r.stages[i], TRUE)
  <2> SUFFICES ASSUME NEW i \in DOMAIN r.stages
               PROVE  /\ s.stages[i].completed <=> r.stages[i].completed
                      /\ StageText(s.stages[i], TRUE) = StageText(r.stages[i], TRUE)
    OBVIOUS
  <2>1. Alike(s.stages[i], r.stages[i])
    BY <1>1
  <2>2. s.stages[i].completed <=> r.stages[i].completed
    BY <2>1 DEF Alike
  <2>3. StageText(s.stages[i], TRUE) = StageText(r.stages[i], TRUE)
    BY <2>1, AlikeText
  <2> QED BY <2>2, <2>3
<1>3. Past(s)
  BY <1>1, <1>2 DEF Past, ClosedLate
<1>4. Quiet(s)
  BY <1>1, <1>2 DEF Quiet
<1>5. Settled(s)
  BY <1>1 DEF Settled
<1>6. Len(s.stages) = Len(r.stages)
  BY <1>1 DEF Basic, IsRun
<1>7. Early(s)
  <2> SUFFICES ASSUME ~HasTask(s)
               PROVE  Begins(s) /\ \A i \in DOMAIN s.stages : ~s.stages[i].completed
    BY DEF Early
  <2>1. Begins(r) /\ \A i \in DOMAIN r.stages : ~r.stages[i].completed
    BY <1>1 DEF Early
  <2>2. Begins(s)
    BY <1>1, <1>6, <2>1 DEF Begins
  <2> QED BY <1>1, <1>2, <2>1, <2>2
<1> QED BY <1>3, <1>4, <1>5, <1>7 DEF Good

LEMMA FlushQueuedGood ==
  ASSUME NEW r, Basic(r), Good(r)
  PROVE  Good(FlushQueued(r))
<1> DEFINE s == FlushQueued(r)
<1>1. Quiet(r) /\ ClosedLate(r)
  BY PastIsLate DEF Good
<1>2. /\ Basic(s) /\ Frame(r, s) /\ s.staged = r.staged /\ ClosedLate(s)
      /\ \A i \in DOMAIN r.stages : Told(r.stages[i]) => Told(s.stages[i])
  BY <1>1, FlushQueuedStep
<1> HIDE DEF s
<1>3. \A i \in DOMAIN s.stages : HasTask(r) => Told(s.stages[i])
  BY <1>2 DEF Good, Settled, Frame, Contents
<1>4. Good(s)
  BY <1>2, <1>3, GoodFrame DEF Good
<1> QED BY <1>4 DEF s

\* The last stage but one is published to its end.
LEMMA FinishGood ==
  ASSUME NEW r, Basic(r), HasTask(r), Past(r), Quiet(r),
         NEW i \in DOMAIN r.stages, r.stages[i].completed,
         \A j \in DOMAIN r.stages : j # i => Told(r.stages[j]),
         Thrown(r) => Told(r.stages[i]), NEW kind
  PROVE  Good(Finish(r, i, kind))
<1> DEFINE s == Finish(r, i, kind)
<1>1. /\ Basic(s) /\ Frame(r, s) /\ s.staged = r.staged
      /\ \A j \in DOMAIN r.stages : j # i => s.stages[j] = r.stages[j]
      /\ HasTask(r) /\ ~Thrown(r) => Told(s.stages[i])
      /\ Thrown(r) \/ ~HasTask(r) => s = r
  BY PublishEnd
<1> HIDE DEF s
<1>2. Told(s.stages[i])
  BY <1>1
<1>3. DOMAIN s.stages = DOMAIN r.stages /\ s.stages[i].completed
  BY <1>1 DEF Frame, Contents, Alike
<1>4. ClosedLate(s)
  BY <1>1, <1>3 DEF ClosedLate, Past
<1>5. \A j \in DOMAIN s.stages : Told(s.stages[j])
  BY <1>1, <1>2, <1>3
<1>6. Early(r)
  BY DEF Early
<1>7. Good(s)
  BY <1>1, <1>4, <1>5, <1>6, GoodFrame
<1> QED BY <1>7 DEF s

LEMMA CountedStep ==
  ASSUME NEW r, Basic(r)
  PROVE  Beside(r, Counted(r))
<1> DEFINE s == Counted(r)
<1>1. PICK n \in Nat : s = [r EXCEPT !.events = n]
  <2>1. r.events + 1 \in Nat
    BY DEF Basic, IsRun
  <2>2. s = [r EXCEPT !.events = r.events + 1]
    BY DEF Counted
  <2> QED BY <2>1, <2>2
<1> HIDE DEF s
<1>2. /\ s.stages = r.stages /\ s.current = r.current
      /\ s.promoted = r.promoted /\ s.artifacts = r.artifacts /\ s.view = r.view
      /\ s.staged = r.staged /\ s.thrown = r.thrown
  BY <1>1 DEF Basic, IsRun
<1>3. s \in [stages : Seq(Stage), current : Nat,
             staged : Seq(AssistantOutputs \union ToolOutputs), promoted : BOOLEAN,
             tools : Nat, queued : BOOLEAN, scheduled : BOOLEAN, failing : BOOLEAN,
             canceled : BOOLEAN, artifacts : {s.artifacts}, view : {s.view},
             thrown : BOOLEAN, events : Nat]
  BY <1>1 DEF Basic, IsRun
<1>4. Beside(r, s)
  BY <1>2, <1>3 DEF Basic, IsRun, Beside
<1> QED BY <1>4 DEF s

\* A stage is given other content.
LEMMA ContentUpdate ==
  ASSUME NEW r, Basic(r), NEW i \in DOMAIN r.stages, NEW stage \in Stage,
         stage.published = r.stages[i].published, stage.text = r.stages[i].text
  PROVE  LET s == [r EXCEPT !.stages[i] = stage]
         IN  /\ Basic(s) /\ s.current = r.current /\ s.staged = r.staged
             /\ s.promoted = r.promoted /\ s.thrown = r.thrown
             /\ s.artifacts = r.artifacts /\ Len(s.stages) = Len(r.stages)
             /\ DOMAIN s.stages = DOMAIN r.stages /\ s.stages[i] = stage
             /\ \A j \in DOMAIN r.stages : j # i => s.stages[j] = r.stages[j]
<1> DEFINE s == [r EXCEPT !.stages[i] = stage]
<1>1. IsRun(r)
  BY DEF Basic
<1>2. /\ IsRun(s) /\ s.current = r.current /\ s.staged = r.staged
      /\ s.promoted = r.promoted /\ s.thrown = r.thrown
      /\ s.artifacts = r.artifacts /\ s.view = r.view
      /\ DOMAIN s.stages = DOMAIN r.stages /\ Len(s.stages) = Len(r.stages)
      /\ s.stages[i] = stage
      /\ \A j \in DOMAIN r.stages : j # i => s.stages[j] = r.stages[j]
  BY <1>1, StageUpdate
<1> HIDE DEF s
<1>3. \A j \in DOMAIN s.stages :
        s.stages[j].published = r.stages[j].published /\ s.stages[j].text = r.stages[j].text
  BY <1>2
<1>4. Shows(s)
  BY <1>2, <1>3 DEF Basic, Shows
<1>5. Agrees(s)
  BY <1>2 DEF Basic, Agrees
<1>6. Untold(s)
  BY <1>2, <1>3 DEF Basic, Untold, HasTask
<1> QED BY <1>2, <1>4, <1>5, <1>6 DEF Basic, s

LEMMA CompleteStep ==
  ASSUME NEW r, Basic(r), NEW i \in DOMAIN r.stages
  PROVE  LET s == Complete(r, i)
         IN  /\ Basic(s) /\ s.current = r.current /\ s.staged = r.staged
             /\ s.promoted = r.promoted /\ s.thrown = r.thrown
             /\ s.artifacts = r.artifacts /\ Len(s.stages) = Len(r.stages)
             /\ DOMAIN s.stages = DOMAIN r.stages
             /\ s.stages[i].completed /\ s.stages[i].closed = r.stages[i].closed
             /\ r.stages[i].completed => s.stages[i] = r.stages[i]
             /\ \A j \in DOMAIN r.stages : j # i => s.stages[j] = r.stages[j]
<1> DEFINE stage == r.stages[i]
           after == [stage EXCEPT !.completed = TRUE]
           s == Complete(r, i)
<1>1. stage \in Stage
  BY StageType DEF Basic
<1>2. /\ after \in Stage /\ after.published = stage.published
      /\ after.text = stage.text /\ after.closed = stage.closed /\ after.completed
  BY <1>1 DEF Stage
<1>3. stage.completed => after = stage
  BY <1>1 DEF Stage
<1>4. s = [r EXCEPT !.stages[i] = after]
  BY DEF Complete
<1> HIDE DEF after, s
<1>5. /\ Basic(s) /\ s.current = r.current /\ s.staged = r.staged
      /\ s.promoted = r.promoted /\ s.thrown = r.thrown
      /\ s.artifacts = r.artifacts /\ Len(s.stages) = Len(r.stages)
      /\ DOMAIN s.stages = DOMAIN r.stages /\ s.stages[i] = after
      /\ \A j \in DOMAIN r.stages : j # i => s.stages[j] = r.stages[j]
  BY <1>2, <1>4, ContentUpdate
<1> QED BY <1>2, <1>3, <1>5 DEF s

\* The current stage is completed.
LEMMA CompleteAlmost ==
  ASSUME NEW r, Basic(r), Almost(r), r.current # 0
  PROVE  /\ r.current \in DOMAIN r.stages
         /\ Almost(Complete(r, r.current)) /\ ~Open(Complete(r, r.current))
<1> DEFINE s == Complete(r, r.current)
<1>1. r.current \in DOMAIN r.stages
  BY DEF Basic, IsRun
<1>2. /\ s.current = r.current /\ s.staged = r.staged
      /\ s.promoted = r.promoted /\ Len(s.stages) = Len(r.stages)
      /\ DOMAIN s.stages = DOMAIN r.stages
      /\ s.stages[r.current].completed
      /\ s.stages[r.current].closed = r.stages[r.current].closed
      /\ \A j \in DOMAIN r.stages : j # r.current => s.stages[j] = r.stages[j]
  BY <1>1, CompleteStep
<1> HIDE DEF s
<1>3. Past(s)
  BY <1>2 DEF Almost, Past
<1>4. HasTask(s) <=> HasTask(r)
  BY <1>2 DEF HasTask
<1>5. HasTask(s) => \A i \in DOMAIN s.stages : i # s.current => Told(s.stages[i])
  BY <1>2, <1>4 DEF Almost
<1>6. ~HasTask(s) => Begins(s)
  BY <1>2, <1>4 DEF Almost, Begins
<1>7. ~Open(s)
  BY <1>2 DEF Open
<1> QED BY <1>1, <1>3, <1>5, <1>6, <1>7 DEF Almost, s

-----------------------------------------------------------------------------
(* The callbacks.                                                          *)

LEMMA BesideTask ==
  \A r, s : Beside(r, s) =>
    /\ Thrown(s) <=> Thrown(r)
    /\ HasTask(s) <=> HasTask(r)
    /\ s.current = r.current
  BY DEF Beside, Thrown, HasTask

\* What a callback finds after it published what was queued.
LEMMA FlushCounted ==
  ASSUME NEW r, Basic(r), Good(r), ~Thrown(r)
  PROVE  LET f == FlushQueued(Counted(r))
         IN  /\ Basic(f) /\ Good(f) /\ ~Thrown(f) /\ f.current = r.current
             /\ HasTask(f) <=> HasTask(r)
<1> DEFINE p == Counted(r)
           f == FlushQueued(p)
<1>1. Beside(r, p) /\ Basic(p) /\ Good(p) /\ ~Thrown(p)
  BY CountedStep, BesideStep, GoodBeside, BesideTask
<1> HIDE DEF p
<1>2. /\ Basic(f) /\ Frame(p, f) /\ (Thrown(f) => Thrown(p)) /\ Good(f)
  BY <1>1, FlushQueuedStep, FlushQueuedGood
<1> HIDE DEF f
<1>3. f.current = r.current /\ (HasTask(f) <=> HasTask(r))
  BY <1>1, <1>2 DEF Frame, Contents, Beside, HasTask
<1> QED BY <1>1, <1>2, <1>3 DEF f, p

\* A stage begins after a stage that is settled.
LEMMA StartedGood ==
  ASSUME NEW r, Basic(r), Almost(r), ~Thrown(r), ~Open(r),
         HasTask(r) /\ r.current # 0 => Told(r.stages[r.current])
  PROVE  Good(StartStage(r))
<1> DEFINE s == StartStage(r)
<1>1. /\ s.current = r.current + 1 /\ Past(s) /\ Early(s) /\ Quiet(s)
      /\ \A i \in DOMAIN s.stages :
           (HasTask(r) => i # r.current) /\ HasTask(s) => Told(s.stages[i])
      /\ HasTask(r) => Longer(r, s)
  BY StartStageStep
<1> HIDE DEF s
<1>2. r.current = Len(r.stages) /\ Len(r.stages) \in Nat /\ r.stages \in Seq(Stage)
  BY DEF Basic, IsRun
<1>3. ASSUME HasTask(r), r.current \in DOMAIN s.stages PROVE Told(s.stages[r.current])
  <2>1. r.current # 0
    BY <1>1, <1>2, <1>3 DEF Longer
  <2>2. r.current \in DOMAIN r.stages
    BY <1>2, <2>1
  <2> QED BY <1>1, <1>3, <2>1, <2>2 DEF Longer
<1>4. Settled(s)
  BY <1>1, <1>3 DEF Settled
<1> QED BY <1>1, <1>4 DEF Good, s

LEMMA FinishBasic ==
  \A r, kind : Basic(r) => \A i \in DOMAIN r.stages : Basic(Finish(r, i, kind))
  BY PublishEnd

LEMMA MessageStartGood ==
  ASSUME NEW f, Basic(f), Good(f), ~Thrown(f),
         NEW c, NEW t, t = StartStage(c),
         c = IF f.current # 0 /\ HasActivity(f.stages[f.current])
               THEN Complete(f, f.current) ELSE f,
         NEW x,
         x = IF /\ f.current \notin {0, t.current}
                /\ t.promoted /\ ~t.stages[f.current].closed
               THEN Finish(t, f.current, "completed") ELSE t
  PROVE  Basic(x) /\ Good(x)
<1>1. f.current = Len(f.stages) /\ Len(f.stages) \in Nat /\ f.stages \in Seq(Stage)
  BY DEF Basic, IsRun
<1>2. Almost(f)
  BY GoodIsAlmost
<1>3. CASE f.current = 0
  <2>1. c = f /\ x = t
    BY <1>3
  <2>2. ~Open(f)
    BY <1>3 DEF Open
  <2>3. Basic(t) /\ Good(t)
    BY <1>2, <1>3, <2>1, <2>2, StartStageBasic, StartedGood
  <2> QED BY <2>1, <2>3
<1>4. CASE Open(f) /\ ~HasActivity(f.stages[f.current])
  <2>1. c = f
    BY <1>4
  <2>2. t = f
    BY <1>4, <2>1, StartStageCases
  <2>3. x = t
    BY <2>2
  <2> QED BY <2>2, <2>3
<1>5. CASE f.current # 0 /\ (~Open(f) \/ HasActivity(f.stages[f.current]))
  <2> DEFINE i == f.current
  <2>1. i \in DOMAIN f.stages
    BY <1>1, <1>5
  <2>2. /\ Basic(c) /\ Almost(c) /\ ~Open(c) /\ ~Thrown(c) /\ c.current = i
        /\ (HasTask(c) <=> HasTask(f)) /\ i \in DOMAIN c.stages
        /\ c.stages[i].closed => c.stages[i] = f.stages[i]
    <3>1. CASE c = f
      <4>1. ~Open(f)
        BY <1>5, <3>1, CompleteAlmost, <1>2
      <4> QED BY <1>2, <2>1, <3>1, <4>1
    <3>2. CASE c = Complete(f, i)
      <4>1. /\ Basic(c) /\ c.current = i /\ c.promoted = f.promoted
            /\ c.thrown = f.thrown /\ DOMAIN c.stages = DOMAIN f.stages
            /\ c.stages[i].closed = f.stages[i].closed
            /\ f.stages[i].completed => c.stages[i] = f.stages[i]
        BY <2>1, <3>2, CompleteStep
      <4>2. Almost(c) /\ ~Open(c)
        BY <1>2, <1>5, <3>2, CompleteAlmost
      <4>3. f.stages[i].closed => f.stages[i].completed
        BY <2>1 DEF Good, Past
      <4> QED BY <2>1, <4>1, <4>2, <4>3 DEF Thrown, HasTask
    <3> QED BY <3>1, <3>2
  <2>3. /\ t.current = i + 1 /\ Past(t) /\ Early(t) /\ Quiet(t)
        /\ \A j \in DOMAIN t.stages :
             (HasTask(c) => j # i) /\ HasTask(t) => Told(t.stages[j])
        /\ HasTask(c) => ~Thrown(t) /\ HasTask(t) /\ Longer(c, t)
        /\ i \in DOMAIN t.stages /\ t.stages[i].completed
    BY <1>5, <2>2, StartStageStep
  <2>4. Basic(t)
    BY <2>2, StartStageBasic
  <2>5. HasTask(c) => t.stages[i] = c.stages[i]
    BY <2>2, <2>3 DEF Longer
  <2>6. f.current \notin {0, t.current}
    BY <1>1, <1>5, <2>3
  <2>7. CASE HasTask(t) /\ ~t.stages[i].closed
    <3>1. x = Finish(t, i, "completed")
      BY <2>6, <2>7 DEF HasTask
    <3>2. Basic(x)
      <4>1. i \in DOMAIN t.stages
        BY <2>3
      <4> QED BY <2>4, <3>1, <4>1, FinishBasic
    <3>3. Good(x)
      BY <2>3, <2>4, <2>7, <3>1, FinishGood
    <3> QED BY <3>2, <3>3
  <2>8. CASE ~(HasTask(t) /\ ~t.stages[i].closed)
    <3>1. x = t
      BY <2>8 DEF HasTask
    <3>2. HasTask(t) => Told(t.stages[i])
      <4>1. CASE ~HasTask(c)
        BY <2>3, <4>1
      <4>2. CASE HasTask(c) /\ HasTask(t)
        <5>1. t.stages[i] = f.stages[i]
          BY <2>2, <2>5, <2>8, <4>2
        <5>2. Told(f.stages[i])
          BY <2>1, <2>2, <4>2 DEF Good, Settled
        <5> QED BY <5>1, <5>2
      <4> QED BY <4>1, <4>2
    <3>3. Settled(t)
      BY <2>3, <3>2 DEF Settled
    <3> QED BY <2>3, <2>4, <3>1, <3>3 DEF Good
  <2> QED BY <2>7, <2>8
<1>6. Open(f) => f.current # 0
  BY DEF Open
<1> QED BY <1>3, <1>4, <1>5, <1>6

\* The step of a callback that leaves the coordinator as r.
LEMMA BecomesStep ==
  ASSUME NEW r, Basic(r), NEW s, s = [r EXCEPT !.thrown = FALSE]
  PROVE  /\ Basic(s) /\ ~Thrown(s) /\ s.stages = r.stages /\ s.current = r.current
         /\ s.promoted = r.promoted /\ s.staged = r.staged /\ s.artifacts = r.artifacts
         /\ Good(r) => Good(s)
<1>1. /\ Basic(s) /\ s.stages = r.stages /\ s.staged = r.staged /\ ~Thrown(s)
      /\ s.artifacts = r.artifacts /\ Frame(r, s)
  BY ThrownUpdate
<1>2. s.current = r.current /\ s.promoted = r.promoted
  BY <1>1 DEF Frame, Contents
<1> QED BY <1>1, <1>2, GoodFields

\* The content of the current stage, which is not completed, changes.
LEMMA ContentGood ==
  ASSUME NEW r, Basic(r), Good(r), Open(r), NEW stage \in Stage,
         stage.published = r.stages[r.current].published,
         stage.text = r.stages[r.current].text,
         stage.closed = r.stages[r.current].closed,
         stage.completed = r.stages[r.current].completed
  PROVE  LET s == [r EXCEPT !.stages[r.current] = stage]
         IN  /\ Basic(s) /\ Good(s) /\ Open(s) /\ s.current = r.current
             /\ s.thrown = r.thrown /\ s.promoted = r.promoted
<1> DEFINE i == r.current
           s == [r EXCEPT !.stages[i] = stage]
<1>1. i \in DOMAIN r.stages
  BY DEF Basic, IsRun, Open
<1>2. /\ Basic(s) /\ s.current = r.current /\ s.staged = r.staged
      /\ s.promoted = r.promoted /\ s.thrown = r.thrown
      /\ Len(s.stages) = Len(r.stages)
      /\ DOMAIN s.stages = DOMAIN r.stages /\ s.stages[i] = stage
      /\ \A j \in DOMAIN r.stages : j # i => s.stages[j] = r.stages[j]
  BY <1>1, ContentUpdate
<1> HIDE DEF s
<1>3. ~stage.completed /\ ~stage.closed
  BY <1>1 DEF Open, Good, Past
<1>4. Past(s) /\ Quiet(s)
  BY <1>2, <1>3 DEF Good, Past, Quiet
<1>5. HasTask(s) <=> HasTask(r)
  BY <1>2 DEF HasTask
<1>6. Told(stage)
  BY <1>3 DEF Told
<1>7. Settled(s)
  BY <1>2, <1>5, <1>6 DEF Good, Settled
<1>8. Early(s)
  BY <1>2, <1>3, <1>5 DEF Good, Early, Begins
<1>9. Open(s)
  BY <1>2, <1>3 DEF Open
<1> QED BY <1>2, <1>4, <1>7, <1>8, <1>9 DEF Good, s

\* A stage begins, or the one that is open goes on; nothing is thrown.
LEMMA StartGood ==
  ASSUME NEW r, Basic(r), Good(r), ~Thrown(r)
  PROVE  LET s == StartStage(r)
         IN  Basic(s) /\ Good(s) /\ Open(s) /\ (HasTask(r) => ~Thrown(s))
<1> DEFINE s == StartStage(r)
<1>1. CASE Open(r)
  <2>1. s = r
    BY <1>1, StartStageCases
  <2> QED BY <1>1, <2>1
<1>2. CASE ~Open(r)
  <2>1. Almost(r)
    BY GoodIsAlmost
  <2>2. HasTask(r) /\ r.current # 0 => Told(r.stages[r.current])
    BY DEF Good, Settled, Basic, IsRun
  <2>3. Basic(s) /\ Good(s)
    BY <1>2, <2>1, <2>2, StartStageBasic, StartedGood
  <2>4. /\ s.current = r.current + 1 /\ ~s.stages[s.current].completed
        /\ HasTask(r) => ~Thrown(s) /\ HasTask(s)
    BY <1>2, <2>1, StartStageStep
  <2>5. r.current \in Nat
    BY DEF Basic, IsRun
  <2>6. Open(s)
    BY <2>4, <2>5 DEF Open
  <2> QED BY <2>3, <2>4, <2>6
<1> QED BY <1>1, <1>2

-----------------------------------------------------------------------------
(* The callbacks.                                                          *)

\* What holds between two callbacks.
Kept(r) == Basic(r) /\ ~Thrown(r) /\ Good(r)

LEMMA BecomesKept ==
  ASSUME NEW r, Basic(r), Good(r), Becomes(r)
  PROVE  Kept(run')
<1>1. run' = [r EXCEPT !.thrown = FALSE]
  BY DEF Becomes
<1> QED BY <1>1, BecomesStep DEF Kept

LEMMA BesideKept == \A r, s : Kept(r) /\ Beside(r, s) => Kept(s)
  BY BesideStep, GoodBeside, BesideTask DEF Kept

LEMMA ContentsText ==
  ASSUME NEW r, NEW s, Contents(r, s), NEW i \in DOMAIN r.stages
  PROVE  /\ s.stages[i].completed <=> r.stages[i].completed
         /\ StageText(s.stages[i], TRUE) = StageText(r.stages[i], TRUE)
<1>1. Alike(s.stages[i], r.stages[i])
  BY DEF Contents
<1>2. s.stages[i].completed <=> r.stages[i].completed
  BY <1>1 DEF Alike
<1>3. StageText(s.stages[i], TRUE) = StageText(r.stages[i], TRUE)
  BY <1>1, AlikeText
<1> QED BY <1>2, <1>3

\* Good, but that any outputs may be staged.
Ready(r) ==
  /\ Past(r) /\ Settled(r) /\ Quiet(r)
  /\ ~HasTask(r) => \A i \in DOMAIN r.stages : ~r.stages[i].completed

LEMMA GoodIsReady == \A r : Good(r) => Ready(r)
  BY DEF Good, Ready, Early

LEMMA PromoteGood ==
  ASSUME NEW r, Basic(r), Ready(r), ~Thrown(r)
  PROVE  LET s == Promote(r)
         IN  Basic(s) /\ Good(s) /\ HasTask(s) /\ Contents(r, s)
<1> DEFINE s == Promote(r)
<1>1. ~HasTask(r) => Waiting(r)
  BY DEF Ready, Waiting
<1>2. ClosedLate(r)
  BY PastIsLate DEF Ready
<1>3. /\ Basic(s) /\ Contents(r, s) /\ HasTask(s) /\ ClosedLate(s)
      /\ HasTask(r) => s = r
      /\ ~HasTask(r) => \A i \in DOMAIN r.stages : Told(s.stages[i])
  BY <1>1, <1>2, PromoteStep
<1> HIDE DEF s
<1>4. s.current = r.current /\ DOMAIN s.stages = DOMAIN r.stages
  BY <1>3 DEF Contents
<1>5. \A i \in DOMAIN r.stages :
        /\ s.stages[i].completed <=> r.stages[i].completed
        /\ StageText(s.stages[i], TRUE) = StageText(r.stages[i], TRUE)
  BY <1>3, ContentsText
<1>6. Past(s)
  BY <1>3, <1>4, <1>5 DEF Ready, Past, ClosedLate
<1>7. Quiet(s)
  BY <1>4, <1>5 DEF Ready, Quiet
<1>8. Settled(s)
  BY <1>3, <1>4 DEF Ready, Settled
<1>9. Good(s)
  BY <1>3, <1>6, <1>7, <1>8 DEF Good, Early
<1> QED BY <1>3, <1>9 DEF s

\* More of a stage that goes on is published.
LEMMA MoreGood ==
  ASSUME NEW r, Basic(r), Good(r), NEW i \in DOMAIN r.stages, ~r.stages[i].completed,
         NEW kind
  PROVE  Basic(More(r, i, kind)) /\ Good(More(r, i, kind))
<1> DEFINE s == More(r, i, kind)
<1>1. /\ Basic(s) /\ Frame(r, s) /\ s.staged = r.staged
      /\ \A j \in DOMAIN r.stages : j # i => s.stages[j] = r.stages[j]
      /\ s.stages[i].closed => r.stages[i].closed
  BY PublishMore
<1> HIDE DEF s
<1>2. DOMAIN s.stages = DOMAIN r.stages /\ ~s.stages[i].completed
  BY <1>1 DEF Frame, Contents, Alike
<1>3. ClosedLate(s)
  BY <1>1, <1>2 DEF ClosedLate, Good, Past
<1>4. Told(s.stages[i])
  BY <1>2 DEF Told
<1>5. \A j \in DOMAIN s.stages : HasTask(r) => Told(s.stages[j])
  BY <1>1, <1>2, <1>4 DEF Good, Settled
<1>6. Good(s)
  BY <1>1, <1>3, <1>5, GoodFrame DEF Good
<1> QED BY <1>1, <1>6 DEF s

LEMMA PrepareKept ==
  ASSUME Kept(run), PrepareForExecution
  PROVE  Kept(run')
<1>1. PICK r : r \in {Promote(run), run} /\ Becomes(r)
  BY DEF PrepareForExecution
<1>2. Basic(run) /\ Ready(run) /\ ~Thrown(run) /\ Good(run)
  BY GoodIsReady DEF Kept
<1>3. Basic(r) /\ Good(r)
  BY <1>1, <1>2, PromoteGood
<1> QED BY <1>1, <1>3, BecomesKept

LEMMA MessageStartKept ==
  ASSUME Kept(run), AssistantMessageStart
  PROVE  Kept(run')
<1> DEFINE f == FlushQueued(Counted(run))
           c == IF f.current # 0 /\ HasActivity(f.stages[f.current])
                  THEN Complete(f, f.current) ELSE f
           t == StartStage(c)
           x == IF /\ f.current \notin {0, t.current}
                   /\ t.promoted /\ ~t.stages[f.current].closed
                  THEN Finish(t, f.current, "completed") ELSE t
<1>1. Basic(f) /\ Good(f) /\ ~Thrown(f) /\ f.current = run.current
  BY FlushCounted DEF Kept
<1>2. PublishStage(t, f.current, TRUE, TRUE, TRUE) = Finish(t, f.current, "completed")
  BY DEF Finish
<1>3. Becomes(x)
  <2> HIDE DEF f, t
  <2> USE DEF c
  <2>1. Becomes(IF /\ f.current \notin {0, t.current}
                   /\ t.promoted /\ ~t.stages[f.current].closed
                  THEN PublishStage(t, f.current, TRUE, TRUE, TRUE) ELSE t)
    BY <1>1 DEF AssistantMessageStart, f, t
  <2> QED BY <1>2, <2>1
<1>4. Basic(x) /\ Good(x)
  <2> HIDE DEF f
  <2> QED BY <1>1, MessageStartGood
<1> HIDE DEF x
<1> QED BY <1>3, <1>4, BecomesKept

\* Flags that no property is about.
LEMMA FlagsStep ==
  ASSUME NEW r, Basic(r), NEW a \in BOOLEAN, NEW b \in BOOLEAN
  PROVE  /\ Beside(r, [r EXCEPT !.queued = a, !.scheduled = b])
         /\ Beside(r, [r EXCEPT !.failing = a, !.canceled = b])
<1>1. /\ IsRun([r EXCEPT !.queued = a, !.scheduled = b])
      /\ IsRun([r EXCEPT !.failing = a, !.canceled = b])
  BY DEF Basic, IsRun
<1> QED BY <1>1 DEF Basic, IsRun, Beside

\* What an assistant event adds to a stage.
Heard(stage, text, media) ==
  [stage EXCEPT !.streamed = IF text = None THEN @ ELSE Preview(@, text),
                !.media = @ \/ media]

LEMMA HeardStep ==
  ASSUME NEW stage \in Stage, NEW text \in OptText(Streamed), NEW media \in BOOLEAN
  PROVE  LET s == Heard(stage, text, media)
         IN  /\ s \in Stage /\ s.published = stage.published /\ s.text = stage.text
             /\ s.closed = stage.closed /\ s.completed = stage.completed
<1> DEFINE streamed == IF text = None THEN stage.streamed ELSE Preview(stage.streamed, text)
<1>1. streamed \in OptText(Texts)
  BY PreviewType, OutputAssumption DEF Stage, OptText
<1>2. PICK m \in BOOLEAN :
        Heard(stage, text, media) = [stage EXCEPT !.streamed = streamed, !.media = m]
  BY DEF Heard, Stage
<1> HIDE DEF streamed
<1> QED BY <1>1, <1>2 DEF Stage

LEMMA AssistantEventKept ==
  ASSUME Kept(run), AssistantEvent
  PROVE  Kept(run')
<1> DEFINE p == Counted(run)
           r == StartStage(p)
<1>1. PICK text \in OptText(Streamed), media \in BOOLEAN :
        Becomes(IF r.thrown THEN r
                ELSE [r EXCEPT !.stages[r.current] = Heard(r.stages[r.current], text, media),
                               !.queued = @ \/ r.promoted,
                               !.scheduled = @ \/ r.promoted])
  BY Zenon DEF AssistantEvent, Heard
<1> DEFINE stage == Heard(r.stages[r.current], text, media)
           seen == [r EXCEPT !.stages[r.current] = stage]
           s == [r EXCEPT !.stages[r.current] = stage, !.queued = @ \/ r.promoted,
                          !.scheduled = @ \/ r.promoted]
<1>2. Kept(p)
  BY CountedStep, BesideKept DEF Kept
<1>3. Basic(r) /\ Good(r) /\ Open(r)
  BY <1>2, StartGood DEF Kept
<1> HIDE DEF p, r
<1>4. r.stages \in Seq(Stage) /\ r.current \in DOMAIN r.stages
  BY <1>3 DEF Basic, IsRun, Open
<1>5. r.stages[r.current] \in Stage
  BY <1>4
<1>6. /\ stage \in Stage /\ stage.published = r.stages[r.current].published
      /\ stage.text = r.stages[r.current].text
      /\ stage.closed = r.stages[r.current].closed
      /\ stage.completed = r.stages[r.current].completed
  BY <1>5, HeardStep
<1> HIDE DEF stage
<1>7. Becomes(r) \/ Becomes(s)
  BY <1>1 DEF stage
<1>8. Basic(seen) /\ Good(seen)
  BY <1>3, <1>6, ContentGood
<1>9. PICK a \in BOOLEAN, b \in BOOLEAN : s = [seen EXCEPT !.queued = a, !.scheduled = b]
  BY <1>3 DEF Basic, IsRun
<1> HIDE DEF seen, s
<1>10. Basic(s) /\ Good(s)
  BY <1>8, <1>9, FlagsStep, BesideStep, GoodBeside
<1> QED BY <1>3, <1>7, <1>10, BecomesKept

LEMMA MicrotaskKept ==
  ASSUME Kept(run), Microtask
  PROVE  Kept(run')
<1> DEFINE p == [run EXCEPT !.scheduled = FALSE]
           r == FlushQueued(p)
<1>1. Becomes(r)
  BY DEF Microtask
<1>2. p = [run EXCEPT !.queued = run.queued, !.scheduled = FALSE]
  BY DEF Kept, Basic, IsRun
<1>3. run.queued \in BOOLEAN
  BY DEF Kept, Basic, IsRun
<1>4. Basic(p) /\ Good(p)
  BY <1>2, <1>3, FlagsStep, BesideKept DEF Kept
<1> HIDE DEF p
<1>5. Basic(r) /\ Good(r)
  BY <1>4, FlushQueuedStep, FlushQueuedGood
<1> QED BY <1>1, <1>5, BecomesKept

\* The last stage is completed and published to its end.
LEMMA DoneStep ==
  ASSUME NEW r, Basic(r), Good(r), ~Thrown(r), r.current # 0
  PROVE  LET d == Finish(Complete(r, r.current), r.current, "completed")
         IN  /\ Basic(d) /\ Almost(d) /\ ~Open(d) /\ d.current = r.current
             /\ HasTask(d) <=> HasTask(r)
             /\ HasTask(d) => Told(d.stages[d.current])
             /\ Thrown(d) => Good(d)
<1> DEFINE i == r.current
           done == Complete(r, i)
           d == Finish(done, i, "completed")
<1>1. i \in DOMAIN r.stages /\ Almost(done) /\ ~Open(done)
  BY GoodIsAlmost, CompleteAlmost
<1>2. /\ Basic(done) /\ done.current = i /\ DOMAIN done.stages = DOMAIN r.stages
      /\ done.stages[i].completed /\ done.thrown = r.thrown
      /\ done.promoted = r.promoted
  BY <1>1, CompleteStep
<1> HIDE DEF done
<1>3. /\ Basic(d) /\ Frame(done, d) /\ d.staged = done.staged
      /\ \A j \in DOMAIN done.stages : j # i => d.stages[j] = done.stages[j]
      /\ HasTask(done) /\ ~Thrown(done) => Told(d.stages[i])
      /\ Thrown(d) => Thrown(done) \/ ~Visible(StageText(done.stages[i], TRUE))
      /\ Thrown(done) \/ ~HasTask(done) => d = done
  BY <1>1, <1>2, PublishEnd
<1> HIDE DEF d
<1>4. /\ Contents(done, d) /\ d.current = i /\ DOMAIN d.stages = DOMAIN done.stages
      /\ HasTask(d) <=> HasTask(done)
      /\ HasTask(d) <=> HasTask(r)
  BY <1>2, <1>3 DEF Frame, Contents, HasTask
<1>5. \A j \in DOMAIN done.stages :
        /\ d.stages[j].completed <=> done.stages[j].completed
        /\ StageText(d.stages[j], TRUE) = StageText(done.stages[j], TRUE)
  BY <1>4, ContentsText
<1>6. ~Thrown(done) /\ i # 0
  BY <1>2 DEF Thrown
<1>7. Past(d)
  BY <1>1, <1>2, <1>3, <1>4, <1>5 DEF Almost, Past
<1>8. Len(d.stages) = Len(done.stages)
  BY <1>2, <1>3, <1>4 DEF Basic, IsRun
<1>9. Almost(d)
  <2>1. HasTask(d) => \A j \in DOMAIN d.stages : j # d.current => Told(d.stages[j])
    BY <1>1, <1>2, <1>3, <1>4 DEF Almost
  <2>2. ~HasTask(d) => Begins(d)
    BY <1>1, <1>3, <1>4, <1>8 DEF Almost, Begins
  <2> QED BY <1>7, <2>1, <2>2 DEF Almost
<1>10. ~Open(d)
  BY <1>1, <1>2, <1>4, <1>5 DEF Open
<1>11. HasTask(d) => Told(d.stages[i])
  BY <1>3, <1>4, <1>6
<1>12. ASSUME Thrown(d) PROVE Good(d)
  <2>1. HasTask(d) /\ ~Visible(StageText(d.stages[i], TRUE))
    BY <1>1, <1>2, <1>3, <1>4, <1>5, <1>6, <1>12
  <2>2. Settled(d)
    BY <1>4, <1>9, <1>11 DEF Almost, Settled
  <2>3. Quiet(d) /\ Early(d)
    BY <1>4, <2>1 DEF Quiet, Early
  <2> QED BY <1>7, <2>2, <2>3 DEF Good
<1> QED BY <1>3, <1>4, <1>9, <1>10, <1>11, <1>12 DEF d, done

LEMMA StageForReplyGood ==
  ASSUME NEW r, Basic(r), Good(r), ~Thrown(r), NEW kind
  PROVE  LET s == StageForReply(r, kind)
         IN  Basic(s) /\ Good(s) /\ (Thrown(s) \/ Open(s))
<1> DEFINE s == StageForReply(r, kind)
           done == Complete(r, r.current)
           d == Finish(done, r.current, "completed")
           second == kind = "final" /\ Open(r) /\ r.stages[r.current].finalSeen
<1>1. CASE ~second
  <2>1. s = StartStage(r)
    BY <1>1, Zenon DEF StageForReply
  <2> HIDE DEF s
  <2> QED BY <2>1, StartGood DEF s
<1>2. CASE second
  <2>1. ~r.stages[r.current].closed
    BY <1>2 DEF Good, Past, Open, Basic, IsRun
  <2>2. PublishStage(done, r.current, TRUE, TRUE, TRUE) = d
    BY DEF Finish
  <2>3. s = StartStage(d)
    <3> HIDE DEF d, done
    <3>1. s = StartStage(PublishStage(done, r.current, TRUE, TRUE, TRUE))
      BY <1>2, <2>1, Zenon DEF StageForReply, done
    <3> QED BY <2>2, <3>1
  <2>4. /\ Basic(d) /\ Almost(d) /\ ~Open(d)
        /\ HasTask(d) => Told(d.stages[d.current])
        /\ Thrown(d) => Good(d)
    BY <1>2, DoneStep DEF Open
  <2> HIDE DEF d, s, done
  <2>5. Basic(s) /\ (Thrown(d) => s = d)
    BY <2>3, <2>4, StartStageBasic, StartStageCases
  <2>6. ~Thrown(d) => Good(s)
    BY <2>3, <2>4, StartedGood
  <2>7. ~Thrown(d) => Open(s)
    <3>1. ~Thrown(d) => s.current = d.current + 1 /\ ~s.stages[s.current].completed
      BY <2>3, <2>4, StartStageStep
    <3>2. d.current \in Nat
      BY <2>4 DEF Basic, IsRun
    <3> QED BY <3>1, <3>2 DEF Open
  <2> QED BY <2>4, <2>5, <2>6, <2>7 DEF s
<1> QED BY <1>1, <1>2

\* What a block or final reply adds to a stage.
Answered(stage, kind, text, media) ==
  [stage EXCEPT
     !.finalSeen = @ \/ kind = "final",
     !.final = IF kind = "final" /\ text # None THEN text ELSE @,
     !.blocks = IF kind = "block" /\ text # None THEN Joined(@, text) ELSE @,
     !.media = @ \/ media]

LEMMA AnsweredStep ==
  ASSUME NEW stage \in Stage, NEW kind, NEW text \in OptText(Replies), NEW media \in BOOLEAN
  PROVE  LET s == Answered(stage, kind, text, media)
         IN  /\ s \in Stage /\ s.published = stage.published /\ s.text = stage.text
             /\ s.closed = stage.closed /\ s.completed = stage.completed
<1> DEFINE final == IF kind = "final" /\ text # None THEN text ELSE stage.final
           blocks == IF kind = "block" /\ text # None
                       THEN Joined(stage.blocks, text) ELSE stage.blocks
<1>1. final \in OptText(Texts)
  BY OutputAssumption DEF Stage, OptText
<1>2. blocks \in OptText(Texts)
  BY JoinedType, OutputAssumption DEF Stage, OptText
<1>3. PICK seen \in BOOLEAN, m \in BOOLEAN :
        Answered(stage, kind, text, media)
          = [stage EXCEPT !.finalSeen = seen, !.final = final, !.blocks = blocks, !.media = m]
  BY DEF Answered, Stage
<1> HIDE DEF final, blocks
<1> QED BY <1>1, <1>2, <1>3 DEF Stage

LEMMA ReplyKept ==
  ASSUME Kept(run), Reply
  PROVE  Kept(run')
<1> DEFINE f == FlushQueued(Counted(run))
<1>1. PICK kind \in {"block", "final"}, text \in OptText(Replies), media \in BOOLEAN :
        LET r == StageForReply(f, kind)
            stage == Answered(r.stages[r.current], kind, text, media)
        IN  Becomes(IF r.thrown THEN r
                    ELSE PublishStage([r EXCEPT !.stages[r.current] = stage],
                                      r.current, FALSE, kind = "final", FALSE))
  BY Zenon DEF Reply, Answered
<1> DEFINE r == StageForReply(f, kind)
           stage == Answered(r.stages[r.current], kind, text, media)
           s == [r EXCEPT !.stages[r.current] = stage]
<1>2. Basic(f) /\ Good(f) /\ ~Thrown(f)
  BY FlushCounted DEF Kept
<1> HIDE DEF f
<1>3. Basic(r) /\ Good(r) /\ (Thrown(r) \/ Open(r))
  BY <1>2, StageForReplyGood
<1> HIDE DEF r
<1>4. Becomes(IF Thrown(r) THEN r ELSE More(s, r.current, kind))
  BY <1>1, Zenon DEF Thrown, More, r
<1>5. CASE Thrown(r)
  BY <1>3, <1>4, <1>5, BecomesKept
<1>6. CASE ~Thrown(r)
  <2>1. r.stages \in Seq(Stage) /\ r.current \in DOMAIN r.stages
    BY <1>3, <1>6 DEF Basic, IsRun, Open
  <2>2. r.stages[r.current] \in Stage
    BY <2>1
  <2>3. /\ stage \in Stage /\ stage.published = r.stages[r.current].published
        /\ stage.text = r.stages[r.current].text
        /\ stage.closed = r.stages[r.current].closed
        /\ stage.completed = r.stages[r.current].completed
    BY <2>2, AnsweredStep
  <2> HIDE DEF stage
  <2>4. Basic(s) /\ Good(s) /\ Open(s) /\ s.current = r.current
    BY <1>3, <1>6, <2>3, ContentGood
  <2> HIDE DEF s
  <2>5. r.current \in DOMAIN s.stages /\ ~s.stages[r.current].completed
    <3>1. s.stages \in Seq(Stage) /\ s.current = Len(s.stages) /\ s.current # 0
      BY <2>4 DEF Basic, IsRun, Open
    <3> QED BY <2>4, <3>1 DEF Open
  <2>6. Basic(More(s, r.current, kind)) /\ Good(More(s, r.current, kind))
    BY <2>4, <2>5, MoreGood
  <2> QED BY <1>4, <1>6, <2>6, BecomesKept
<1> QED BY <1>5, <1>6

\* A tool result is staged.
LEMMA ToolStagedStep ==
  ASSUME NEW r, Basic(r), NEW tool \in ToolOutputs
  PROVE  LET s == [r EXCEPT !.staged = Append(@, tool)]
         IN  /\ Basic(s) /\ s.stages = r.stages /\ s.current = r.current
             /\ s.promoted = r.promoted /\ s.thrown = r.thrown
<1> DEFINE staged == Append(r.staged, tool)
           s == [r EXCEPT !.staged = staged]
<1>1. /\ r.staged \in Seq(AssistantOutputs \union ToolOutputs)
      /\ tool \in AssistantOutputs \union ToolOutputs /\ tool.kind = "tool"
  BY DEF Basic, IsRun, ToolOutputs
<1>2. /\ staged \in Seq(AssistantOutputs \union ToolOutputs)
      /\ Len(staged) = Len(r.staged) + 1
      /\ \A k \in 1..Len(r.staged) : staged[k] = r.staged[k]
      /\ staged[Len(r.staged) + 1] = tool
  BY <1>1, AppendProperties
<1>3. \A k \in DOMAIN staged :
        staged[k].kind = "assistant" => staged[k].index \in DOMAIN r.stages
  <2> SUFFICES ASSUME NEW k \in DOMAIN staged, staged[k].kind = "assistant"
               PROVE  staged[k].index \in DOMAIN r.stages
    OBVIOUS
  <2> HIDE DEF staged
  <2>1. k \in 1..Len(r.staged) /\ staged[k] = r.staged[k]
    <3>1. k \in 1..Len(r.staged) + 1 /\ Len(r.staged) \in Nat
      BY <1>1, <1>2
    <3>2. k # Len(r.staged) + 1
      BY <1>1, <1>2
    <3> QED BY <1>2, <3>1, <3>2
  <2>2. k \in DOMAIN r.staged
    BY <1>1, <2>1
  <2> QED BY <2>1, <2>2 DEF Basic, IsRun
<1> HIDE DEF staged
<1>4. /\ s.stages = r.stages /\ s.current = r.current /\ s.staged = staged
      /\ s.promoted = r.promoted /\ s.artifacts = r.artifacts /\ s.view = r.view
      /\ s.thrown = r.thrown
  BY DEF Basic, IsRun
<1>5. s \in [stages : Seq(Stage), current : Nat,
             staged : Seq(AssistantOutputs \union ToolOutputs), promoted : BOOLEAN,
             tools : Nat, queued : BOOLEAN, scheduled : BOOLEAN, failing : BOOLEAN,
             canceled : BOOLEAN, artifacts : {s.artifacts}, view : {s.view},
             thrown : BOOLEAN, events : Nat]
  BY <1>2 DEF Basic, IsRun
<1> HIDE DEF s
<1>6. IsRun(s)
  BY <1>3, <1>4, <1>5 DEF Basic, IsRun
<1>7. Basic(s)
  BY <1>4, <1>6, OtherFields
<1> QED BY <1>4, <1>7 DEF s, staged

LEMMA ReadyFields ==
  \A r, s : /\ Ready(r) /\ s.stages = r.stages /\ s.current = r.current
            /\ s.promoted = r.promoted
            => Ready(s)
  BY DEF Ready, Past, Settled, Quiet, HasTask

LEMMA ToolReplyKept ==
  ASSUME Kept(run), ToolReply
  PROVE  Kept(run')
<1> DEFINE r == FlushQueued(Counted(run))
<1>1. PICK text \in OptText(Replies), media \in BOOLEAN :
        LET tool == [kind |-> "tool", text |-> text, media |-> media]
        IN  Becomes(IF HasTask(r) THEN PublishTool(r, tool)
                    ELSE Promote([r EXCEPT !.staged = Append(@, tool)]))
  BY Zenon DEF ToolReply, HasTask
<1> DEFINE tool == [kind |-> "tool", text |-> text, media |-> media]
           t == [r EXCEPT !.staged = Append(@, tool)]
<1>2. tool \in ToolOutputs
  BY OutputAssumption DEF ToolOutputs, OptText
<1>3. Basic(r) /\ Good(r) /\ ~Thrown(r)
  BY FlushCounted DEF Kept
<1> HIDE DEF r, tool
<1>4. CASE HasTask(r)
  <2> DEFINE s == PublishTool(r, tool)
  <2>1. Becomes(s)
    BY <1>1, <1>4 DEF tool
  <2>2. Basic(s) /\ Frame(r, s) /\ s.staged = r.staged /\ s.stages = r.stages
    BY <1>2, <1>3, <1>4, PublishToolStep
  <2> HIDE DEF s
  <2>3. s.current = r.current /\ s.promoted = r.promoted
    BY <2>2 DEF Frame, Contents
  <2>4. Good(s)
    BY <1>3, <2>2, <2>3, GoodFields
  <2> QED BY <2>1, <2>2, <2>4, BecomesKept
<1>5. CASE ~HasTask(r)
  <2>1. Becomes(Promote(t))
    BY <1>1, <1>5 DEF tool
  <2>2. /\ Basic(t) /\ t.stages = r.stages /\ t.current = r.current
        /\ t.promoted = r.promoted /\ t.thrown = r.thrown
    BY <1>2, <1>3, ToolStagedStep
  <2> HIDE DEF t
  <2>3. Ready(t) /\ ~Thrown(t)
    BY <1>3, <2>2, GoodIsReady, ReadyFields DEF Thrown
  <2>4. Basic(Promote(t)) /\ Good(Promote(t))
    BY <2>2, <2>3, PromoteGood
  <2> QED BY <2>1, <2>4, BecomesKept
<1> QED BY <1>4, <1>5

\* What a callback finds after it made a task and published what was queued.
LEMMA PromoteFlushed ==
  ASSUME NEW r, Kept(r)
  PROVE  LET s == FlushQueued(Promote(r)) IN Basic(s) /\ Good(s) /\ HasTask(s)
<1> DEFINE p == Promote(r)
           s == FlushQueued(p)
<1>1. Basic(p) /\ Good(p) /\ HasTask(p)
  BY GoodIsReady, PromoteGood DEF Kept
<1> HIDE DEF p
<1>2. Basic(s) /\ Frame(p, s) /\ Good(s)
  BY <1>1, FlushQueuedStep, FlushQueuedGood
<1> HIDE DEF s
<1>3. HasTask(s)
  BY <1>1, <1>2 DEF Frame, HasTask
<1> QED BY <1>2, <1>3 DEF s, p

LEMMA ToolProgressKept ==
  ASSUME Kept(run), ToolProgress
  PROVE  Kept(run')
<1> DEFINE r == FlushQueued(Promote(Counted(run)))
<1>1. PICK last \in BOOLEAN :
        Becomes(IF Thrown(r) THEN r ELSE Publish(r, Update(Progress, <<Space>>, FALSE, last)))
  BY Zenon DEF ToolProgress, Thrown
<1> DEFINE event == Update(Progress, <<Space>>, FALSE, last)
           s == Publish(r, event)
<1>2. Kept(Counted(run))
  BY CountedStep, BesideKept DEF Kept
<1>3. Basic(r) /\ Good(r) /\ HasTask(r)
  BY <1>2, PromoteFlushed
<1> HIDE DEF r
<1>4. event.kind # "task" /\ event.text \in Texts /\ \A i : event.id # Assistant(i)
  BY OutputAssumption, OtherIds DEF Update, Texts
<1> HIDE DEF event
<1>5. Basic(s) /\ Same(r, s)
  BY <1>3, <1>4, PublishOther
<1>6. Becomes(r) \/ Becomes(s)
  BY <1>1 DEF event
<1> HIDE DEF s
<1>7. Good(s)
  BY <1>3, <1>5, GoodFields DEF Same
<1> QED BY <1>3, <1>5, <1>6, <1>7, BecomesKept

LEMMA LifecycleErrorKept ==
  ASSUME Kept(run), LifecycleError
  PROVE  Kept(run')
<1> DEFINE p == [run EXCEPT !.failing = TRUE]
           r == FlushQueued(Promote(Counted(p)))
<1>1. Becomes(r)
  BY DEF LifecycleError
<1>2. PICK a \in BOOLEAN, b \in BOOLEAN : p = [run EXCEPT !.failing = a, !.canceled = b]
  BY DEF Kept, Basic, IsRun
<1> HIDE DEF p
<1>3. Kept(p)
  BY <1>2, FlagsStep, BesideKept DEF Kept
<1>4. Kept(Counted(p))
  BY <1>3, CountedStep, BesideKept DEF Kept
<1>5. Basic(r) /\ Good(r)
  BY <1>4, PromoteFlushed
<1> QED BY <1>1, <1>5, BecomesKept

LEMMA CancelKept ==
  ASSUME Kept(run), Cancel
  PROVE  Kept(run')
<1> DEFINE p == [run EXCEPT !.canceled = TRUE]
           r == FlushQueued(Counted(p))
<1>1. Becomes(r)
  BY DEF Cancel
<1>2. PICK a \in BOOLEAN, b \in BOOLEAN : p = [run EXCEPT !.failing = a, !.canceled = b]
  BY DEF Kept, Basic, IsRun
<1> HIDE DEF p
<1>3. Kept(p)
  BY <1>2, FlagsStep, BesideKept DEF Kept
<1>4. Basic(r) /\ Good(r)
  BY <1>3, FlushCounted DEF Kept
<1> QED BY <1>1, <1>4, BecomesKept

-----------------------------------------------------------------------------
(* The end.                                                                *)

\* What a completed task shows: OutcomeShowsReply of a run and a final status.
ShowsReply(r, text) ==
  \A i \in DOMAIN r.stages :
    Visible(StageText(r.stages[i], TRUE)) =>
      /\ r.stages[i].closed
      /\ r.artifacts[Assistant(i)] = StageText(r.stages[i], TRUE)
      /\ (\A j \in DOMAIN r.stages : j > i => ~Visible(StageText(r.stages[j], TRUE)))
         => text = StageText(r.stages[i], TRUE)

IsReply(r, text) == r.artifacts = NoArtifacts /\ text = Canonical(r)

LEMMA ReplySame ==
  ASSUME NEW r, NEW s, s.stages = r.stages, s.artifacts = r.artifacts, NEW text
  PROVE  /\ ShowsReply(r, text) => ShowsReply(s, text)
         /\ IsReply(r, text) => IsReply(s, text)
<1>1. ShowsReply(r, text) => ShowsReply(s, text)
  BY DEF ShowsReply
<1>2. Canonical(r) = Canonical(s)
  BY DEF Canonical
<1> QED BY <1>1, <1>2 DEF IsReply

\* A step that ends the execution.
Ended ==
  /\ Basic(run') /\ ~Thrown(run') /\ input' = input
  /\ outcome'.kind \notin {"new", "running"}
  /\ outcome'.kind = "completed" => ShowsReply(run', outcome'.text)
  /\ outcome'.kind = "message" => IsReply(run', outcome'.text)

LEMMA EndsStep ==
  ASSUME NEW r, Basic(r), NEW kind, kind \notin {"new", "running"}, NEW text,
         kind = "completed" => ShowsReply(r, text),
         kind = "message" => IsReply(r, text),
         Ends(r, kind, text)
  PROVE  Ended
<1>1. /\ run' = [r EXCEPT !.thrown = FALSE]
      /\ outcome'.kind = kind /\ outcome'.text = text /\ input' = input
  BY DEF Ends, Becomes
<1>2. /\ Basic(run') /\ ~Thrown(run') /\ run'.stages = r.stages
      /\ run'.artifacts = r.artifacts
  BY <1>1, BecomesStep
<1>3. kind = "completed" => ShowsReply(run', text)
  BY <1>2, ReplySame
<1>4. kind = "message" => IsReply(run', text)
  BY <1>2, ReplySame
<1> QED BY <1>1, <1>2, <1>3, <1>4 DEF Ended

\* The last stage that has something to show is the one the status shows.
LEMMA CanonicalText ==
  ASSUME NEW r, Basic(r), NEW i \in DOMAIN r.stages,
         Visible(StageText(r.stages[i], TRUE)),
         \A j \in DOMAIN r.stages : j > i => ~Visible(StageText(r.stages[j], TRUE))
  PROVE  Canonical(r) = StageText(r.stages[i], TRUE)
<1> DEFINE shown == {j \in DOMAIN r.stages : Visible(StageText(r.stages[j], TRUE))}
           last == CHOOSE j \in shown : \A k \in shown : k <= j
<1>1. Canonical(r) = IF shown = {} THEN None ELSE StageText(r.stages[last], TRUE)
  BY DEF Canonical
<1>2. shown \subseteq Nat
  <2>1. r.stages \in Seq(Stage)
    BY DEF Basic, IsRun
  <2>2. DOMAIN r.stages \subseteq Nat
    <3> HIDE DEF shown
    <3> QED BY <2>1
  <2> QED BY <2>2
<1>3. i \in shown
  OBVIOUS
<1>4. \A k \in shown : ~(k > i)
  OBVIOUS
<1> HIDE DEF shown
<1>5. \A k \in shown : k <= i
  <2> SUFFICES ASSUME NEW k \in shown PROVE k <= i
    OBVIOUS
  <2>1. k \in Nat /\ i \in Nat
    BY <1>2, <1>3
  <2> QED BY <1>4, <2>1
<1>6. last \in shown /\ \A k \in shown : k <= last
  BY <1>3, <1>5
<1> HIDE DEF last
<1>7. last = i
  <2>1. last \in Nat /\ i \in Nat
    BY <1>2, <1>3, <1>6
  <2>2. i <= last /\ last <= i
    BY <1>3, <1>5, <1>6
  <2> QED BY <2>1, <2>2
<1> QED BY <1>1, <1>3, <1>7

LEMMA CloseBasic ==
  ASSUME NEW r, Basic(r), NEW required \in BOOLEAN
  PROVE  Basic(CloseCurrent(r, required))
<1> DEFINE done == Complete(r, r.current)
<1>1. CASE Thrown(r) \/ r.current = 0
  BY <1>1 DEF CloseCurrent, Thrown
<1>2. CASE ~Thrown(r) /\ r.current # 0
  <2>1. CloseCurrent(r, required) = PublishStage(done, r.current, TRUE, TRUE, required)
    BY <1>2 DEF CloseCurrent, Thrown
  <2>2. r.stages \in Seq(Stage) /\ r.current = Len(r.stages)
    BY DEF Basic, IsRun
  <2>3. r.current \in DOMAIN r.stages
    BY <1>2, <2>2
  <2>4. Basic(done) /\ r.current \in DOMAIN done.stages
    BY <2>3, CompleteStep
  <2> HIDE DEF done
  <2>5. PICK last \in BOOLEAN, terminal \in BOOLEAN :
          CloseCurrent(r, required) = PublishStage(done, r.current, last, terminal, required)
    BY <2>1
  <2> QED BY <2>4, <2>5, PublishStageStep
<1> QED BY <1>1, <1>2

LEMMA EndsWithStep ==
  ASSUME NEW r, Basic(r), NEW kind \in {"failed", "canceled"}, EndsWith(r, kind)
  PROVE  Ended
<1> DEFINE o == [r EXCEPT !.thrown = FALSE]
           p == Promote(FlushQueued(o))
<1>1. PICK required \in BOOLEAN :
        Ends(CloseCurrent(p, required), kind, Canonical(CloseCurrent(p, required)))
  BY DEF EndsWith
<1>2. Basic(o)
  BY ThrownUpdate
<1> HIDE DEF o
<1>3. Basic(p)
  BY <1>2, FlushQueuedStep, PromoteStep
<1> HIDE DEF p
<1>4. Basic(CloseCurrent(p, required))
  BY <1>3, CloseBasic
<1> QED BY <1>1, <1>4, EndsStep

LEMMA FinalizeErrorEnds ==
  ASSUME Basic(run), FinalizeError
  PROVE  Ended
<1>1. \E kind \in {"failed", "canceled"} : EndsWith(run, kind)
  BY DEF FinalizeError
<1> QED BY <1>1, EndsWithStep

\* A task completes with every stage published to its end.
LEMMA CompletedReply ==
  ASSUME NEW p, Basic(p), Good(p), HasTask(p), ~Thrown(p), p.current # 0
  PROVE  LET d == Finish(Complete(p, p.current), p.current, "completed")
         IN  Basic(d) /\ ShowsReply(d, Canonical(d))
<1> DEFINE d == Finish(Complete(p, p.current), p.current, "completed")
<1>1. /\ Basic(d) /\ Almost(d) /\ ~Open(d) /\ d.current # 0
      /\ HasTask(d) /\ Told(d.stages[d.current])
  BY DoneStep
<1> HIDE DEF d
<1>2. /\ d.stages \in Seq(Stage) /\ d.current = Len(d.stages)
  BY <1>1 DEF Basic, IsRun
<1>3. \A i \in DOMAIN d.stages : d.stages[i].completed /\ Told(d.stages[i])
  <2> SUFFICES ASSUME NEW i \in DOMAIN d.stages
               PROVE  d.stages[i].completed /\ Told(d.stages[i])
    OBVIOUS
  <2>1. i < d.current \/ i = d.current
    BY <1>2
  <2>2. d.stages[i].completed
    BY <1>1, <2>1 DEF Almost, Past, Open
  <2>3. Told(d.stages[i])
    BY <1>1 DEF Almost
  <2> QED BY <2>2, <2>3
<1>4. Shows(d)
  BY <1>1 DEF Basic
<1>5. ShowsReply(d, Canonical(d))
  <2> SUFFICES ASSUME NEW i \in DOMAIN d.stages, Visible(StageText(d.stages[i], TRUE))
               PROVE  /\ d.stages[i].closed
                      /\ d.artifacts[Assistant(i)] = StageText(d.stages[i], TRUE)
                      /\ (\A j \in DOMAIN d.stages :
                            j > i => ~Visible(StageText(d.stages[j], TRUE)))
                         => Canonical(d) = StageText(d.stages[i], TRUE)
    BY DEF ShowsReply
  <2>1. /\ d.stages[i].published /\ d.stages[i].closed
        /\ d.stages[i].text = StageText(d.stages[i], TRUE)
    BY <1>3 DEF Told
  <2>2. d.artifacts[Assistant(i)] = d.stages[i].text
    BY <1>4, <2>1 DEF Shows
  <2>3. (\A j \in DOMAIN d.stages : j > i => ~Visible(StageText(d.stages[j], TRUE)))
          => Canonical(d) = StageText(d.stages[i], TRUE)
    BY <1>1, CanonicalText
  <2> QED BY <2>1, <2>2, <2>3
<1> QED BY <1>1, <1>5 DEF d

LEMMA FinalizeCompletedEnds ==
  ASSUME NEW r, Basic(r), Good(r), ~Thrown(r), FinalizeCompleted(r)
  PROVE  Ended
<1> DEFINE p == Promote(r)
           d == CloseCurrent(p, TRUE)
<1>1. Basic(p) /\ Good(p) /\ HasTask(p)
  BY GoodIsReady, PromoteGood
<1>2. /\ Thrown(d) => EndsWith(d, "failed")
      /\ ~Thrown(d) => Ends(d, "completed", Canonical(d))
  BY Zenon DEF FinalizeCompleted, Thrown
<1> HIDE DEF p
<1>3. Basic(d)
  BY <1>1, CloseBasic
<1>4. CASE Thrown(d)
  <2> HIDE DEF d
  <2> QED BY <1>2, <1>3, <1>4, EndsWithStep
<1>5. CASE ~Thrown(d)
  <2>1. ShowsReply(d, Canonical(d))
    <3>1. CASE Thrown(p)
      BY <1>5, <3>1 DEF CloseCurrent, Thrown
    <3>2. CASE ~Thrown(p) /\ p.current = 0
      <4>1. d = p
        BY <3>2 DEF CloseCurrent
      <4>2. p.stages \in Seq(Stage) /\ Len(p.stages) = 0
        BY <1>1, <3>2 DEF Basic, IsRun
      <4>3. DOMAIN p.stages = {}
        BY <4>2
      <4> HIDE DEF d
      <4> QED BY <4>1, <4>3 DEF ShowsReply
    <3>3. CASE ~Thrown(p) /\ p.current # 0
      <4> DEFINE done == Complete(p, p.current)
      <4>1. d = PublishStage(done, p.current, TRUE, TRUE, TRUE)
        BY <3>3 DEF CloseCurrent, Thrown
      <4>2. d = Finish(done, p.current, "completed")
        BY <4>1 DEF Finish
      <4> HIDE DEF d
      <4> QED BY <1>1, <3>3, <4>2, CompletedReply
    <3> QED BY <3>1, <3>2, <3>3
  <2> HIDE DEF d
  <2> QED BY <1>2, <1>3, <1>5, <2>1, EndsStep
<1> QED BY <1>4, <1>5

\* A direct message is the text of the only stage.
LEMMA DirectReply ==
  ASSUME NEW r, Basic(r), Good(r), Direct(r), r.current # 0,
         Visible(StageText(r.stages[r.current], TRUE))
  PROVE  IsReply(r, StageText(r.stages[r.current], TRUE))
<1>1. ~input.followUp /\ ~HasTask(r)
  BY DEF Direct, HasTask
<1>2. r.artifacts = NoArtifacts
  BY <1>1 DEF Basic, Untold, Before, HasTask
<1>3. /\ r.stages \in Seq(Stage) /\ r.current = Len(r.stages)
      /\ Len(r.stages) <= 1
  BY <1>1 DEF Basic, IsRun, Good, Early, Begins
<1>4. r.current \in DOMAIN r.stages /\ \A j \in DOMAIN r.stages : ~(j > r.current)
  BY <1>3
<1>5. Canonical(r) = StageText(r.stages[r.current], TRUE)
  BY <1>4, CanonicalText
<1> QED BY <1>2, <1>5 DEF IsReply

LEMMA FinalizeSuccessEnds ==
  ASSUME Kept(run), FinalizeSuccess
  PROVE  Ended
<1> DEFINE r == FlushQueued(run)
           text == IF r.current = 0 THEN None ELSE StageText(r.stages[r.current], TRUE)
<1>1. Basic(run)
  BY DEF Kept
<1>2. Basic(r) /\ Good(r) /\ ~Thrown(r)
  BY FlushQueuedStep, FlushQueuedGood DEF Kept
<1>3. \/ EndsWith(run, "canceled")
      \/ EndsWith(run, "failed")
      \/ Direct(r) /\ Visible(text) /\ Ends(r, "message", text)
      \/ Ends(r, "refused", None)
      \/ FinalizeCompleted(r)
  BY Zenon DEF FinalizeSuccess
<1> HIDE DEF r
<1>4. CASE EndsWith(run, "canceled") \/ EndsWith(run, "failed")
  BY <1>1, <1>4, EndsWithStep
<1>5. CASE Direct(r) /\ Visible(text) /\ Ends(r, "message", text)
  <2>1. r.current # 0 /\ text = StageText(r.stages[r.current], TRUE)
    BY <1>5 DEF Visible
  <2> HIDE DEF text
  <2>2. IsReply(r, text)
    BY <1>2, <1>5, <2>1, DirectReply
  <2> QED BY <1>2, <1>5, <2>2, EndsStep
<1>6. CASE Ends(r, "refused", None)
  BY <1>2, <1>6, EndsStep
<1>7. CASE FinalizeCompleted(r)
  BY <1>2, <1>7, FinalizeCompletedEnds
<1> QED BY <1>3, <1>4, <1>5, <1>6, <1>7

-----------------------------------------------------------------------------
(* The invariant holds.                                                    *)

\* The parts of the invariant after a step that keeps the request.
LEMMA InvAfter ==
  ASSUME input \in Inputs, input' = input, Basic(run'), ~Thrown(run'),
         outcome'.kind \in {"new", "running"} => Good(run'),
         outcome'.kind = "completed" => ShowsReply(run', outcome'.text),
         outcome'.kind = "message" => IsReply(run', outcome'.text)
  PROVE  OInv'
<1>1. Basic(run)'
  <2>1. IsRun(run') /\ Shows(run') /\ Agrees(run') /\ Untold(run')
    BY DEF Basic
  <2>2. IsRun(run)' /\ Shows(run)' /\ Agrees(run)'
    BY <2>1 DEF IsRun, Shows, Agrees
  <2>3. Untold(run)'
    BY <2>1 DEF Untold, Before
  <2> QED BY <2>2, <2>3 DEF Basic
<1>2. (outcome.kind \in {"new", "running"})' => Good(run)'
  <2> SUFFICES ASSUME Good(run') PROVE Good(run)'
    OBVIOUS
  <2>1. Past(run)' /\ Early(run)'
    BY DEF Good, Past, Early, Begins, HasTask
  <2>2. Settled(run)'
    BY DEF Good, Settled, HasTask, Told, Visible
  <2>3. Quiet(run)'
    BY DEF Good, Quiet, Visible
  <2> QED BY <2>1, <2>2, <2>3 DEF Good
<1>3. OutcomeShowsReply'
  <2>1. (outcome.kind = "completed" => ShowsReply(run, outcome.text))'
    BY DEF ShowsReply, Visible
  <2>2. (outcome.kind = "message" => IsReply(run, outcome.text))'
    BY DEF IsReply, Canonical, Visible
  <2> QED BY <2>1, <2>2 DEF OutcomeShowsReply, ShowsReply, IsReply
<1> QED BY <1>1, <1>2, <1>3 DEF OInv, Thrown

LEMMA CallbackInv ==
  ASSUME OInv, Kept(run'), input' = input, outcome'.kind \in {"new", "running"}
  PROVE  OInv'
  BY InvAfter DEF OInv, Kept

LEMMA EndedInv == OInv /\ Ended => OInv'
  BY InvAfter DEF OInv, Ended

LEMMA ReplyShown ==
  OInv => /\ outcome.kind = "completed" => ShowsReply(run, outcome.text)
          /\ outcome.kind = "message" => IsReply(run, outcome.text)
  BY DEF OInv, OutcomeShowsReply, ShowsReply, IsReply

\* A client joins, in the middle of the execution or after its end.
LEMMA WatchInv == OInv /\ Watch => OInv'
<1> SUFFICES ASSUME OInv, Watch PROVE OInv'
  OBVIOUS
<1>1. /\ run' = [run EXCEPT !.view = run.artifacts]
      /\ UNCHANGED <<input, outcome>>
  BY DEF Watch
<1>2. IsRun(run)
  BY DEF OInv, Basic
<1>3. /\ run'.stages = run.stages /\ run'.current = run.current
      /\ run'.staged = run.staged /\ run'.promoted = run.promoted
      /\ run'.artifacts = run.artifacts /\ run'.thrown = run.thrown
      /\ run'.view = run.artifacts
  BY <1>1, <1>2 DEF IsRun
<1>4. IsRun(run')
  BY <1>1, <1>2 DEF IsRun
<1>5. Basic(run')
  BY <1>3, <1>4 DEF OInv, Basic, Shows, Agrees, Untold
<1>6. outcome'.kind \in {"new", "running"} => Good(run')
  BY <1>1, <1>3, GoodFields DEF OInv
<1>7. ShowsReply(run, outcome.text) => ShowsReply(run', outcome.text)
  BY <1>3, ReplySame
<1>8. IsReply(run, outcome.text) => IsReply(run', outcome.text)
  BY <1>3, ReplySame
<1>9. input \in Inputs /\ input' = input /\ ~Thrown(run')
  BY <1>1, <1>3 DEF OInv, Thrown
<1>10. /\ outcome'.kind = "completed" => ShowsReply(run', outcome'.text)
       /\ outcome'.kind = "message" => IsReply(run', outcome'.text)
  BY <1>1, <1>7, <1>8, ReplyShown
<1> QED BY <1>5, <1>6, <1>9, <1>10, InvAfter

LEMMA StutterInv == OInv /\ UNCHANGED vars => OInv'
<1> SUFFICES ASSUME OInv, UNCHANGED vars PROVE OInv'
  OBVIOUS
<1>1. run' = run /\ input' = input /\ outcome' = outcome
  BY DEF vars
<1> QED BY <1>1, ReplyShown, InvAfter DEF OInv, Thrown

LEMMA InitInv == Init => OInv
<1> SUFFICES ASSUME Init PROVE OInv
  OBVIOUS
<1>1. /\ run = NewRun /\ input \in Inputs /\ outcome.kind = "new"
  BY DEF Init
<1>2. IsRun(NewRun)
  <2>1. <<>> \in Seq(Stage) /\ <<>> \in Seq(AssistantOutputs \union ToolOutputs)
    OBVIOUS
  <2>2. \A id \in DOMAIN NewRun.artifacts : NewRun.artifacts[id] \in Texts
    BY BeforeType DEF NewRun
  <2> QED BY <2>1, <2>2 DEF IsRun, NewRun
<1>3. Basic(NewRun) /\ ~NewRun.thrown
  BY <1>2 DEF Basic, Shows, Agrees, Untold, NewRun
<1>4. Good(NewRun)
  BY DEF Good, Past, Settled, Early, Begins, Quiet, HasTask, NewRun
<1>5. OutcomeShowsReply
  BY <1>1 DEF OutcomeShowsReply
<1> QED BY <1>1, <1>3, <1>4, <1>5 DEF OInv

LEMMA NextInv == OInv /\ [Next]_vars => OInv'
<1> SUFFICES ASSUME OInv, [Next]_vars PROVE OInv'
  OBVIOUS
<1>1. Basic(run) /\ ~Thrown(run)
  BY DEF OInv, Thrown
<1>2. outcome.kind \in {"new", "running"} => Kept(run)
  BY <1>1 DEF OInv, Kept
<1>3. CASE PrepareForExecution
  <2>1. /\ outcome.kind = "new" /\ outcome'.kind = "running" /\ input' = input
    BY <1>3 DEF PrepareForExecution
  <2>2. Kept(run')
    BY <1>2, <1>3, <2>1, PrepareKept
  <2> QED BY <2>1, <2>2, CallbackInv
<1>4. CASE \/ AssistantMessageStart \/ AssistantEvent \/ Microtask \/ Reply
           \/ ToolReply \/ ToolProgress \/ LifecycleError \/ Cancel
  <2>1. outcome.kind = "running" /\ UNCHANGED <<input, outcome>>
    BY <1>4 DEF AssistantMessageStart, AssistantEvent, Microtask, Reply, ToolReply,
                ToolProgress, LifecycleError, Cancel, Happens, Running
  <2>2. Kept(run')
    BY <1>2, <1>4, <2>1, MessageStartKept, AssistantEventKept, MicrotaskKept,
       ReplyKept, ToolReplyKept, ToolProgressKept, LifecycleErrorKept, CancelKept
  <2>3. input' = input /\ outcome'.kind \in {"new", "running"}
    BY <2>1
  <2> QED BY <2>2, <2>3, CallbackInv
<1>5. CASE FinalizeSuccess
  <2>1. outcome.kind = "running"
    BY <1>5 DEF FinalizeSuccess, Running
  <2> QED BY <1>2, <1>5, <2>1, FinalizeSuccessEnds, EndedInv
<1>6. CASE FinalizeError
  BY <1>1, <1>6, FinalizeErrorEnds, EndedInv
<1>7. CASE Watch
  BY <1>7, WatchInv
<1>8. CASE UNCHANGED vars
  BY <1>8, StutterInv
<1> QED BY <1>3, <1>4, <1>5, <1>6, <1>7, <1>8 DEF Next

THEOREM OutputInv == Spec => []OInv
  BY InitInv, NextInv, PTL DEF Spec

\* The stored artifact of a stage reads as the text last published of it,
\* through deltas, replacements and empty last chunks: the store's merge undoes
\* what publishAssistantStage made of the text.
THEOREM ArtifactsCorrect == Spec => []ArtifactsShowStages
<1>1. OInv => ArtifactsShowStages
  BY DEF OInv, Basic, Shows, ArtifactsShowStages
<1> QED BY <1>1, OutputInv, PTL

\* A client that joined at any moment has accumulated what the store has merged.
THEOREM ViewsCorrect == Spec => []ViewsAgree
<1>1. OInv => ViewsAgree
  BY DEF OInv, Basic, Agrees, ViewsAgree
<1> QED BY <1>1, OutputInv, PTL

\* A completed task shows every stage to its end and its status the last of
\* them; a direct message is the whole reply and leaves no artifact.
THEOREM OutcomeCorrect == Spec => []OutcomeShowsReply
<1>1. OInv => OutcomeShowsReply
  BY DEF OInv
<1> QED BY <1>1, OutputInv, PTL

=============================================================================
