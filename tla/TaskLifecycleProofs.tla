------------------------- MODULE TaskLifecycleProofs -------------------------
(***************************************************************************)
(* Theorems about TaskLifecycle, for every value of its constants: any     *)
(* number of sends, cancels, resubscriptions and queued replies.           *)
(*                                                                         *)
(* The argument is the invariant IInv.  What an execution published is in  *)
(* two places, the log of its task and the bus its handler still reads;    *)
(* IInv says of both together that the statuses come in order, that they   *)
(* tell the truth about the flags of the coordinator (Tells), and that     *)
(* they rank no higher than the execution has come (Level).  A step of the *)
(* coordinator only extends the bus, by statuses that rank higher          *)
(* (Extends); the handler only moves the head of the bus to the log.       *)
(***************************************************************************)
EXTENDS TaskLifecycle, SequenceTheorems, TLAPS

\* execute() is done, or the process died.
Over(x) == x.pc \in {"ended", "lost"}

\* How far the execution has come, in the ranks of the statuses it published.
Level(x) ==
  IF x.final THEN 4 ELSE IF x.paused THEN 3
  ELSE IF x.working THEN 2 ELSE IF x.promoted THEN 1 ELSE 0

\* The event u may be published before v by the same execution.
Before(u, v) ==
  /\ ~u.final
  /\ u.kind = "status-update" /\ v.kind = "status-update"
       => Rank(u.state) < Rank(v.state)

\* What the event v tells of the execution that published it is so.
Tells(v, x) ==
  /\ v.kind # "message" => x.promoted
  /\ v.final => /\ x.final /\ v.kind = "status-update"
                /\ v.state = "canceled" <=> x.aborted = "cancel"
                /\ x.aborted # "shutdown"

Ranked(v, x) == v.kind = "status-update" => Rank(v.state) <= Level(x)

\* The events on the bus are of the execution, true and in order.
BusOk(x, e) ==
  /\ \A i \in DOMAIN x.bus : x.bus[i].by = e /\ Tells(x.bus[i], x)
  /\ \A i, j \in DOMAIN x.bus : i < j => Before(x.bus[i], x.bus[j])

\* While it runs: no event is ahead of the flags, no direct message is out.
RunOk(x) ==
  /\ \A i \in DOMAIN x.bus : Ranked(x.bus[i], x) /\ x.bus[i].kind # "message"
  /\ ~x.promoted => x.bus = <<>>
  /\ x.working \/ x.final => x.promoted
  /\ x.paused => x.working
  /\ x.stages <= x.events

\* A task that is not stored yet is at the head of the bus.
Known(x, known) ==
  x.promoted /\ ~known => x.bus # <<>> /\ x.bus[1].kind = "task"

ExecOk(e) ==
  LET x == exec[e] IN
  /\ BusOk(x, e)
  /\ ~Over(x) => RunOk(x) /\ ~x.final /\ x.reader \in {"none", "reading"}
  /\ x.pc \notin {"running", "ended", "lost"} => ~x.promoted
  /\ x.aborted # "no" => x.promoted
  /\ x.reader # "failed"
  /\ x.reader \in {"none", "reading"} => Known(x, tasks[x.task] # None)
  /\ x.answer = "message" \/ (\E i \in DOMAIN x.bus : x.bus[i].kind = "message")
       => ~x.promoted /\ Over(x)
  /\ (x.pc # "idle" /\ x.task # e) \/ x.pc \in {"loading", "persisting"}
       => tasks[x.task] # None
  /\ x.task # e => x.continues

\* A committed event: if an execution published it, it is of this task, true, and
\* in order with what the execution still has on the bus.
EntryOk(v, t, executions, cancels) ==
  /\ v.by \in Sends => LET x == executions[v.by] IN
       /\ x.task = t /\ Tells(v, x) /\ v.kind # "message"
       /\ ~Over(x) => Ranked(v, x)
       /\ \A j \in DOMAIN x.bus : Before(v, x.bus[j])
  /\ v.by \in Cancels =>
       cancels[v.by].pc \in {"cleaning", "reading", "answered", "lost"}
  /\ v.by \in Replies => v.kind = "artifact-update" /\ ~v.final

\* The events of a log are in order for each author.
LogOk(t) ==
  LET log == tasks[t].log IN
  /\ exec[t].promoted
  /\ \A i \in DOMAIN log : EntryOk(log[i], t, exec, cancel)
  /\ \A i, j \in DOMAIN log : i < j /\ log[i].by = log[j].by => Before(log[i], log[j])

\* The registry holds executions that run, are not paused and not shut down.
RegistryOk ==
  \A t \in Tasks : registry[t] # None =>
    /\ Live(registry[t]) /\ TaskOf(registry[t]) = t
    /\ exec[registry[t]].aborted # "shutdown"

\* Requests are about stored tasks; a cancel cleans up behind its own commit.
RequestsOk ==
  /\ \A c \in Cancels :
       /\ cancel[c].pc # "idle" => cancel[c].task \in Tasks /\ tasks[cancel[c].task] # None
       /\ cancel[c].pc = "cleaning" => Wrote(c, cancel[c].task)
  /\ \A w \in Watchers :
       watcher[w].pc # "idle" => watcher[w].task \in Tasks /\ tasks[watcher[w].task] # None

IInv ==
  /\ TypeOK
  /\ \A e \in Sends : ExecOk(e)
  /\ \A t \in Tasks : tasks[t] # None => LogOk(t)
  /\ RegistryOk /\ RequestsOk /\ LiveIsRegistered

-----------------------------------------------------------------------------
\* A state of the coordinator between its steps, and one that is not final.
Good(x, e, known) ==
  x \in Execution /\ BusOk(x, e) /\ RunOk(x) /\ Known(x, known)

Ready(x, e, known) == Good(x, e, known) /\ ~x.final

\* The coordinator takes x to y: the request is the same, the level not lower.
Frame(x, y) ==
  /\ y.pc = x.pc /\ y.task = x.task /\ y.mode = x.mode /\ y.continues = x.continues
  /\ y.aborted = x.aborted /\ y.reader = x.reader /\ y.answer = x.answer
  /\ x.promoted => y.promoted
  /\ Level(x) <= Level(y)

\* A status behind which the task is finished or waits for input.
Settling(v) == v.kind = "status-update" /\ v.state \notin Active

\* A snapshot is published first of all; the end or the pause by its status.
Marks(x, y) ==
  /\ \A j \in DOMAIN y.bus : j > Len(x.bus) /\ y.bus[j].kind = "task" => ~x.promoted /\ j = 1
  /\ y.final \/ y.paused =>
       \/ x.final \/ x.paused
       \/ \E j \in DOMAIN y.bus : j > Len(x.bus) /\ Settling(y.bus[j])

\* It only appended to the bus, statuses of a higher rank than the level of x.
Extends(x, y) ==
  /\ Frame(x, y) /\ Marks(x, y)
  /\ Len(x.bus) <= Len(y.bus)
  /\ \A i \in DOMAIN y.bus :
       IF i <= Len(x.bus) THEN y.bus[i] = x.bus[i]
       ELSE y.bus[i].kind = "status-update" => Level(x) < Rank(y.bus[i].state)

LEMMA LevelInt == ASSUME NEW x PROVE Level(x) \in 0..4
  BY DEF Level

LEMMA RankInt ==
  ASSUME NEW state \in States \union {"none"} PROVE Rank(state) \in 0..4
  BY DEF Rank, States, Terminal, Quiescent, Active

LEMMA ExtendsSelf ==
  ASSUME NEW x \in Execution PROVE Extends(x, x)
<1>1. Len(x.bus) \in Nat /\ DOMAIN x.bus = 1..Len(x.bus)
  BY DEF Execution
<1>2. Level(x) \in 0..4
  BY LevelInt
<1> QED BY <1>1, <1>2 DEF Extends, Frame, Marks

LEMMA ExtendsTrans ==
  ASSUME NEW x \in Execution, NEW y \in Execution, NEW z \in Execution,
         Extends(x, y), Extends(y, z)
  PROVE  Extends(x, z)
<1>1. /\ Len(x.bus) \in Nat /\ DOMAIN x.bus = 1..Len(x.bus)
      /\ Len(y.bus) \in Nat /\ DOMAIN y.bus = 1..Len(y.bus)
      /\ Len(z.bus) \in Nat /\ DOMAIN z.bus = 1..Len(z.bus)
      /\ \A i \in DOMAIN z.bus : z.bus[i] \in Event
  BY DEF Execution
<1>2. /\ Level(x) \in 0..4 /\ Level(y) \in 0..4 /\ Level(z) \in 0..4
      /\ \A i \in DOMAIN z.bus : Rank(z.bus[i].state) \in 0..4
  BY <1>1, LevelInt, RankInt DEF Event
<1>3. /\ Frame(x, y) /\ Frame(y, z) /\ Len(x.bus) <= Len(y.bus) /\ Len(y.bus) <= Len(z.bus)
      /\ Marks(x, y) /\ Marks(y, z)
      /\ \A i \in DOMAIN y.bus : i \in DOMAIN z.bus /\ z.bus[i] = y.bus[i]
  BY <1>1 DEF Extends
<1>4. Frame(x, z)
  BY <1>2, <1>3 DEF Frame
<1>5. ASSUME NEW i \in DOMAIN z.bus
      PROVE  IF i <= Len(x.bus) THEN z.bus[i] = x.bus[i]
             ELSE z.bus[i].kind = "status-update" => Level(x) < Rank(z.bus[i].state)
  <2>1. CASE i <= Len(y.bus)
    <3>1. i \in DOMAIN y.bus /\ z.bus[i] = y.bus[i]
      BY <1>1, <2>1 DEF Extends
    <3> QED BY <3>1 DEF Extends
  <2>2. CASE ~(i <= Len(y.bus))
    <3>1. z.bus[i].kind = "status-update" => Level(y) < Rank(z.bus[i].state)
      BY <2>2 DEF Extends
    <3>2. Level(x) <= Level(y) /\ ~(i <= Len(x.bus)) /\ Rank(z.bus[i].state) \in 0..4
      BY <1>1, <1>2, <1>3, <2>2 DEF Frame
    <3> QED BY <1>2, <3>1, <3>2
  <2> QED BY <2>1, <2>2
<1>6. Marks(x, z)
  <2>1. ASSUME NEW j \in DOMAIN z.bus, j > Len(x.bus), z.bus[j].kind = "task"
        PROVE  ~x.promoted /\ j = 1
    <3>1. CASE j \in DOMAIN y.bus
      BY <1>3, <2>1, <3>1 DEF Marks
    <3>2. CASE j \notin DOMAIN y.bus
      BY <1>1, <1>3, <2>1, <3>2 DEF Marks, Frame
    <3> QED BY <3>1, <3>2
  <2>2. ASSUME z.final \/ z.paused, ~(y.final \/ y.paused)
        PROVE  \E j \in DOMAIN z.bus : j > Len(x.bus) /\ Settling(z.bus[j])
    BY <1>1, <1>3, <2>2 DEF Marks
  <2>3. ASSUME y.final \/ y.paused, ~(x.final \/ x.paused)
        PROVE  \E j \in DOMAIN z.bus : j > Len(x.bus) /\ Settling(z.bus[j])
    BY <1>3, <2>3 DEF Marks
  <2> QED BY <2>1, <2>2, <2>3 DEF Marks
<1> QED BY <1>1, <1>3, <1>4, <1>5, <1>6 DEF Extends

\* An event published behind flags that tell of it.
LEMMA PublishKeeps ==
  ASSUME NEW e \in Sends, NEW known \in BOOLEAN, NEW x, Ready(x, e, known),
         NEW z \in Execution, z.bus = x.bus, Frame(x, z),
         z.working \/ z.final => z.promoted, z.paused => z.working,
         z.stages <= z.events, z.promoted,
         NEW v \in Event, v.by = e, v.kind \notin {"message", "task"},
         v.kind = "status-update" =>
           Level(x) < Rank(v.state) /\ Rank(v.state) <= Level(z),
         v.final => Tells(v, z),
         z.final \/ z.paused => x.paused \/ Settling(v),
         x.promoted \/ known
  PROVE  Good(Publish(z, v), e, known) /\ Extends(x, Publish(z, v))
<1> DEFINE y == Publish(z, v)
           n == Len(x.bus)
<1>0. x \in Execution /\ BusOk(x, e) /\ RunOk(x) /\ Known(x, known) /\ ~x.final
  BY DEF Ready, Good
<1>1. /\ n \in Nat /\ DOMAIN x.bus = 1..n /\ DOMAIN y.bus = 1..(n + 1)
      /\ Len(y.bus) = n + 1 /\ y.bus[n + 1] = v
      /\ \A i \in 1..n : y.bus[i] = x.bus[i] /\ x.bus[i] \in Event
      /\ y.bus \in Seq(Event)
  <2>1. y.bus = Append(x.bus, v)
    BY DEF Publish, Execution
  <2>2. x.bus \in Seq(Event)
    BY <1>0 DEF Execution
  <2> QED BY <2>1, <2>2, AppendProperties
<1>2. /\ y \in Execution /\ y.final = z.final /\ y.promoted = z.promoted
      /\ y.paused = z.paused /\ y.working = z.working /\ y.stages = z.stages
      /\ y.events = z.events /\ y.pc = z.pc /\ y.task = z.task /\ y.mode = z.mode
      /\ y.continues = z.continues /\ y.aborted = z.aborted /\ y.reader = z.reader
      /\ y.answer = z.answer
  <2>1. y \in Execution
    BY <1>1 DEF Publish, Execution
  <2>2. /\ y.final = z.final /\ y.promoted = z.promoted
        /\ y.paused = z.paused /\ y.working = z.working /\ y.stages = z.stages
        /\ y.events = z.events /\ y.pc = z.pc /\ y.task = z.task /\ y.mode = z.mode
        /\ y.continues = z.continues /\ y.aborted = z.aborted /\ y.reader = z.reader
        /\ y.answer = z.answer
    BY <1>1 DEF Publish, Execution
  <2> QED BY <2>1, <2>2
<1>3. Level(y) = Level(z)
  BY <1>2 DEF Level
<1>4. Frame(x, y)
  BY <1>2, <1>3 DEF Frame
<1> HIDE DEF y
<1>5. \A i \in 1..n : ~x.bus[i].final /\ Ranked(x.bus[i], x) /\ x.bus[i].kind # "message"
  BY <1>0, <1>1 DEF BusOk, RunOk, Tells
<1>6. /\ Level(x) \in 0..4 /\ Level(y) \in 0..4 /\ Rank(v.state) \in 0..4
      /\ \A i \in 1..n : Rank(x.bus[i].state) \in 0..4
  BY <1>1, LevelInt, RankInt DEF Event
<1>7. Extends(x, y)
  <2>1. Marks(x, y)
    BY <1>1, <1>2 DEF Marks
  <2> QED BY <1>1, <1>4, <2>1 DEF Extends
<1>8. \A i \in DOMAIN y.bus : y.bus[i].by = e /\ Tells(y.bus[i], y)
  <2>1. \A i \in 1..n : x.bus[i].by = e /\ x.promoted
    BY <1>0, <1>1, <1>5 DEF BusOk, Tells
  <2>2. \A i \in 1..n : Tells(x.bus[i], y)
    BY <2>1, <1>4, <1>5 DEF Tells, Frame
  <2>3. Tells(v, y)
    BY <1>2 DEF Tells
  <2>4. ASSUME NEW i \in DOMAIN y.bus
        PROVE  y.bus[i].by = e /\ Tells(y.bus[i], y)
    <3>1. CASE i \in 1..n
      <4>1. y.bus[i] = x.bus[i]
        BY <1>1, <3>1
      <4> QED BY <2>1, <2>2, <3>1, <4>1
    <3>2. CASE i = n + 1
      <4>1. y.bus[i] = v
        BY <1>1, <3>2
      <4> QED BY <2>3, <4>1
    <3> QED BY <1>1, <2>4, <3>1, <3>2
  <2> QED BY <2>4
<1>9. \A i, j \in DOMAIN y.bus : i < j => Before(y.bus[i], y.bus[j])
  <2>1. \A i, j \in 1..n : i < j => Before(x.bus[i], x.bus[j])
    BY <1>0, <1>1 DEF BusOk
  <2>2. \A i \in 1..n : Before(x.bus[i], v)
    BY <1>5, <1>6 DEF Before, Ranked
  <2>3. ASSUME NEW i \in DOMAIN y.bus, NEW j \in DOMAIN y.bus, i < j
        PROVE  Before(y.bus[i], y.bus[j])
    <3>1. i \in 1..n /\ y.bus[i] = x.bus[i]
      BY <1>1, <2>3
    <3>2. CASE j \in 1..n
      <4>1. y.bus[j] = x.bus[j]
        BY <1>1, <3>2
      <4> QED BY <2>1, <2>3, <3>1, <3>2, <4>1
    <3>3. CASE j = n + 1
      <4>1. y.bus[j] = v
        BY <1>1, <3>3
      <4> QED BY <2>2, <3>1, <4>1
    <3> QED BY <1>1, <3>2, <3>3
  <2> QED BY <2>3
<1>10. RunOk(y)
  <2>1. ASSUME NEW i \in 1..n PROVE Ranked(x.bus[i], y)
    <3>1. Level(x) <= Level(y)
      BY <1>4 DEF Frame
    <3>2. Ranked(x.bus[i], x) /\ Rank(x.bus[i].state) \in 0..4
      BY <1>5, <1>6
    <3> HIDE DEF n
    <3> QED BY <1>6, <3>1, <3>2 DEF Ranked
  <2>2. Ranked(v, y)
    BY <1>3 DEF Ranked
  <2> QED BY <1>1, <1>2, <1>5, <2>1, <2>2 DEF RunOk
<1>11. Known(y, known)
  <2>1. CASE n = 0
    <3>1. x.bus = <<>>
      BY <1>0, <2>1 DEF Execution
    <3>2. ~x.promoted \/ known
      BY <3>1, <1>0 DEF Known
    <3> QED BY <1>1, <2>1, <3>2 DEF Known
  <2>2. CASE n # 0
    <3>1. x.bus # <<>> /\ y.bus # <<>> /\ y.bus[1] = x.bus[1]
      BY <1>1, <2>2
    <3>2. x.promoted
      BY <3>1, <1>0 DEF RunOk
    <3> QED BY <1>0, <3>1, <3>2 DEF Known
  <2> QED BY <2>1, <2>2
<1> QED BY <1>2, <1>7, <1>8, <1>9, <1>10, <1>11 DEF Good, BusOk, y

-----------------------------------------------------------------------------
LEMMA Ranks ==
  /\ Rank("submitted") = 1 /\ Rank("working") = 2 /\ Rank("input-required") = 3
  /\ Rank("none") = 0 /\ \A state \in Terminal : Rank(state) = 4
  BY DEF Rank, Terminal, Quiescent

LEMMA StateSets ==
  /\ {"submitted", "working", "input-required"} \subseteq States \ Terminal
  /\ {"completed", "failed", "canceled"} \subseteq States \intersect Terminal
  BY DEF States, Terminal, Quiescent, Active

LEMMA SnapshotEvent ==
  ASSUME NEW e \in Sends, NEW artifacts \in SUBSET ArtifactIds
  PROVE  /\ Snapshot(e, artifacts) \in Event /\ Snapshot(e, artifacts).by = e
         /\ Snapshot(e, artifacts).kind = "task" /\ ~Snapshot(e, artifacts).final
         /\ Snapshot(e, artifacts).state = "submitted"
  BY DEF Snapshot, Event, Authors, States, Active

LEMMA StatusEvent ==
  ASSUME NEW e \in Sends \union Cancels, NEW state \in States
  PROVE  /\ Status(e, state) \in Event /\ Status(e, state).by = e
         /\ Status(e, state).kind = "status-update"
         /\ Status(e, state).state = state
         /\ IF state \in Terminal THEN Status(e, state).final ELSE ~Status(e, state).final
<1>1. Status(e, state) \in Event
  BY DEF Status, Event, Authors
<1>2. CASE state \in Terminal
  <2>1. Status(e, state) = [kind |-> "status-update", by |-> e, state |-> state,
                            final |-> TRUE, artifacts |-> {}]
    <3>1. (state \in Terminal) = TRUE
      BY <1>2
    <3> QED BY <3>1, Zenon DEF Status
  <2> QED BY <1>1, <1>2, <2>1
<1>3. CASE state \notin Terminal
  <2>1. Status(e, state) = [kind |-> "status-update", by |-> e, state |-> state,
                            final |-> FALSE, artifacts |-> {}]
    <3>1. (state \in Terminal) = FALSE
      BY <1>3
    <3> QED BY <3>1, Zenon DEF Status
  <2> QED BY <1>1, <1>3, <2>1
<1> QED BY <1>2, <1>3

LEMMA ArtifactEvent ==
  ASSUME NEW e \in Sends \union Replies, NEW id \in ArtifactIds
  PROVE  /\ Artifact(e, id) \in Event /\ Artifact(e, id).by = e
         /\ Artifact(e, id).kind = "artifact-update" /\ ~Artifact(e, id).final
  BY DEF Artifact, Event, Authors

LEMMA DirectEvent ==
  ASSUME NEW e \in Sends
  PROVE  /\ Direct(e) \in Event /\ Direct(e).by = e
         /\ Direct(e).kind = "message" /\ ~Direct(e).final
  BY DEF Direct, Event, Authors

\* The operators of the coordinator, one by one: each extends what is ready.
LEMMA WorkingKeeps ==
  ASSUME NEW e \in Sends, NEW known \in BOOLEAN, NEW x, Ready(x, e, known)
  PROVE  LET y == PublishWorking(x, e) IN
         /\ Ready(y, e, known) /\ Extends(x, y)
         /\ y.promoted = x.promoted /\ y.paused = x.paused /\ y.ran = x.ran
         /\ y.promoted /\ y.ran => y.working
         /\ y.stages = x.stages /\ y.content = x.content /\ y.events = x.events
<1>0. x \in Execution /\ RunOk(x) /\ ~x.final
  BY DEF Ready, Good
<1>1. CASE ~(x.promoted /\ ~x.working /\ x.ran)
  BY <1>0, <1>1, ExtendsSelf DEF PublishWorking
<1>2. CASE x.promoted /\ ~x.working /\ x.ran
  <2> DEFINE z == [x EXCEPT !.working = TRUE]
             v == Status(e, "working")
  <2>1. /\ z \in Execution /\ z.bus = x.bus /\ z.working /\ z.promoted /\ ~z.final
        /\ ~x.paused /\ ~z.paused /\ z.pc = x.pc /\ z.task = x.task /\ z.mode = x.mode
        /\ z.continues = x.continues /\ z.aborted = x.aborted /\ z.reader = x.reader
        /\ z.answer = x.answer /\ z.stages = x.stages /\ z.events = x.events
        /\ z.ran = x.ran /\ z.content = x.content /\ z.promoted = x.promoted
        /\ z.paused = x.paused
    <3>1. z \in Execution
      BY <1>0, <1>2 DEF Execution, RunOk
    <3>2. /\ z.bus = x.bus /\ z.working /\ z.promoted /\ ~z.final
          /\ ~x.paused /\ ~z.paused /\ z.pc = x.pc /\ z.task = x.task /\ z.mode = x.mode
          /\ z.continues = x.continues /\ z.aborted = x.aborted /\ z.reader = x.reader
          /\ z.answer = x.answer /\ z.stages = x.stages /\ z.events = x.events
          /\ z.ran = x.ran /\ z.content = x.content /\ z.promoted = x.promoted
          /\ z.paused = x.paused
      BY <1>0, <1>2 DEF Execution, RunOk
    <3> QED BY <3>1, <3>2
  <2>2. Level(x) = 1 /\ Level(z) = 2
    BY <1>0, <1>2, <2>1 DEF Level
  <2>3. Frame(x, z)
    BY <1>2, <2>1, <2>2 DEF Frame
  <2>4. /\ v \in Event /\ v.by = e /\ v.kind = "status-update" /\ v.state = "working"
        /\ ~v.final
    BY StatusEvent, StateSets
  <2>5. PublishWorking(x, e) = Publish(z, v)
    <3>1. x.promoted /\ ~x.working /\ ~x.final /\ x.ran
      BY <1>0, <1>2
    <3> QED BY ONLY <3>1 DEF PublishWorking
  <2>6. x.stages <= x.events
    BY <1>0 DEF RunOk
  <2>7. /\ Publish(z, v).final = z.final /\ Publish(z, v).promoted = z.promoted
        /\ Publish(z, v).paused = z.paused /\ Publish(z, v).ran = z.ran
        /\ Publish(z, v).working = z.working /\ Publish(z, v).stages = z.stages
        /\ Publish(z, v).content = z.content /\ Publish(z, v).events = z.events
    BY <2>1 DEF Publish, Execution
  <2> HIDE DEF z, v
  <2>8. Good(Publish(z, v), e, known) /\ Extends(x, Publish(z, v))
    BY <1>2, <2>1, <2>2, <2>3, <2>4, <2>6, PublishKeeps, Ranks
  <2>9. /\ Ready(Publish(z, v), e, known) /\ Publish(z, v).promoted = x.promoted
        /\ Publish(z, v).paused = x.paused /\ Publish(z, v).ran = x.ran
        /\ Publish(z, v).working /\ Publish(z, v).stages = x.stages
        /\ Publish(z, v).content = x.content /\ Publish(z, v).events = x.events
    BY <1>2, <2>1, <2>7, <2>8 DEF Ready
  <2> QED BY <2>5, <2>8, <2>9
<1> QED BY <1>1, <1>2

LEMMA StageKeeps ==
  ASSUME NEW e \in Sends, NEW known \in BOOLEAN, NEW x, Ready(x, e, known)
  PROVE  LET y == PublishStage(x, e) IN
         /\ Ready(y, e, known) /\ Extends(x, y)
         /\ y.promoted = x.promoted /\ y.paused = x.paused /\ y.working = x.working
         /\ y.ran = x.ran
<1>0. x \in Execution /\ RunOk(x) /\ ~x.final
  BY DEF Ready, Good
<1>1. CASE ~(x.promoted /\ x.stages > 0 /\ x.content = "shown")
  BY <1>0, <1>1, ExtendsSelf DEF PublishStage
<1>2. CASE x.promoted /\ x.stages > 0 /\ x.content = "shown"
  <2> DEFINE v == Artifact(e, <<"assistant", x.stages>>)
  <2>1. <<"assistant", x.stages>> \in ArtifactIds
    BY <1>0, <1>2, LifecycleAssumption DEF Execution, ArtifactIds
  <2>2. /\ v \in Event /\ v.by = e /\ v.kind = "artifact-update" /\ ~v.final
    BY <2>1, ArtifactEvent
  <2>3. Frame(x, x) /\ (x.working \/ x.final => x.promoted) /\ (x.paused => x.working)
        /\ x.stages <= x.events
    BY <1>0, ExtendsSelf DEF Extends, RunOk
  <2>4. PublishStage(x, e) = Publish(x, v)
    BY <1>2 DEF PublishStage
  <2>5. /\ Publish(x, v).final = x.final /\ Publish(x, v).promoted = x.promoted
        /\ Publish(x, v).paused = x.paused /\ Publish(x, v).working = x.working
        /\ Publish(x, v).ran = x.ran
    BY <1>0 DEF Publish, Execution
  <2> HIDE DEF v
  <2>6. Good(Publish(x, v), e, known) /\ Extends(x, Publish(x, v))
    BY <1>0, <1>2, <2>2, <2>3, PublishKeeps
  <2> QED BY <1>0, <2>4, <2>5, <2>6 DEF Ready
<1> QED BY <1>1, <1>2

\* The snapshot and the first status of a new task.
LEMMA SubmittedKeeps ==
  ASSUME NEW e \in Sends, NEW known \in BOOLEAN, NEW x, Ready(x, e, known), ~x.promoted
  PROVE  LET y == Publish(Publish([x EXCEPT !.promoted = TRUE], Snapshot(e, x.base)),
                          Status(e, "submitted")) IN
         /\ Ready(y, e, known) /\ Extends(x, y)
         /\ y.promoted /\ y.ran = x.ran /\ y.paused = x.paused
         /\ y.stages = x.stages /\ y.content = x.content
<1> DEFINE u == Snapshot(e, x.base)
           v == Status(e, "submitted")
           y == Publish(Publish([x EXCEPT !.promoted = TRUE], u), v)
<1>0. x \in Execution /\ RunOk(x) /\ ~x.final /\ x.bus = <<>> /\ x.stages <= x.events
      /\ ~x.working /\ ~x.paused
  BY DEF Ready, Good, RunOk
<1>1. /\ u \in Event /\ u.by = e /\ u.kind = "task" /\ ~u.final
      /\ v \in Event /\ v.by = e /\ v.kind = "status-update" /\ v.state = "submitted"
      /\ ~v.final
  BY <1>0, SnapshotEvent, StatusEvent, StateSets DEF Execution
<1> HIDE DEF u, v
<1> DEFINE b == Append(Append(<<>>, u), v)
<1>2. y = [x EXCEPT !.promoted = TRUE, !.bus = b]
  <2> DEFINE p == [x EXCEPT !.promoted = TRUE]
             q == [p EXCEPT !.bus = Append(<<>>, u)]
  <2>1. p \in Execution /\ p.bus = <<>> /\ <<>> \in Seq(Event)
    BY <1>0 DEF Execution
  <2>2. Publish(p, u) = q
    BY <2>1 DEF Publish
  <2>3. Append(<<>>, u) \in Seq(Event)
    BY <1>1, <2>1, AppendProperties
  <2>4. q.bus = Append(<<>>, u)
    BY <2>1 DEF Execution
  <2>5. Publish(q, v) = [q EXCEPT !.bus = b]
    BY <2>4 DEF Publish
  <2>6. [q EXCEPT !.bus = b] = [x EXCEPT !.promoted = TRUE, !.bus = b]
    BY <1>0 DEF Execution
  <2> QED BY <2>2, <2>5, <2>6
<1>3. /\ b \in Seq(Event) /\ Len(b) = 2 /\ DOMAIN b = 1..2
      /\ b[1] = u /\ b[2] = v /\ b # <<>>
  <2>1. <<>> \in Seq(Event) /\ Len(<<>>) = 0
    OBVIOUS
  <2>2. /\ Append(<<>>, u) \in Seq(Event) /\ Len(Append(<<>>, u)) = 1
        /\ Append(<<>>, u)[1] = u
    BY <1>1, <2>1, AppendProperties
  <2>3. /\ b \in Seq(Event) /\ Len(b) = 2 /\ b[1] = u /\ b[2] = v /\ b # <<>>
    BY <1>1, <2>2, AppendProperties
  <2> QED BY <2>3
<1> HIDE DEF b
<1>4. /\ y \in Execution /\ y.bus = b /\ y.promoted /\ ~y.working /\ ~y.final
      /\ ~y.paused /\ y.pc = x.pc /\ y.task = x.task /\ y.mode = x.mode
      /\ y.continues = x.continues /\ y.aborted = x.aborted /\ y.reader = x.reader
      /\ y.answer = x.answer /\ y.stages = x.stages /\ y.events = x.events
      /\ y.ran = x.ran /\ y.content = x.content /\ y.paused = x.paused
  <2>1. y \in Execution
    <3>1. ASSUME NEW bus \in Seq(Event)
          PROVE  [[x EXCEPT !.promoted = TRUE] EXCEPT !.bus = bus] \in Execution
      BY <1>0 DEF Execution
    <3>2. y = [[x EXCEPT !.promoted = TRUE] EXCEPT !.bus = b]
      BY <1>2
    <3> HIDE DEF y
    <3> QED BY <1>3, <3>1, <3>2
  <2>2. /\ y.bus = b /\ y.promoted /\ ~y.working /\ ~y.final
        /\ ~y.paused /\ y.pc = x.pc /\ y.task = x.task /\ y.mode = x.mode
        /\ y.continues = x.continues /\ y.aborted = x.aborted /\ y.reader = x.reader
        /\ y.answer = x.answer /\ y.stages = x.stages /\ y.events = x.events
        /\ y.ran = x.ran /\ y.content = x.content /\ y.paused = x.paused
    BY <1>0, <1>2, <1>3 DEF Execution
  <2> QED BY <2>1, <2>2
<1> HIDE DEF y
<1>5. Level(x) = 0 /\ Level(y) = 1
  BY <1>0, <1>4 DEF Level
<1>6. Extends(x, y)
  <2>1. Frame(x, y)
    BY <1>4, <1>5 DEF Frame
  <2>2. Len(x.bus) = 0
    BY <1>0
  <2>3. Marks(x, y)
    BY <1>0, <1>1, <1>3, <1>4, <2>2 DEF Marks
  <2> QED BY <1>1, <1>3, <1>4, <1>5, <2>1, <2>2, <2>3, Ranks DEF Extends
<1>7. BusOk(y, e)
  BY <1>1, <1>3, <1>4 DEF BusOk, Tells, Before
<1>8. RunOk(y)
  BY <1>0, <1>1, <1>3, <1>4, <1>5, Ranks DEF RunOk, Ranked
<1>9. Known(y, known)
  BY <1>1, <1>3, <1>4 DEF Known
<1>10. /\ Ready(y, e, known) /\ Extends(x, y) /\ y.promoted /\ y.ran = x.ran
       /\ y.paused = x.paused /\ y.stages = x.stages /\ y.content = x.content
  BY <1>0, <1>4, <1>6, <1>7, <1>8, <1>9 DEF Ready, Good
<1> QED BY <1>10 DEF y, u, v

LEMMA PromoteKeeps ==
  ASSUME NEW e \in Sends, NEW known \in BOOLEAN, NEW x, Ready(x, e, known)
  PROVE  LET y == PromoteToTask(x, e) IN
         /\ Ready(y, e, known) /\ Extends(x, y) /\ y.promoted
         /\ y.paused = x.paused /\ (x.ran => y.ran)
         /\ ~x.promoted /\ x.ran => y.working
<1>0. x \in Execution
  BY DEF Ready, Good
<1>1. CASE x.promoted
  BY <1>0, <1>1, ExtendsSelf DEF PromoteToTask
<1>2. CASE ~x.promoted
  <2> DEFINE y1 == Publish(Publish([x EXCEPT !.promoted = TRUE], Snapshot(e, x.base)),
                           Status(e, "submitted"))
             y2 == PublishWorking(y1, e)
             y3 == PublishStage(y2, e)
  <2>1. /\ Ready(y1, e, known) /\ Extends(x, y1) /\ y1.promoted /\ y1.ran = x.ran
        /\ y1.paused = x.paused
    BY <1>2, SubmittedKeeps
  <2>2. PromoteToTask(x, e) = y3
    BY <1>2 DEF PromoteToTask
  <2> HIDE DEF y1
  <2>3. /\ Ready(y2, e, known) /\ Extends(y1, y2) /\ y2.promoted /\ y2.ran = x.ran
        /\ y2.paused = x.paused /\ (x.ran => y2.working)
    BY <2>1, WorkingKeeps
  <2> HIDE DEF y2
  <2>4. /\ Ready(y3, e, known) /\ Extends(y2, y3) /\ y3.promoted /\ y3.ran = x.ran
        /\ y3.paused = x.paused /\ (x.ran => y3.working)
    BY <2>3, StageKeeps
  <2> HIDE DEF y3
  <2>5. y1 \in Execution /\ y2 \in Execution /\ y3 \in Execution
    BY <2>1, <2>3, <2>4 DEF Ready, Good
  <2>6. Extends(x, y3)
    BY <1>0, <2>1, <2>3, <2>4, <2>5, ExtendsTrans
  <2> QED BY <1>2, <2>2, <2>4, <2>6
<1> QED BY <1>1, <1>2

-----------------------------------------------------------------------------
\* A change of what no event tells of.
LEMMA TouchKeeps ==
  ASSUME NEW e \in Sends, NEW known \in BOOLEAN, NEW x, Ready(x, e, known),
         NEW z \in Execution, z.bus = x.bus, z.promoted = x.promoted,
         z.working = x.working, z.paused = x.paused, z.final = x.final,
         z.aborted = x.aborted, z.stages <= z.events
  PROVE  /\ Ready(z, e, known)
         /\ /\ z.pc = x.pc /\ z.task = x.task /\ z.mode = x.mode
            /\ z.continues = x.continues /\ z.reader = x.reader /\ z.answer = x.answer
            => Extends(x, z)
<1>1. x \in Execution /\ BusOk(x, e) /\ RunOk(x) /\ Known(x, known) /\ ~x.final
  BY DEF Ready, Good
<1>2. Level(z) = Level(x)
  BY DEF Level
<1>3. BusOk(z, e)
  BY <1>1 DEF BusOk, Tells
<1>4. RunOk(z)
  BY <1>1, <1>2 DEF RunOk, Ranked
<1>5. Known(z, known)
  BY <1>1 DEF Known
<1>6. Len(x.bus) \in Nat /\ DOMAIN x.bus = 1..Len(x.bus) /\ Level(x) \in 0..4
  BY <1>1, LevelInt DEF Execution
<1>7. ASSUME z.pc = x.pc, z.task = x.task, z.mode = x.mode, z.continues = x.continues,
             z.reader = x.reader, z.answer = x.answer
      PROVE  Extends(x, z)
  BY <1>2, <1>6, <1>7 DEF Extends, Frame, Marks
<1> QED BY <1>1, <1>3, <1>4, <1>5, <1>7 DEF Ready, Good

LEMMA FinalKeeps ==
  ASSUME NEW e \in Sends, NEW known \in BOOLEAN, NEW x, Ready(x, e, known),
         NEW state \in {"completed", "failed", "canceled"},
         state = "canceled" <=> x.aborted = "cancel", x.aborted # "shutdown"
  PROVE  LET y == PublishFinal(x, e, state) IN
         Good(y, e, known) /\ Extends(x, y) /\ y.final
<1> DEFINE p == PromoteToTask(x, e)
           z == [p EXCEPT !.final = TRUE]
           v == Status(e, state)
<1>0. x \in Execution /\ ~x.final
  BY DEF Ready, Good
<1>1. /\ Ready(p, e, known) /\ Extends(x, p) /\ p.promoted
      /\ p \in Execution /\ RunOk(p) /\ ~p.final
  BY PromoteKeeps DEF Ready, Good
<1>2. PublishFinal(x, e, state) = Publish(z, v)
  BY <1>0 DEF PublishFinal
<1> HIDE DEF p
<1>3. /\ z \in Execution /\ z.bus = p.bus /\ z.working = p.working /\ z.final
      /\ z.promoted /\ z.paused = p.paused /\ z.pc = p.pc /\ z.task = p.task
      /\ z.mode = p.mode /\ z.continues = p.continues /\ z.aborted = p.aborted
      /\ z.reader = p.reader /\ z.answer = p.answer /\ z.stages = p.stages
      /\ z.events = p.events
  <2>1. z \in Execution
    BY <1>1 DEF Execution
  <2>2. /\ z.bus = p.bus /\ z.working = p.working /\ z.final
        /\ z.promoted /\ z.paused = p.paused /\ z.pc = p.pc /\ z.task = p.task
        /\ z.mode = p.mode /\ z.continues = p.continues /\ z.aborted = p.aborted
        /\ z.reader = p.reader /\ z.answer = p.answer /\ z.stages = p.stages
        /\ z.events = p.events
    BY <1>1 DEF Execution
  <2> QED BY <2>1, <2>2
<1>4. Level(z) = 4 /\ Level(p) < 4
  BY <1>1, <1>3 DEF Level
<1>5. Publish(z, v).final
  BY <1>3 DEF Publish, Execution
<1> HIDE DEF z
<1>6. Frame(p, z) /\ (z.paused => z.working) /\ z.stages <= z.events
  BY <1>1, <1>3, <1>4, LevelInt DEF Frame, RunOk
<1>7. p.aborted = x.aborted
  BY <1>1 DEF Extends, Frame
<1>8. /\ v \in Event /\ v.by = e /\ v.kind = "status-update" /\ v.state = state
      /\ Rank(state) = 4 /\ state \notin Active
  <2>1. state \in States /\ state \in Terminal /\ state \notin Active
    BY DEF States, Terminal, Active
  <2> QED BY <2>1, StatusEvent, Ranks
<1>9. Tells(v, z)
  BY <1>3, <1>7, <1>8 DEF Tells
<1> HIDE DEF v
<1>10. Good(Publish(z, v), e, known) /\ Extends(p, Publish(z, v))
  <2>1. Settling(v)
    BY <1>8 DEF Settling
  <2> QED BY <1>1, <1>3, <1>4, <1>6, <1>8, <1>9, <2>1, PublishKeeps
<1>11. Extends(x, Publish(z, v))
  BY <1>0, <1>1, <1>10, ExtendsTrans DEF Good
<1> QED BY <1>2, <1>5, <1>10, <1>11

LEMMA FinishKeeps ==
  ASSUME NEW e \in Sends, NEW known \in BOOLEAN, NEW x, Ready(x, e, known),
         NEW state \in {"completed", "failed", "canceled"},
         state = "canceled" <=> x.aborted = "cancel", x.aborted # "shutdown"
  PROVE  LET y == Finish(x, e, state) IN
         Good(y, e, known) /\ Extends(x, y) /\ y.final
<1> DEFINE p == PromoteToTask(x, e)
           q == PublishStage(p, e)
           y == PublishFinal(q, e, state)
<1>1. Ready(p, e, known) /\ Extends(x, p)
  BY PromoteKeeps
<1> HIDE DEF p
<1>2. Ready(q, e, known) /\ Extends(p, q)
  BY <1>1, StageKeeps
<1> HIDE DEF q
<1>3. q.aborted = x.aborted
  BY <1>1, <1>2 DEF Extends, Frame
<1>4. Good(y, e, known) /\ Extends(q, y) /\ y.final
  BY <1>2, <1>3, FinalKeeps
<1>5. Finish(x, e, state) = y
  BY DEF Finish, p, q
<1> HIDE DEF y
<1>6. x \in Execution /\ p \in Execution /\ q \in Execution /\ y \in Execution
  BY <1>1, <1>2, <1>4 DEF Ready, Good
<1>7. Extends(x, q)
  BY <1>1, <1>2, <1>6, ExtendsTrans
<1>8. Extends(x, y)
  BY <1>4, <1>6, <1>7, ExtendsTrans
<1> QED BY <1>4, <1>5, <1>8

LEMMA InputRequiredKeeps ==
  ASSUME NEW e \in Sends, NEW known \in BOOLEAN, NEW x, Ready(x, e, known),
         x.promoted, x.working
  PROVE  LET y == PublishInputRequired(x, e) IN
         Ready(y, e, known) /\ Extends(x, y)
<1>0. x \in Execution /\ RunOk(x) /\ ~x.final
  BY DEF Ready, Good
<1>1. CASE x.paused
  BY <1>0, <1>1, ExtendsSelf DEF PublishInputRequired
<1>2. CASE ~x.paused
  <2> DEFINE z == [x EXCEPT !.paused = TRUE]
             v == Status(e, "input-required")
  <2>1. /\ z \in Execution /\ z.bus = x.bus /\ z.working /\ ~z.final
        /\ z.promoted /\ z.paused /\ z.pc = x.pc /\ z.task = x.task
        /\ z.mode = x.mode /\ z.continues = x.continues /\ z.aborted = x.aborted
        /\ z.reader = x.reader /\ z.answer = x.answer /\ z.stages = x.stages
        /\ z.events = x.events
    <3>1. z \in Execution
      BY <1>0 DEF Execution
    <3>2. /\ z.bus = x.bus /\ z.working /\ ~z.final
          /\ z.promoted /\ z.paused /\ z.pc = x.pc /\ z.task = x.task
          /\ z.mode = x.mode /\ z.continues = x.continues /\ z.aborted = x.aborted
          /\ z.reader = x.reader /\ z.answer = x.answer /\ z.stages = x.stages
          /\ z.events = x.events
      BY <1>0 DEF Execution
    <3> QED BY <3>1, <3>2
  <2>2. Level(z) = 3 /\ Level(x) = 2
    BY <1>0, <1>2, <2>1 DEF Level
  <2>3. ~Publish(z, v).final
    BY <2>1 DEF Publish, Execution
  <2>4. PublishInputRequired(x, e) = Publish(z, v)
    BY <1>0, <1>2 DEF PublishInputRequired
  <2> HIDE DEF z
  <2>5. Frame(x, z) /\ z.stages <= z.events
    BY <1>0, <2>1, <2>2 DEF Frame, RunOk
  <2>6. /\ v \in Event /\ v.by = e /\ v.kind = "status-update"
        /\ v.state = "input-required" /\ ~v.final
    BY StatusEvent, StateSets
  <2> HIDE DEF v
  <2>7. Good(Publish(z, v), e, known) /\ Extends(x, Publish(z, v))
    <3>1. Settling(v)
      BY <2>6 DEF Settling, Active
    <3> QED BY <2>1, <2>2, <2>5, <2>6, <3>1, PublishKeeps, Ranks
  <2> QED BY <2>3, <2>4, <2>7 DEF Ready
<1> QED BY <1>1, <1>2

LEMMA ObservedKeeps ==
  ASSUME NEW e \in Sends, NEW known \in BOOLEAN, NEW x, Ready(x, e, known),
         x.events < MaxEvents
  PROVE  LET y == Observed(x, e) IN
         /\ Ready(y, e, known) /\ Extends(x, y) /\ y.ran
         /\ y.promoted => y.working
         /\ y.stages < y.events /\ y.stages < MaxEvents
<1> DEFINE z == [x EXCEPT !.ran = TRUE, !.events = @ + 1]
           y == PublishWorking(z, e)
<1>0. x \in Execution /\ x.stages <= x.events /\ x.stages \in Nat /\ x.events \in Nat
      /\ x.events + 1 \in 0..MaxEvents
  BY LifecycleAssumption DEF Ready, Good, RunOk, Execution
<1>1. /\ z \in Execution /\ z.bus = x.bus /\ z.working = x.working /\ z.final = x.final
      /\ z.promoted = x.promoted /\ z.paused = x.paused /\ z.pc = x.pc /\ z.task = x.task
      /\ z.mode = x.mode /\ z.continues = x.continues /\ z.aborted = x.aborted
      /\ z.reader = x.reader /\ z.answer = x.answer /\ z.stages = x.stages
      /\ z.events = x.events + 1 /\ z.ran
  <2>1. z \in Execution
    BY <1>0, LifecycleAssumption DEF Execution
  <2>2. /\ z.bus = x.bus /\ z.working = x.working /\ z.final = x.final
        /\ z.promoted = x.promoted /\ z.paused = x.paused /\ z.pc = x.pc /\ z.task = x.task
        /\ z.mode = x.mode /\ z.continues = x.continues /\ z.aborted = x.aborted
        /\ z.reader = x.reader /\ z.answer = x.answer /\ z.stages = x.stages
        /\ z.events = x.events + 1 /\ z.ran
    BY <1>0, LifecycleAssumption DEF Execution
  <2> QED BY <2>1, <2>2
<1>2. Observed(x, e) = y
  BY DEF Observed
<1> HIDE DEF z
<1>3. Ready(z, e, known) /\ Extends(x, z)
  BY <1>0, <1>1, TouchKeeps
<1>4. /\ Ready(y, e, known) /\ Extends(z, y) /\ y.ran = z.ran
      /\ y.promoted /\ y.ran => y.working
      /\ y.stages = z.stages /\ y.events = z.events
  BY <1>3, WorkingKeeps
<1> HIDE DEF y
<1>5. Extends(x, y)
  BY <1>0, <1>1, <1>3, <1>4, ExtendsTrans DEF Ready, Good
<1>6. y.stages < y.events /\ y.stages < MaxEvents
  BY <1>0, <1>1, <1>4, LifecycleAssumption
<1>7. y.ran
  BY <1>1, <1>4
<1> QED BY <1>2, <1>4, <1>5, <1>6, <1>7

\* Updates of several fields keep the type.
LEMMA StageUpdate ==
  ASSUME NEW x \in Execution, NEW stages \in 0..MaxEvents,
         NEW content \in Contents \union {"blank"}
  PROVE  [x EXCEPT !.stages = stages, !.content = content] \in Execution
  BY Zenon DEF Execution

LEMMA FlagUpdate ==
  ASSUME NEW x \in Execution
  PROVE  [x EXCEPT !.working = FALSE, !.error = FALSE] \in Execution
  BY Zenon DEF Execution

\* The promotion leaves the counts of the run alone.
LEMMA PublishCounts ==
  ASSUME NEW x \in Execution, NEW v
  PROVE  /\ Publish(x, v).stages = x.stages /\ Publish(x, v).events = x.events
         /\ DOMAIN Publish(x, v) = DOMAIN x
  BY DEF Publish, Execution

LEMMA PromoteCounts ==
  ASSUME NEW e \in Sends, NEW known \in BOOLEAN, NEW x, Ready(x, e, known)
  PROVE  PromoteToTask(x, e).stages = x.stages /\ PromoteToTask(x, e).events = x.events
<1>0. x \in Execution /\ ~x.final
  BY DEF Ready, Good
<1>1. CASE x.promoted
  BY <1>1 DEF PromoteToTask
<1>2. CASE ~x.promoted
  <2> DEFINE y1 == Publish(Publish([x EXCEPT !.promoted = TRUE], Snapshot(e, x.base)),
                           Status(e, "submitted"))
             y2 == PublishWorking(y1, e)
             y3 == PublishStage(y2, e)
  <2>1. Ready(y1, e, known)
    BY <1>2, SubmittedKeeps
  <2>2. y1.stages = x.stages /\ y1.events = x.events
    BY <1>0 DEF Publish, Execution
  <2>3. PromoteToTask(x, e) = y3
    BY <1>2 DEF PromoteToTask
  <2> HIDE DEF y1
  <2>4. y1 \in Execution /\ Ready(y2, e, known)
    BY <2>1, WorkingKeeps DEF Ready, Good
  <2>5. y2.stages = y1.stages /\ y2.events = y1.events
    BY <2>4 DEF PublishWorking, Publish, Execution
  <2> HIDE DEF y2
  <2>6. y2 \in Execution
    BY <2>4 DEF Ready, Good
  <2>7. y3.stages = y2.stages /\ y3.events = y2.events
    BY <2>6 DEF PublishStage, Publish, Execution
  <2> QED BY <2>2, <2>3, <2>5, <2>7
<1> QED BY <1>1, <1>2

\* A message is counted before the rest of its step, with the run or without.
Counted(x, e, observed) ==
  IF observed THEN Observed(x, e) ELSE [x EXCEPT !.events = @ + 1]

LEMMA CountedKeeps ==
  ASSUME NEW e \in Sends, NEW known \in BOOLEAN, NEW x, Ready(x, e, known),
         x.events < MaxEvents, NEW observed \in BOOLEAN
  PROVE  LET y == Counted(x, e, observed) IN
         /\ Ready(y, e, known) /\ Extends(x, y)
         /\ y.stages < y.events /\ y.stages < MaxEvents
<1>1. CASE observed
  BY <1>1, ObservedKeeps DEF Counted
<1>2. CASE ~observed
  <2> DEFINE z == [x EXCEPT !.events = @ + 1]
  <2>1. x \in Execution /\ x.stages <= x.events /\ x.stages \in Nat /\ x.events \in Nat
        /\ x.events + 1 \in 0..MaxEvents
    BY LifecycleAssumption DEF Ready, Good, RunOk, Execution
  <2>2. /\ z \in Execution /\ z.bus = x.bus /\ z.working = x.working /\ z.final = x.final
        /\ z.promoted = x.promoted /\ z.paused = x.paused /\ z.pc = x.pc /\ z.task = x.task
        /\ z.mode = x.mode /\ z.continues = x.continues /\ z.aborted = x.aborted
        /\ z.reader = x.reader /\ z.answer = x.answer /\ z.stages = x.stages
        /\ z.events = x.events + 1
    <3>1. z \in Execution
      BY <2>1, LifecycleAssumption DEF Execution
    <3>2. /\ z.bus = x.bus /\ z.working = x.working /\ z.final = x.final
          /\ z.promoted = x.promoted /\ z.paused = x.paused /\ z.pc = x.pc /\ z.task = x.task
          /\ z.mode = x.mode /\ z.continues = x.continues /\ z.aborted = x.aborted
          /\ z.reader = x.reader /\ z.answer = x.answer /\ z.stages = x.stages
          /\ z.events = x.events + 1
      BY <2>1, LifecycleAssumption DEF Execution
    <3> QED BY <3>1, <3>2
  <2>3. Counted(x, e, observed) = z
    BY <1>2 DEF Counted
  <2> HIDE DEF z
  <2>4. Ready(z, e, known) /\ Extends(x, z)
    BY <2>1, <2>2, TouchKeeps
  <2>5. z.stages < z.events /\ z.stages < MaxEvents
    BY <2>1, <2>2, LifecycleAssumption
  <2> QED BY <2>3, <2>4, <2>5
<1> QED BY <1>1, <1>2

\* What a message leaves.
Spoken(x, e, content, observed) ==
  LET z == Counted(x, e, observed)
      y == IF z.stages > 0 THEN PromoteToTask(z, e) ELSE z
  IN  PublishStage([y EXCEPT !.stages = @ + 1, !.content = content], e)

LEMMA MessageKeeps ==
  ASSUME NEW e \in Sends, NEW known \in BOOLEAN, NEW x, Ready(x, e, known),
         x.events < MaxEvents, NEW content \in Contents, NEW observed \in BOOLEAN
  PROVE  LET y == Spoken(x, e, content, observed) IN
         Ready(y, e, known) /\ Extends(x, y)
<1> DEFINE o == Counted(x, e, observed)
           p == IF o.stages > 0 THEN PromoteToTask(o, e) ELSE o
           z == [p EXCEPT !.stages = @ + 1, !.content = content]
           y == PublishStage(z, e)
<1>1. /\ Ready(o, e, known) /\ Extends(x, o) /\ o.stages < o.events
      /\ o.stages < MaxEvents
  BY CountedKeeps
<1>2. Spoken(x, e, content, observed) = y
  BY DEF Spoken
<1> HIDE DEF o
<1>3. x \in Execution /\ o \in Execution
  BY <1>1 DEF Ready, Good
<1>4. /\ Ready(p, e, known) /\ Extends(o, p)
      /\ p.stages = o.stages /\ p.events = o.events
  <2>1. CASE o.stages > 0
    BY <1>1, <2>1, PromoteKeeps, PromoteCounts
  <2>2. CASE ~(o.stages > 0)
    BY <1>1, <1>3, <2>2, ExtendsSelf
  <2> QED BY <2>1, <2>2
<1> HIDE DEF p
<1>5. /\ p \in Execution /\ p.stages \in Nat /\ p.events \in Nat
      /\ p.stages + 1 \in 0..MaxEvents /\ p.stages < p.events
  BY <1>1, <1>4, LifecycleAssumption DEF Ready, Good, Execution
<1>6. /\ z.bus = p.bus /\ z.working = p.working /\ z.final = p.final
      /\ z.promoted = p.promoted /\ z.paused = p.paused /\ z.pc = p.pc /\ z.task = p.task
      /\ z.mode = p.mode /\ z.continues = p.continues /\ z.aborted = p.aborted
      /\ z.reader = p.reader /\ z.answer = p.answer /\ z.stages = p.stages + 1
      /\ z.events = p.events
  BY <1>5 DEF Execution
<1>7. z \in Execution
  <2>1. content \in Contents \union {"blank"}
    OBVIOUS
  <2> QED BY <1>5, <2>1, StageUpdate
<1> HIDE DEF z
<1>8. Ready(z, e, known) /\ Extends(p, z)
  BY <1>4, <1>5, <1>6, <1>7, TouchKeeps
<1>9. Ready(y, e, known) /\ Extends(z, y)
  BY <1>8, StageKeeps
<1> HIDE DEF y
<1>10. y \in Execution
  BY <1>9 DEF Ready, Good
<1>11. Extends(x, p)
  BY <1>1, <1>3, <1>4, <1>5, ExtendsTrans
<1>12. Extends(x, z)
  BY <1>3, <1>5, <1>7, <1>8, <1>11, ExtendsTrans
<1>13. Extends(x, y)
  BY <1>3, <1>7, <1>9, <1>10, <1>12, ExtendsTrans
<1> QED BY <1>2, <1>9, <1>13

LEMMA ToolKeeps ==
  ASSUME NEW e \in Sends, NEW known \in BOOLEAN, NEW x, Ready(x, e, known),
         x.events < MaxEvents
  PROVE  LET y == ToolProgress(x, e) IN
         Ready(y, e, known) /\ Extends(x, y) /\ y.promoted /\ y.working
<1> DEFINE o == Observed(x, e)
           p == PromoteToTask(o, e)
           v == Artifact(e, <<"tool", e>>)
<1>1. /\ Ready(o, e, known) /\ Extends(x, o) /\ o.ran /\ (o.promoted => o.working)
  BY ObservedKeeps
<1>2. ToolProgress(x, e) = Publish(p, v)
  BY DEF ToolProgress
<1> HIDE DEF o
<1>3. /\ Ready(p, e, known) /\ Extends(o, p) /\ p.promoted
      /\ ~o.promoted => p.working
  BY <1>1, PromoteKeeps
<1>4. o.promoted => p = o
  BY DEF PromoteToTask
<1>5. p.working
  BY <1>1, <1>3, <1>4
<1> HIDE DEF p
<1>6. x \in Execution /\ o \in Execution /\ p \in Execution /\ RunOk(p) /\ ~p.final
  BY <1>1, <1>3 DEF Ready, Good
<1>7. /\ v \in Event /\ v.by = e /\ v.kind = "artifact-update" /\ ~v.final
  <2>1. <<"tool", e>> \in ArtifactIds
    BY DEF ArtifactIds
  <2> QED BY <2>1, ArtifactEvent
<1>8. Publish(p, v).final = p.final /\ Publish(p, v).promoted = p.promoted
      /\ Publish(p, v).working = p.working
  BY <1>6 DEF Publish, Execution
<1> HIDE DEF v
<1>9. Frame(p, p) /\ p.stages <= p.events /\ (p.paused => p.working)
  BY <1>6, ExtendsSelf DEF Extends, RunOk
<1>10. Good(Publish(p, v), e, known) /\ Extends(p, Publish(p, v))
  BY <1>3, <1>6, <1>7, <1>9, PublishKeeps
<1>11. Extends(x, p)
  BY <1>1, <1>3, <1>6, ExtendsTrans
<1>12. Extends(x, Publish(p, v))
  BY <1>6, <1>10, <1>11, ExtendsTrans DEF Good
<1>13. ~Publish(p, v).final /\ Publish(p, v).promoted /\ Publish(p, v).working
  BY <1>3, <1>5, <1>6, <1>8
<1> QED BY <1>2, <1>10, <1>12, <1>13 DEF Ready

LEMMA PauseKeeps ==
  ASSUME NEW e \in Sends, NEW known \in BOOLEAN, NEW x, Ready(x, e, known),
         x.events < MaxEvents
  PROVE  LET y == PublishInputRequired(ToolProgress(x, e), e) IN
         Ready(y, e, known) /\ Extends(x, y)
<1> DEFINE p == ToolProgress(x, e)
           y == PublishInputRequired(p, e)
<1>1. Ready(p, e, known) /\ Extends(x, p) /\ p.promoted /\ p.working
  BY ToolKeeps
<1> HIDE DEF p
<1>2. Ready(y, e, known) /\ Extends(p, y)
  BY <1>1, InputRequiredKeeps
<1> HIDE DEF y
<1>3. Extends(x, y)
  BY <1>1, <1>2, ExtendsTrans DEF Ready, Good
<1> QED BY <1>2, <1>3 DEF y, p

LEMMA ErrorKeeps ==
  ASSUME NEW e \in Sends, NEW known \in BOOLEAN, NEW x, Ready(x, e, known),
         x.events < MaxEvents
  PROVE  LET y == PromoteToTask([Observed(x, e) EXCEPT !.error = TRUE], e) IN
         Ready(y, e, known) /\ Extends(x, y)
<1> DEFINE o == Observed(x, e)
           z == [o EXCEPT !.error = TRUE]
           y == PromoteToTask(z, e)
<1>1. Ready(o, e, known) /\ Extends(x, o)
  BY ObservedKeeps
<1> HIDE DEF o
<1>2. x \in Execution /\ o \in Execution /\ o.stages <= o.events
  BY <1>1 DEF Ready, Good, RunOk
<1>3. /\ z \in Execution /\ z.bus = o.bus /\ z.working = o.working /\ z.final = o.final
      /\ z.promoted = o.promoted /\ z.paused = o.paused /\ z.pc = o.pc /\ z.task = o.task
      /\ z.mode = o.mode /\ z.continues = o.continues /\ z.aborted = o.aborted
      /\ z.reader = o.reader /\ z.answer = o.answer /\ z.stages = o.stages
      /\ z.events = o.events
  <2>1. z \in Execution
    BY <1>2 DEF Execution
  <2>2. /\ z.bus = o.bus /\ z.working = o.working /\ z.final = o.final
        /\ z.promoted = o.promoted /\ z.paused = o.paused /\ z.pc = o.pc /\ z.task = o.task
        /\ z.mode = o.mode /\ z.continues = o.continues /\ z.aborted = o.aborted
        /\ z.reader = o.reader /\ z.answer = o.answer /\ z.stages = o.stages
        /\ z.events = o.events
    BY <1>2 DEF Execution
  <2> QED BY <2>1, <2>2
<1> HIDE DEF z
<1>4. Ready(z, e, known) /\ Extends(o, z)
  BY <1>1, <1>2, <1>3, TouchKeeps
<1>5. Ready(y, e, known) /\ Extends(z, y)
  BY <1>4, PromoteKeeps
<1> HIDE DEF y
<1>6. Extends(x, z)
  BY <1>1, <1>2, <1>3, <1>4, ExtendsTrans
<1>7. Extends(x, y)
  BY <1>2, <1>3, <1>5, <1>6, ExtendsTrans DEF Ready, Good
<1> QED BY <1>5, <1>7 DEF y, z, o

-----------------------------------------------------------------------------
(* The ends of an execution.                                               *)

HasMessage(x) == \E i \in DOMAIN x.bus : x.bus[i].kind = "message"

\* What execute() may leave behind when it returns or throws.
Outcome(x, y, e, known) ==
  /\ y \in Execution /\ BusOk(y, e) /\ Known(y, known) /\ Extends(x, y)
  /\ y.promoted /\ ~x.paused /\ x.aborted # "shutdown" => y.final
  /\ HasMessage(y) => ~y.promoted
  /\ y.final \/ y.paused => y.promoted

LEMMA GoodOutcome ==
  ASSUME NEW e \in Sends, NEW known \in BOOLEAN, NEW x, NEW y,
         Good(y, e, known), Extends(x, y),
         y.promoted /\ ~x.paused /\ x.aborted # "shutdown" => y.final
  PROVE  Outcome(x, y, e, known)
  BY DEF Good, Outcome, RunOk, HasMessage

LEMMA DirectOutcome ==
  ASSUME NEW e \in Sends, NEW known \in BOOLEAN, NEW x, Ready(x, e, known), ~x.promoted
  PROVE  Outcome(x, Publish(x, Direct(e)), e, known)
<1> DEFINE v == Direct(e)
           y == Publish(x, v)
<1>0. x \in Execution /\ x.bus = <<>> /\ ~x.final /\ ~x.paused
  BY DEF Ready, Good, RunOk
<1>1. v \in Event /\ v.by = e /\ v.kind = "message" /\ ~v.final
  BY DirectEvent
<1> HIDE DEF v
<1>2. /\ Append(<<>>, v) \in Seq(Event) /\ Len(Append(<<>>, v)) = 1
      /\ Append(<<>>, v)[1] = v
  <2>1. <<>> \in Seq(Event) /\ Len(<<>>) = 0
    OBVIOUS
  <2> QED BY <1>1, <2>1, AppendProperties
<1>3. /\ y \in Execution /\ y.bus = Append(<<>>, v) /\ y.promoted = x.promoted
      /\ y.working = x.working /\ y.final = x.final /\ y.paused = x.paused
      /\ y.pc = x.pc /\ y.task = x.task /\ y.mode = x.mode /\ y.continues = x.continues
      /\ y.aborted = x.aborted /\ y.reader = x.reader /\ y.answer = x.answer
  <2>1. y \in Execution
    BY <1>0, <1>2 DEF Publish, Execution
  <2>2. /\ y.bus = Append(<<>>, v) /\ y.promoted = x.promoted
        /\ y.working = x.working /\ y.final = x.final /\ y.paused = x.paused
        /\ y.pc = x.pc /\ y.task = x.task /\ y.mode = x.mode /\ y.continues = x.continues
        /\ y.aborted = x.aborted /\ y.reader = x.reader /\ y.answer = x.answer
    BY <1>0, <1>2 DEF Publish, Execution
  <2> QED BY <2>1, <2>2
<1> HIDE DEF y
<1>4. /\ DOMAIN y.bus = 1..1 /\ Len(y.bus) = 1 /\ y.bus[1] = v /\ Len(x.bus) = 0
  BY <1>0, <1>2, <1>3
<1>5. BusOk(y, e)
  BY <1>1, <1>4 DEF BusOk, Tells
<1>6. Level(y) = Level(x) /\ Level(x) \in 0..4
  BY <1>3, LevelInt DEF Level
<1>7. Frame(x, y)
  BY <1>3, <1>6 DEF Frame
<1>8. Extends(x, y)
  <2>1. Marks(x, y)
    BY <1>0, <1>1, <1>3, <1>4 DEF Marks
  <2> QED BY <1>1, <1>4, <1>7, <2>1 DEF Extends
<1>9. ~y.promoted /\ ~y.final /\ ~y.paused
  BY <1>0, <1>3
<1> QED BY <1>3, <1>5, <1>8, <1>9 DEF Outcome, Known, y, v

LEMMA ErrorOutcome ==
  ASSUME NEW e \in Sends, NEW known \in BOOLEAN, NEW x, Ready(x, e, known)
  PROVE  Outcome(x, FinalizeError(x, e), e, known)
<1>0. x \in Execution /\ ~x.final /\ Good(x, e, known)
  BY DEF Ready, Good
<1>1. CASE x.aborted = "shutdown"
  BY <1>0, <1>1, ExtendsSelf, GoodOutcome DEF FinalizeError
<1>2. CASE x.aborted = "cancel"
  <2>1. FinalizeError(x, e) = Finish(x, e, "canceled")
    BY <1>0, <1>2 DEF FinalizeError
  <2>2. LET y == Finish(x, e, "canceled") IN
        Good(y, e, known) /\ Extends(x, y) /\ y.final
    BY <1>2, FinishKeeps
  <2> QED BY <2>1, <2>2, GoodOutcome
<1>3. CASE x.aborted = "no"
  <2>1. FinalizeError(x, e) = Finish(x, e, "failed")
    BY <1>0, <1>3 DEF FinalizeError
  <2>2. LET y == Finish(x, e, "failed") IN
        Good(y, e, known) /\ Extends(x, y) /\ y.final
    BY <1>3, FinishKeeps
  <2> QED BY <2>1, <2>2, GoodOutcome
<1> QED BY <1>0, <1>1, <1>2, <1>3 DEF Execution

\* What was rejected tells of nothing else.
LEMMA RejectedOutcome ==
  ASSUME NEW e \in Sends, NEW known \in BOOLEAN, NEW x, NEW y, Outcome(x, y, e, known)
  PROVE  Outcome(x, [y EXCEPT !.rejected = TRUE], e, known)
<1> DEFINE z == [y EXCEPT !.rejected = TRUE]
<1>0. y \in Execution
  BY DEF Outcome
<1>1. /\ z \in Execution /\ z.bus = y.bus /\ z.working = y.working /\ z.final = y.final
      /\ z.promoted = y.promoted /\ z.paused = y.paused /\ z.pc = y.pc /\ z.task = y.task
      /\ z.mode = y.mode /\ z.continues = y.continues /\ z.aborted = y.aborted
      /\ z.reader = y.reader /\ z.answer = y.answer
  <2>1. z \in Execution
    BY <1>0 DEF Execution
  <2>2. /\ z.bus = y.bus /\ z.working = y.working /\ z.final = y.final
        /\ z.promoted = y.promoted /\ z.paused = y.paused /\ z.pc = y.pc /\ z.task = y.task
        /\ z.mode = y.mode /\ z.continues = y.continues /\ z.aborted = y.aborted
        /\ z.reader = y.reader /\ z.answer = y.answer
    BY <1>0 DEF Execution
  <2> QED BY <2>1, <2>2
<1> HIDE DEF z
<1>2. Level(z) = Level(y)
  BY <1>1 DEF Level
<1>3. Extends(x, z)
  BY <1>1, <1>2 DEF Outcome, Extends, Frame, Marks
<1>4. BusOk(z, e) /\ Known(z, known)
  BY <1>1 DEF Outcome, BusOk, Tells, Known
<1>5. Outcome(x, z, e, known)
  BY <1>1, <1>3, <1>4 DEF Outcome, HasMessage
<1> QED BY <1>5 DEF z

\* The end of a run whose content was refused.
LEMMA RefusalOutcome ==
  ASSUME NEW e \in Sends, NEW known \in BOOLEAN, NEW x, Ready(x, e, known)
  PROVE  Outcome(x, [FinalizeError(PromoteToTask(x, e), e) EXCEPT !.rejected = TRUE], e, known)
<1> DEFINE p == PromoteToTask(x, e)
           y == FinalizeError(p, e)
<1>0. x \in Execution
  BY DEF Ready, Good
<1>1. Ready(p, e, known) /\ Extends(x, p) /\ p.promoted /\ p.paused = x.paused
  BY PromoteKeeps
<1> HIDE DEF p
<1>2. Outcome(p, y, e, known)
  BY <1>1, ErrorOutcome
<1> HIDE DEF y
<1>3. Extends(x, y)
  BY <1>0, <1>1, <1>2, ExtendsTrans DEF Outcome, Ready, Good
<1>4. p.aborted = x.aborted
  BY <1>1 DEF Extends, Frame
<1>5. Outcome(x, y, e, known)
  BY <1>1, <1>2, <1>3, <1>4 DEF Outcome
<1> QED BY <1>5, RejectedOutcome DEF y, p

LEMMA SuccessOutcome ==
  ASSUME NEW e \in Sends, NEW known \in BOOLEAN, NEW x, Ready(x, e, known)
  PROVE  Outcome(x, FinalizeSuccess(x, e), e, known)
<1>0. x \in Execution /\ ~x.final /\ Good(x, e, known)
  BY DEF Ready, Good
<1>1. CASE x.aborted = "shutdown"
  <2>1. FinalizeSuccess(x, e) = x
    BY <1>0, <1>1 DEF FinalizeSuccess
  <2> QED BY <1>0, <1>1, <2>1, ExtendsSelf, GoodOutcome
<1>2. CASE x.aborted = "cancel"
  <2>1. FinalizeSuccess(x, e) = Finish(x, e, "canceled")
    BY <1>0, <1>2 DEF FinalizeSuccess
  <2>2. LET y == Finish(x, e, "canceled") IN
        Good(y, e, known) /\ Extends(x, y) /\ y.final
    BY <1>2, FinishKeeps
  <2> QED BY <2>1, <2>2, GoodOutcome
<1>3. CASE x.aborted = "no" /\ x.error
  <2>1. FinalizeSuccess(x, e) = Finish(x, e, "failed")
    BY <1>0, <1>3 DEF FinalizeSuccess
  <2>2. LET y == Finish(x, e, "failed") IN
        Good(y, e, known) /\ Extends(x, y) /\ y.final
    BY <1>3, FinishKeeps
  <2> QED BY <2>1, <2>2, GoodOutcome
<1>4. CASE x.aborted = "no" /\ ~x.error /\ x.paused
  <2>1. FinalizeSuccess(x, e) = x
    BY <1>0, <1>4 DEF FinalizeSuccess
  <2> QED BY <1>0, <1>4, <2>1, ExtendsSelf, GoodOutcome
<1>5. CASE x.aborted = "no" /\ ~x.error /\ ~x.paused
  <2>0. FinalizeSuccess(x, e) =
          IF CanReturnDirectMessage(x) /\ x.content # "blank"
            THEN IF Refused(x) THEN [x EXCEPT !.rejected = TRUE]
                               ELSE Publish(x, Direct(e))
            ELSE IF Refused(x)
                   THEN [FinalizeError(PromoteToTask(x, e), e) EXCEPT !.rejected = TRUE]
                   ELSE Finish(x, e, "completed")
    BY <1>0, <1>5 DEF FinalizeSuccess
  <2>1. CASE CanReturnDirectMessage(x) /\ x.content # "blank" /\ Refused(x)
    <3>1. ~x.promoted
      BY <2>1 DEF CanReturnDirectMessage
    <3>2. Outcome(x, x, e, known)
      BY <1>0, <3>1, ExtendsSelf, GoodOutcome
    <3> QED BY <2>0, <2>1, <3>2, RejectedOutcome
  <2>2. CASE CanReturnDirectMessage(x) /\ x.content # "blank" /\ ~Refused(x)
    <3>1. ~x.promoted
      BY <2>2 DEF CanReturnDirectMessage
    <3> QED BY <2>0, <2>2, <3>1, DirectOutcome
  <2>3. CASE ~(CanReturnDirectMessage(x) /\ x.content # "blank") /\ Refused(x)
    <3>1. FinalizeSuccess(x, e) =
            [FinalizeError(PromoteToTask(x, e), e) EXCEPT !.rejected = TRUE]
      BY <2>0, <2>3
    <3> QED BY <3>1, RefusalOutcome
  <2>4. CASE ~(CanReturnDirectMessage(x) /\ x.content # "blank") /\ ~Refused(x)
    <3>1. FinalizeSuccess(x, e) = Finish(x, e, "completed")
      BY <2>0, <2>4
    <3>2. LET y == Finish(x, e, "completed") IN
          Good(y, e, known) /\ Extends(x, y) /\ y.final
      BY <1>5, FinishKeeps
    <3> QED BY <3>1, <3>2, GoodOutcome
  <2> QED BY <2>1, <2>2, <2>3, <2>4
<1> QED BY <1>0, <1>1, <1>2, <1>3, <1>4, <1>5 DEF Execution

-----------------------------------------------------------------------------
(* A step of the coordinator of e, from exec[e] to y.                      *)

KnownTask(t) == tasks[t] # None

LEMMA ExecTyped ==
  ASSUME IInv, NEW e \in Sends
  PROVE  /\ exec[e] \in Execution /\ exec[e].task \in Tasks /\ ExecOk(e)
         /\ DOMAIN exec = Sends
  BY DEF IInv, TypeOK, Execution, Tasks

\* An execution that is prepared or runs, with the state its end begins with.
LEMMA RunningIsReady ==
  ASSUME IInv, NEW e \in Sends, exec[e].pc \in {"preparing", "running"},
         NEW pc \in {"running", "ended"}
  PROVE  LET z == [exec[e] EXCEPT !.pc = pc] IN
         /\ Ready(z, e, KnownTask(exec[e].task)) /\ Level(z) = Level(exec[e])
         /\ z.task = exec[e].task /\ z.mode = exec[e].mode /\ z.answer = exec[e].answer
         /\ z.continues = exec[e].continues /\ z.aborted = exec[e].aborted
         /\ z.reader = exec[e].reader /\ z.promoted = exec[e].promoted
         /\ z.paused = exec[e].paused /\ z.final = exec[e].final /\ z.bus = exec[e].bus
         /\ z.pc = pc /\ z.events = exec[e].events
         /\ ~exec[e].final /\ RunOk(exec[e]) /\ exec[e].reader \in {"none", "reading"}
         /\ Known(exec[e], KnownTask(exec[e].task))
<1> DEFINE x == exec[e]
           z == [x EXCEPT !.pc = pc]
           k == KnownTask(x.task)
<1>0. /\ x \in Execution /\ BusOk(x, e) /\ RunOk(x) /\ ~x.final
      /\ x.reader \in {"none", "reading"} /\ Known(x, k)
  BY ExecTyped DEF ExecOk, Over, KnownTask
<1>1. /\ z \in Execution /\ z.bus = x.bus /\ z.working = x.working /\ z.final = x.final
      /\ z.promoted = x.promoted /\ z.paused = x.paused /\ z.pc = pc /\ z.task = x.task
      /\ z.mode = x.mode /\ z.continues = x.continues /\ z.aborted = x.aborted
      /\ z.reader = x.reader /\ z.answer = x.answer /\ z.stages = x.stages
      /\ z.events = x.events
  BY <1>0 DEF Execution
<1>2. k \in BOOLEAN
  BY DEF KnownTask
<1>3. Ready(x, e, k) /\ x.stages <= x.events
  BY <1>0 DEF Ready, Good, RunOk
<1> HIDE DEF x, z, k
<1>4. Ready(z, e, k)
  BY <1>0, <1>1, <1>2, <1>3, TouchKeeps
<1>5. Level(z) = Level(x)
  BY <1>1 DEF Level
<1> QED BY <1>0, <1>1, <1>4, <1>5 DEF x, z, k

\* What its registry and its log keep of a step.
StepOf(e, y) ==
  LET z == [exec[e] EXCEPT !.pc = y.pc] IN
  /\ y \in Execution /\ BusOk(y, e) /\ Known(y, KnownTask(exec[e].task))
  /\ Extends(z, y)
  /\ \/ y.pc = "running" /\ RunOk(y) /\ ~y.final
     \/ y.pc = "ended" /\ Outcome(z, y, e, KnownTask(exec[e].task))

LEMMA ReleasedFields ==
  ASSUME NEW y \in Execution
  PROVE  LET r == Released(y) IN
         /\ r \in Execution /\ r.bus = y.bus /\ r.final = y.final /\ r.promoted = y.promoted
         /\ r.paused = y.paused /\ r.pc = y.pc /\ r.task = y.task /\ r.mode = y.mode
         /\ r.continues = y.continues /\ r.aborted = y.aborted /\ r.reader = y.reader
         /\ r.answer = y.answer /\ r.rejected = y.rejected
         /\ y.pc # "ended" => r = y
<1>1. CASE y.pc = "ended"
  <2>1. {} \in SUBSET ArtifactIds /\ 0 \in 0..MaxEvents
    BY LifecycleAssumption
  <2>2. Released(y) = [y EXCEPT !.base = {}, !.ran = FALSE, !.working = FALSE,
                                !.error = FALSE, !.stages = 0, !.content = "blank",
                                !.events = 0, !.responseMode = "blocking"]
    BY <1>1 DEF Released
  <2>3. Released(y) \in Execution
    <3> DEFINE y1 == [y EXCEPT !.base = {}, !.ran = FALSE]
               y2 == [y1 EXCEPT !.working = FALSE, !.error = FALSE]
               y3 == [y2 EXCEPT !.stages = 0, !.content = "blank"]
               y4 == [y3 EXCEPT !.events = 0, !.responseMode = "blocking"]
    <3>1. y1 \in Execution
      BY <2>1 DEF Execution
    <3>2. Released(y) = y4
      BY <2>2
    <3> HIDE DEF y1
    <3>3. y2 \in Execution
      BY <3>1, FlagUpdate
    <3> HIDE DEF y2
    <3>4. y3 \in Execution
      BY <2>1, <3>3, StageUpdate
    <3> HIDE DEF y3
    <3>5. y4 \in Execution
      BY <2>1, <3>4 DEF Execution
    <3> QED BY <3>2, <3>5
  <2>4. LET r == Released(y) IN
        /\ r.bus = y.bus /\ r.final = y.final /\ r.promoted = y.promoted
        /\ r.paused = y.paused /\ r.pc = y.pc /\ r.task = y.task /\ r.mode = y.mode
        /\ r.continues = y.continues /\ r.aborted = y.aborted /\ r.reader = y.reader
        /\ r.answer = y.answer /\ r.rejected = y.rejected
    BY <2>2 DEF Execution
  <2> QED BY <1>1, <2>3, <2>4
<1>2. CASE y.pc # "ended"
  BY <1>2 DEF Released
<1> QED BY <1>1, <1>2

\* The facts of a step that the parts of the invariant are kept by.
LEMMA StepFacts ==
  ASSUME IInv, NEW e \in Sends, exec[e].pc \in {"preparing", "running"},
         NEW y, StepOf(e, y)
  PROVE  LET x == exec[e]
             r == Released(y)
         IN
         /\ r \in Execution /\ BusOk(r, e) /\ Known(r, KnownTask(x.task))
         /\ r.task = x.task /\ r.mode = x.mode /\ r.continues = x.continues
         /\ r.aborted = x.aborted /\ r.reader = x.reader /\ r.answer = x.answer
         /\ r.rejected = y.rejected /\ r.pc = y.pc /\ r.final = y.final
         /\ r.promoted = y.promoted /\ r.paused = y.paused
         /\ x.promoted => r.promoted
         /\ ~x.final /\ RunOk(x) /\ x.reader \in {"none", "reading"}
         /\ r.pc \in {"running", "ended"}
         /\ r.pc = "running" => RunOk(r) /\ ~r.final
         /\ r.pc = "running" => Level(x) <= Level(r)
         /\ r.pc = "ended" =>
              /\ HasMessage(r) => ~r.promoted
              /\ r.promoted /\ ~x.paused /\ x.aborted # "shutdown" => r.final
         /\ r.final \/ r.paused => r.promoted
         /\ Len(x.bus) <= Len(r.bus) /\ Len(x.bus) \in Nat
         /\ DOMAIN r.bus = 1..Len(r.bus) /\ DOMAIN x.bus = 1..Len(x.bus)
         /\ \A i \in DOMAIN r.bus :
              IF i <= Len(x.bus) THEN r.bus[i] = x.bus[i]
              ELSE r.bus[i].kind = "status-update" => Level(x) < Rank(r.bus[i].state)
<1> DEFINE x == exec[e]
           z == [x EXCEPT !.pc = y.pc]
           r == Released(y)
           k == KnownTask(x.task)
<1>1. /\ y \in Execution /\ BusOk(y, e) /\ Known(y, k) /\ Extends(z, y)
      /\ y.pc \in {"running", "ended"}
      /\ y.pc = "running" => RunOk(y) /\ ~y.final
      /\ y.pc = "ended" => Outcome(z, y, e, k)
  BY DEF StepOf
<1>2. /\ Level(z) = Level(x) /\ z.task = x.task /\ z.mode = x.mode /\ z.answer = x.answer
      /\ z.continues = x.continues /\ z.aborted = x.aborted
      /\ z.reader = x.reader /\ z.promoted = x.promoted
      /\ z.paused = x.paused /\ z.bus = x.bus
      /\ ~x.final /\ RunOk(x) /\ x.reader \in {"none", "reading"}
  BY <1>1, RunningIsReady
<1>3. /\ r \in Execution /\ r.bus = y.bus /\ r.final = y.final /\ r.promoted = y.promoted
      /\ r.paused = y.paused /\ r.pc = y.pc /\ r.task = y.task /\ r.mode = y.mode
      /\ r.continues = y.continues /\ r.aborted = y.aborted /\ r.reader = y.reader
      /\ r.answer = y.answer /\ r.rejected = y.rejected
      /\ y.pc # "ended" => r = y
  BY <1>1, ReleasedFields
<1>4. x \in Execution
  BY ExecTyped
<1> HIDE DEF x, z, r, k
<1>5. /\ Len(x.bus) \in Nat /\ DOMAIN x.bus = 1..Len(x.bus) /\ DOMAIN r.bus = 1..Len(r.bus)
  BY <1>3, <1>4 DEF Execution
<1>6. BusOk(r, e) /\ Known(r, k)
  BY <1>1, <1>3 DEF BusOk, Tells, Known
<1>7. /\ r.task = x.task /\ r.mode = x.mode /\ r.continues = x.continues
      /\ r.aborted = x.aborted /\ r.reader = x.reader /\ r.answer = x.answer
      /\ x.promoted => r.promoted
      /\ r.pc = "running" => Level(x) <= Level(r)
  BY <1>1, <1>2, <1>3 DEF Extends, Frame
<1>8. /\ Len(x.bus) <= Len(r.bus)
      /\ \A i \in DOMAIN r.bus :
           IF i <= Len(x.bus) THEN r.bus[i] = x.bus[i]
           ELSE r.bus[i].kind = "status-update" => Level(x) < Rank(r.bus[i].state)
  BY <1>1, <1>2, <1>3 DEF Extends
<1>9. r.pc = "running" => RunOk(r) /\ ~r.final
  BY <1>1, <1>3
<1>10. r.pc = "ended" =>
         /\ HasMessage(r) => ~r.promoted
         /\ r.promoted /\ ~x.paused /\ x.aborted # "shutdown" => r.final
         /\ r.final \/ r.paused => r.promoted
  BY <1>1, <1>2, <1>3 DEF Outcome, HasMessage
<1>11. r.final \/ r.paused => r.promoted
  BY <1>1, <1>3, <1>9, <1>10 DEF RunOk
<1> QED BY <1>1, <1>2, <1>3, <1>5, <1>6, <1>7, <1>8, <1>9, <1>10, <1>11 DEF x, r, k

Coordinated(e, y) ==
  /\ exec' = [exec EXCEPT ![e] = Released(y)]
  /\ registry' = [registry EXCEPT ![exec[e].task] =
                    IF Leaves(exec[e], y) THEN None
                    ELSE IF y.promoted /\ ~exec[e].promoted THEN e
                    ELSE @]
  /\ modes' = modes \/ modes' = [modes EXCEPT ![MessageOf[e]] = None]

\* A step of the coordinator, with what it does to the registry, keeps it all.
LEMMA CoordinateKeeps ==
  ASSUME IInv, NEW e \in Sends, exec[e].pc \in {"preparing", "running"},
         NEW y, StepOf(e, y), Coordinated(e, y),
         UNCHANGED <<tasks, cancel, watcher, reply, server>>
  PROVE  IInv'
<1> DEFINE x == exec[e]
           r == Released(y)
           t0 == x.task
           n == Len(x.bus)
<1>1. /\ r \in Execution /\ BusOk(r, e) /\ Known(r, KnownTask(t0))
      /\ r.task = t0 /\ r.mode = x.mode /\ r.continues = x.continues
      /\ r.aborted = x.aborted /\ r.reader = x.reader /\ r.answer = x.answer
      /\ r.pc = y.pc /\ r.final = y.final /\ r.promoted = y.promoted
      /\ r.paused = y.paused
      /\ x.promoted => r.promoted
      /\ ~x.final /\ RunOk(x) /\ x.reader \in {"none", "reading"}
      /\ r.pc \in {"running", "ended"}
      /\ r.pc = "running" => RunOk(r) /\ ~r.final
      /\ r.pc = "running" => Level(x) <= Level(r)
      /\ r.pc = "ended" =>
           /\ HasMessage(r) => ~r.promoted
           /\ r.promoted /\ ~x.paused /\ x.aborted # "shutdown" => r.final
      /\ r.final \/ r.paused => r.promoted
      /\ n <= Len(r.bus) /\ n \in Nat
      /\ DOMAIN r.bus = 1..Len(r.bus) /\ DOMAIN x.bus = 1..n
      /\ \A i \in DOMAIN r.bus :
           IF i <= n THEN r.bus[i] = x.bus[i]
           ELSE r.bus[i].kind = "status-update" => Level(x) < Rank(r.bus[i].state)
  BY StepFacts
<1>2. x \in Execution /\ t0 \in Tasks /\ ExecOk(e) /\ DOMAIN exec = Sends
  BY ExecTyped
<1>3. /\ exec' = [exec EXCEPT ![e] = r]
      /\ registry' = [registry EXCEPT ![t0] =
           IF (r.final /\ ~x.final) \/ (r.paused /\ ~x.paused) THEN None
           ELSE IF r.promoted /\ ~x.promoted THEN e
           ELSE @]
      /\ modes' = modes \/ modes' = [modes EXCEPT ![MessageOf[e]] = None]
  BY <1>1 DEF Coordinated, Leaves
<1> HIDE DEF r
<1>4. exec'[e] = r /\ \A f \in Sends \ {e} : exec'[f] = exec[f]
  BY <1>2, <1>3
<1>5. TypeOK'
  <2>1. exec' \in [Sends -> Execution]
    BY <1>1, <1>3 DEF IInv, TypeOK
  <2>2. registry' \in [Tasks -> Sends \union {None}]
    BY <1>2, <1>3 DEF IInv, TypeOK, Tasks
  <2>3. modes' \in [{MessageOf[f] : f \in Sends} -> Modes \union {None}]
    BY <1>3 DEF IInv, TypeOK
  <2> QED BY <2>1, <2>2, <2>3 DEF IInv, TypeOK
<1>6. ASSUME NEW f \in Sends PROVE ExecOk(f)'
  <2>1. CASE f # e
    <3>1. ExecOk(f) /\ exec'[f] = exec[f]
      BY <1>4, <2>1 DEF IInv
    <3> QED BY <3>1 DEF ExecOk
  <2>2. CASE f = e
    <3>1. /\ x.aborted # "no" => x.promoted
          /\ x.reader # "failed" /\ x.answer # "message"
          /\ t0 # e => tasks[t0] # None /\ r.continues
      BY <1>1, <1>2 DEF ExecOk, Over
    <3>2. r.pc = "running" => ~HasMessage(r)
      BY <1>1, SMTT(30) DEF RunOk, HasMessage
    <3> QED BY <1>1, <1>4, <2>2, <3>1, <3>2 DEF ExecOk, Over, HasMessage, KnownTask
  <2> QED BY <2>1, <2>2
<1>7. ASSUME NEW t \in Tasks, tasks'[t] # None PROVE LogOk(t)'
  <2> DEFINE log == tasks[t].log
  <2>1. LogOk(t) /\ tasks'[t] = tasks[t]
    BY <1>7 DEF IInv
  <2>2. exec'[t].promoted
    BY <1>1, <1>4, <2>1 DEF LogOk, Tasks
  <2>3. ASSUME NEW i \in DOMAIN log, log[i].by = e
        PROVE  /\ r.task = t /\ Tells(log[i], r) /\ log[i].kind # "message"
               /\ ~Over(r) => Ranked(log[i], r)
               /\ \A j \in DOMAIN r.bus : Before(log[i], r.bus[j])
    <3>1. /\ t0 = t /\ Tells(log[i], x) /\ log[i].kind # "message"
          /\ Ranked(log[i], x)
          /\ \A j \in DOMAIN x.bus : Before(log[i], x.bus[j])
      BY <1>2, <2>1, <2>3 DEF LogOk, EntryOk, Over
    <3>2. ~log[i].final
      BY <1>1, <3>1 DEF Tells
    <3>3. log[i] \in Event
      BY <1>7, <2>1 DEF IInv, TypeOK, CommittedTask, Tasks
    <3>4. /\ Level(x) \in 0..4 /\ Level(r) \in 0..4 /\ Rank(log[i].state) \in 0..4
          /\ \A j \in DOMAIN r.bus : Rank(r.bus[j].state) \in 0..4
      <4>1. \A j \in DOMAIN r.bus : r.bus[j] \in Event
        BY <1>1 DEF Execution
      <4> QED BY <3>3, <4>1, LevelInt, RankInt DEF Event
    <3>5. Tells(log[i], r)
      BY <1>1, <3>1, <3>2 DEF Tells
    <3>6. ~Over(r) => Ranked(log[i], r)
      BY <1>1, <3>1, <3>4 DEF Ranked, Over
    <3>7. ASSUME NEW j \in DOMAIN r.bus PROVE Before(log[i], r.bus[j])
      <4>1. CASE j <= n
        BY <1>1, <3>1, <4>1
      <4>2. CASE ~(j <= n)
        <5>1. r.bus[j].kind = "status-update" => Level(x) < Rank(r.bus[j].state)
          BY <1>1, <4>2
        <5> QED BY <3>1, <3>2, <3>4, <5>1 DEF Before, Ranked
      <4> QED BY <4>1, <4>2
    <3> QED BY <1>1, <3>1, <3>5, <3>6, <3>7
  <2>4. \A i \in DOMAIN log : log[i].by \in Sends =>
          LET w == exec'[log[i].by] IN
          /\ w.task = t /\ Tells(log[i], w) /\ log[i].kind # "message"
          /\ ~Over(w) => Ranked(log[i], w)
          /\ \A j \in DOMAIN w.bus : Before(log[i], w.bus[j])
    BY <1>4, <2>1, <2>3 DEF LogOk, EntryOk
  <2> QED BY <2>1, <2>2, <2>4 DEF LogOk, EntryOk
<1>8. RegistryOk'
  <2> SUFFICES ASSUME NEW t \in Tasks, registry'[t] # None
               PROVE  /\ Live(registry[t])' /\ exec'[registry'[t]].task = t
                      /\ exec'[registry'[t]].aborted # "shutdown"
    BY DEF RegistryOk, TaskOf
  <2>1. CASE registry'[t] = registry[t]
    <3>1. /\ registry[t] \in Sends /\ Live(registry[t]) /\ exec[registry[t]].task = t
          /\ exec[registry[t]].aborted # "shutdown"
      BY <2>1 DEF IInv, RegistryOk, TaskOf, TypeOK
    <3>2. CASE registry[t] # e
      BY <1>4, <2>1, <3>1, <3>2 DEF Live
    <3>3. CASE registry[t] = e
      <4>1. x.promoted /\ ~x.paused /\ t = t0 /\ x.aborted # "shutdown"
        BY <3>1, <3>3 DEF Live
      <4>2. DOMAIN registry = Tasks /\ e # None
        BY RequestAssumption DEF IInv, TypeOK
      <4>3. ~r.final /\ ~r.paused
        BY <1>1, <1>3, <2>1, <3>3, <4>1, <4>2
      <4>4. r.pc = "running" /\ r.promoted
        BY <1>1, <4>1, <4>3
      <4> QED BY <1>1, <1>4, <2>1, <3>3, <4>1, <4>3, <4>4 DEF Live
    <3> QED BY <3>2, <3>3
  <2>2. CASE registry'[t] # registry[t]
    <3>1. /\ t = t0 /\ registry'[t] = e /\ r.promoted /\ ~x.promoted
          /\ ~((r.final /\ ~x.final) \/ (r.paused /\ ~x.paused))
      BY <1>3, <2>2 DEF IInv, TypeOK
    <3>2. ~x.paused /\ x.aborted = "no"
      BY <1>1, <1>2, <3>1 DEF RunOk, ExecOk
    <3>3. ~r.final /\ ~r.paused
      BY <1>1, <3>1, <3>2
    <3> QED BY <1>1, <1>4, <3>1, <3>2, <3>3 DEF Live
  <2> QED BY <2>1, <2>2
<1>9. RequestsOk'
  BY DEF IInv, RequestsOk, Wrote
<1>10. LiveIsRegistered'
  <2> SUFFICES ASSUME NEW f \in Sends, Live(f)', exec'[f].aborted # "shutdown",
                      ~Contended(f)', server' # "closed"
               PROVE  registry'[exec'[f].task] = f
    BY DEF LiveIsRegistered, TaskOf
  <2>1. CASE f # e
    <3>1. exec'[f] = exec[f] /\ Live(f) /\ exec[f].task \in Tasks
      BY <1>4, <2>1, ExecTyped DEF Live
    <3>2. ~Contended(f)
      <4>1. \A g \in Sends \ {f} :
              exec[g].task = exec[f].task /\ exec[g].promoted
                => exec'[g].task = exec'[f].task /\ exec'[g].promoted
        BY <1>1, <1>4, <3>1
      <4>2. \A c \in Cancels : Wrote(c, exec[f].task) => Wrote(c, exec[f].task)'
        BY <3>1 DEF Wrote
      <4> QED BY <3>1, <4>1, <4>2 DEF Contended, TaskOf
    <3>3. registry[exec[f].task] = f
      BY <3>1, <3>2 DEF IInv, LiveIsRegistered, TaskOf
    <3>4. CASE exec[f].task = t0 /\ r.promoted
      <4>1. e \in Sends \ {f} /\ exec'[e].task = exec'[f].task /\ exec'[e].promoted
        BY <1>1, <1>4, <2>1, <3>1, <3>4
      <4> QED BY <4>1 DEF Contended, TaskOf
    <3>5. CASE ~(exec[f].task = t0 /\ r.promoted)
      BY <1>1, <1>3, <3>1, <3>3, <3>5 DEF IInv, TypeOK
    <3> QED BY <3>4, <3>5
  <2>2. CASE f = e
    <3>1. r.pc = "running" /\ r.promoted /\ ~r.final /\ ~r.paused
      BY <1>4, <2>2 DEF Live
    <3>2. CASE ~x.promoted
      BY <1>1, <1>2, <1>3, <1>4, <2>2, <3>1, <3>2 DEF IInv, TypeOK
    <3>3. CASE x.promoted
      <4>1. x.pc = "running"
        BY <1>2, <3>3 DEF ExecOk
      <4>2. ~x.paused
        <5>1. Level(x) <= Level(r) /\ Level(r) <= 2
          BY <1>1, <3>1 DEF Level
        <5> QED BY <1>1, <5>1 DEF Level
      <4>3. Live(e)
        BY <1>1, <3>3, <4>1, <4>2 DEF Live
      <4>4. ~Contended(e)
        <5>1. \A g \in Sends \ {e} :
                exec[g].task = exec[e].task /\ exec[g].promoted
                  => exec'[g].task = exec'[e].task /\ exec'[g].promoted
          BY <1>1, <1>4
        <5>2. \A c \in Cancels : Wrote(c, exec[e].task) => Wrote(c, exec[e].task)'
          BY <1>1, <1>4 DEF Wrote
        <5> QED BY <2>2, <5>1, <5>2 DEF Contended, TaskOf
      <4>5. registry[t0] = e
        BY <1>1, <1>4, <2>2, <4>3, <4>4 DEF IInv, LiveIsRegistered, TaskOf
      <4>6. ~((r.final /\ ~x.final) \/ (r.paused /\ ~x.paused))
        BY <3>1
      <4>7. DOMAIN registry = Tasks
        BY DEF IInv, TypeOK
      <4> QED BY <1>1, <1>2, <1>3, <1>4, <2>2, <4>5, <4>6, <4>7
    <3> QED BY <3>2, <3>3
  <2> QED BY <2>1, <2>2
<1> QED BY <1>5, <1>6, <1>7, <1>8, <1>9, <1>10 DEF IInv

LEMMA ReadyStep ==
  ASSUME NEW e \in Sends, NEW y,
         Ready(y, e, KnownTask(exec[e].task)),
         Extends([exec[e] EXCEPT !.pc = "running"], y), exec[e] \in Execution
  PROVE  StepOf(e, y)
<1>1. y.pc = "running"
  <2>1. [exec[e] EXCEPT !.pc = "running"].pc = "running"
    BY DEF Execution
  <2> QED BY <2>1 DEF Extends, Frame
<1> QED BY <1>1 DEF StepOf, Ready, Good

LEMMA EndStep ==
  ASSUME NEW e \in Sends, NEW y, exec[e] \in Execution,
         Outcome([exec[e] EXCEPT !.pc = "ended"], y, e, KnownTask(exec[e].task))
  PROVE  StepOf(e, y)
<1>1. y.pc = "ended"
  <2>1. [exec[e] EXCEPT !.pc = "ended"].pc = "ended"
    BY DEF Execution
  <2> QED BY <2>1 DEF Outcome, Extends, Frame
<1> QED BY <1>1 DEF StepOf, Outcome

\* The coordinator of e takes a step.
Coordinates(e) ==
  /\ exec[e].pc \in {"preparing", "running"}
  /\ \E y \in Execution : StepOf(e, y) /\ Coordinated(e, y)
  /\ UNCHANGED <<tasks, cancel, watcher, reply, server>>

LEMMA CoordinatorMoves ==
  ASSUME IInv, NEW e \in Sends,
         PrepareForExecution(e) \/ PreparationFails(e) \/ AgentEvent(e) \/ DispatchEnds(e)
  PROVE  Coordinates(e)
<1> DEFINE x == exec[e]
           k == KnownTask(x.task)
           z == [x EXCEPT !.pc = "running"]
           w == [x EXCEPT !.pc = "ended"]
<1>1. x \in Execution /\ k \in BOOLEAN
  BY ExecTyped DEF KnownTask
<1>2. x.pc \in {"preparing", "running"} => Ready(z, e, k) /\ Ready(w, e, k) /\ z.events = x.events
  BY RunningIsReady
<1>3. x.pc = "running" => z = x
  BY <1>1 DEF Execution
<1>4. x.pc = "preparing" => ~x.promoted /\ ~w.promoted
  BY <1>1, ExecTyped DEF ExecOk, Execution
<1>5. ASSUME NEW y, x.pc \in {"preparing", "running"}, Ready(y, e, k), Extends(z, y),
             Coordinated(e, y),
             UNCHANGED <<tasks, cancel, watcher, reply, server>>
      PROVE  Coordinates(e)
  BY <1>1, <1>5, ReadyStep DEF Coordinates, StepOf
<1>6. ASSUME NEW y, x.pc \in {"preparing", "running"}, Outcome(w, y, e, k),
             Coordinated(e, y),
             UNCHANGED <<tasks, cancel, watcher, reply, server>>
      PROVE  Coordinates(e)
  BY <1>1, <1>6, EndStep DEF Coordinates, StepOf
<1>7. CASE PrepareForExecution(e)
  <2>1. PICK y \in {z, PromoteToTask(z, e)} : Continue(e, y)
    BY <1>7 DEF PrepareForExecution
  <2>2. x.pc = "preparing" /\ UNCHANGED <<tasks, cancel, watcher, reply, server>>
    BY <1>7 DEF PrepareForExecution
  <2>3. Ready(y, e, k) /\ Extends(z, y)
    <3>1. z \in Execution /\ Ready(z, e, k)
      BY <1>2, <2>2 DEF Ready, Good
    <3> HIDE DEF z
    <3> QED BY <1>1, <2>1, <3>1, PromoteKeeps, ExtendsSelf
  <2> HIDE DEF k, z, w
  <2>9. Coordinated(e, y)
    BY <2>1 DEF Continue, Coordinate, Coordinated
  <2> QED BY <1>5, <2>1, <2>2, <2>3, <2>9
<1>8. CASE PreparationFails(e)
  <2>1. PICK y \in {FinalizeError(w, e), Publish(w, Direct(e))} : Continue(e, y)
    BY <1>8 DEF PreparationFails
  <2>2. x.pc = "preparing" /\ UNCHANGED <<tasks, cancel, watcher, reply, server>>
    BY <1>8 DEF PreparationFails
  <2>3. Outcome(w, y, e, k)
    BY <1>1, <1>2, <1>4, <2>1, <2>2, ErrorOutcome, DirectOutcome
  <2> HIDE DEF k, z, w
  <2>9. Coordinated(e, y)
    BY <2>1 DEF Continue, Coordinate, Coordinated
  <2> QED BY <1>6, <2>1, <2>2, <2>3, <2>9
<1>9. CASE RunStart(e)
  <2>1. /\ x.pc = "running" /\ x.events < MaxEvents /\ Continue(e, Observed(x, e))
        /\ UNCHANGED <<tasks, cancel, watcher, reply, server>>
    BY <1>9 DEF RunStart, Emits, Running
  <2>2. Ready(x, e, k)
    BY <1>2, <1>3, <2>1
  <2>3. Ready(Observed(x, e), e, k) /\ Extends(x, Observed(x, e))
    BY <1>1, <2>1, <2>2, ObservedKeeps
  <2> HIDE DEF k, z, w
  <2>9. Coordinated(e, Observed(x, e))
    BY <2>1 DEF Continue, Coordinate, Coordinated
  <2> QED BY <1>3, <1>5, <2>1, <2>3, <2>9
<1>10. CASE ToolEvent(e)
  <2>1. /\ x.pc = "running" /\ x.events < MaxEvents /\ Continue(e, ToolProgress(x, e))
        /\ UNCHANGED <<tasks, cancel, watcher, reply, server>>
    BY <1>10 DEF ToolEvent, Emits, Running
  <2>2. Ready(x, e, k)
    BY <1>2, <1>3, <2>1
  <2>3. Ready(ToolProgress(x, e), e, k) /\ Extends(x, ToolProgress(x, e))
    BY <1>1, <2>1, <2>2, ToolKeeps
  <2> HIDE DEF k, z, w
  <2>9. Coordinated(e, ToolProgress(x, e))
    BY <2>1 DEF Continue, Coordinate, Coordinated
  <2> QED BY <1>3, <1>5, <2>1, <2>3, <2>9
<1>11. CASE ApprovalPause(e)
  <2>1. /\ x.pc = "running" /\ x.events < MaxEvents
        /\ Continue(e, PublishInputRequired(ToolProgress(x, e), e))
        /\ UNCHANGED <<tasks, cancel, watcher, reply, server>>
    BY <1>11 DEF ApprovalPause, Emits, Running
  <2>2. Ready(x, e, k)
    BY <1>2, <1>3, <2>1
  <2>3. /\ Ready(PublishInputRequired(ToolProgress(x, e), e), e, k)
        /\ Extends(x, PublishInputRequired(ToolProgress(x, e), e))
    BY <1>1, <2>1, <2>2, PauseKeeps
  <2> HIDE DEF k, z, w
  <2>9. Coordinated(e, PublishInputRequired(ToolProgress(x, e), e))
    BY <2>1 DEF Continue, Coordinate, Coordinated
  <2> QED BY <1>3, <1>5, <2>1, <2>3, <2>9
<1>12. CASE LifecycleError(e)
  <2> DEFINE y == PromoteToTask([Observed(x, e) EXCEPT !.error = TRUE], e)
  <2>1. /\ x.pc = "running" /\ x.events < MaxEvents /\ Continue(e, y)
        /\ UNCHANGED <<tasks, cancel, watcher, reply, server>>
    BY <1>12 DEF LifecycleError, Emits, Running
  <2>2. Ready(x, e, k)
    BY <1>2, <1>3, <2>1
  <2>3. Ready(y, e, k) /\ Extends(x, y)
    BY <1>1, <2>1, <2>2, ErrorKeeps
  <2> HIDE DEF k, z, w, y
  <2>9. Coordinated(e, y)
    BY <2>1 DEF Continue, Coordinate, Coordinated
  <2> QED BY <1>3, <1>5, <2>1, <2>3, <2>9
<1>13. CASE \E content \in Contents, observed \in BOOLEAN :
               AssistantMessage(e, content, observed)
  <2>1. PICK content \in Contents, observed \in BOOLEAN :
          AssistantMessage(e, content, observed)
    BY <1>13
  <2> DEFINE y == Spoken(x, e, content, observed)
  <2>2. /\ x.pc = "running" /\ x.events < MaxEvents /\ Continue(e, y)
        /\ UNCHANGED <<tasks, cancel, watcher, reply, server>>
    BY <2>1 DEF AssistantMessage, Spoken, Counted, Emits, Running
  <2>3. Ready(x, e, k)
    BY <1>2, <1>3, <2>2
  <2>4. Ready(y, e, k) /\ Extends(x, y)
    BY <1>1, <2>2, <2>3, MessageKeeps
  <2> HIDE DEF k, z, w, y
  <2>9. Coordinated(e, y)
    BY <2>2 DEF Continue, Coordinate, Coordinated
  <2> QED BY <1>3, <1>5, <2>2, <2>4, <2>9
<1>14. CASE DispatchReturns(e)
  <2> DEFINE y == FinalizeSuccess(w, e)
  <2>1. /\ x.pc = "running" /\ Coordinate(e, y, ~y.rejected)
        /\ UNCHANGED <<tasks, cancel, watcher, reply, server>>
    BY <1>14 DEF DispatchReturns, Running
  <2>2. Outcome(w, y, e, k)
    BY <1>1, <1>2, <2>1, SuccessOutcome
  <2> HIDE DEF k, z, w, y
  <2>9. Coordinated(e, y)
    BY <2>1 DEF Coordinate, Coordinated
  <2> QED BY <1>6, <2>1, <2>2, <2>9
<1>15. CASE DispatchThrows(e)
  <2> DEFINE y1 == FinalizeError(w, e)
             y2 == [FinalizeError(PromoteToTask(w, e), e) EXCEPT !.rejected = TRUE]
  <2>1. x.pc = "running" /\ UNCHANGED <<tasks, cancel, watcher, reply, server>>
    BY <1>15 DEF DispatchThrows, Running
  <2>2. Ready(w, e, k)
    BY <1>2, <2>1
  <2>3. Outcome(w, y1, e, k)
    BY <1>1, <2>2, ErrorOutcome
  <2>4. Outcome(w, y2, e, k)
    BY <1>1, <2>2, RefusalOutcome
  <2>5. PICK y \in {y1, y2} : Coordinate(e, y, TRUE)
    <3>1. Coordinate(e, y1, TRUE) \/ Coordinate(e, y2, TRUE)
      BY <1>15, Zenon DEF DispatchThrows
    <3> QED BY <3>1, Zenon
  <2> HIDE DEF k, z, w, y1, y2
  <2>6. Outcome(w, y, e, k)
    BY <2>3, <2>4, <2>5
  <2>9. Coordinated(e, y)
    BY <2>5 DEF Coordinate, Coordinated
  <2> QED BY <1>6, <2>1, <2>6, <2>9
<1> QED BY <1>7, <1>8, <1>9, <1>10, <1>11, <1>12, <1>13, <1>14, <1>15
        DEF AgentEvent, DispatchEnds

LEMMA CoordinatorStep ==
  ASSUME IInv, NEW e \in Sends,
         PrepareForExecution(e) \/ PreparationFails(e) \/ AgentEvent(e) \/ DispatchEnds(e)
  PROVE  IInv'
  BY CoordinatorMoves, CoordinateKeeps DEF Coordinates

-----------------------------------------------------------------------------
(* Steps that leave the executions, or what they published, alone.         *)

\* What the log and the bus tell of an execution is still true of it.
Same(x, r) ==
  /\ r.promoted = x.promoted /\ r.final = x.final
  /\ x.promoted => r.task = x.task
  /\ x.final => r.aborted = x.aborted
  /\ Over(x) => Over(r)
  /\ ~Over(r) => Level(r) = Level(x)
  /\ \A j \in DOMAIN r.bus : \E i \in DOMAIN x.bus : r.bus[j] = x.bus[i]

HasWritten == {"cleaning", "reading", "answered", "lost"}

\* A committed event stays true of executions that are still the same to it.
LEMMA EntryKept ==
  ASSUME NEW X, NEW Y, NEW C, NEW D, NEW v, NEW t, EntryOk(v, t, X, C),
         \A f \in Sends : Same(X[f], Y[f]),
         \A c \in Cancels : C[c].pc \in HasWritten => D[c].pc \in HasWritten
  PROVE  EntryOk(v, t, Y, D)
<1>1. ASSUME v.by \in Sends
      PROVE  LET w == Y[v.by] IN
             /\ w.task = t /\ Tells(v, w) /\ v.kind # "message"
             /\ ~Over(w) => Ranked(v, w)
             /\ \A j \in DOMAIN w.bus : Before(v, w.bus[j])
  <2> DEFINE x == X[v.by]
             w == Y[v.by]
  <2>1. /\ x.task = t /\ Tells(v, x) /\ v.kind # "message"
        /\ ~Over(x) => Ranked(v, x)
        /\ \A j \in DOMAIN x.bus : Before(v, x.bus[j])
        /\ Same(x, w)
    BY <1>1 DEF EntryOk
  <2> HIDE DEF x, w
  <2>2. x.promoted
    BY <2>1 DEF Tells
  <2>3. w.task = t /\ Tells(v, w) /\ (~Over(w) => Ranked(v, w))
    BY <2>1, <2>2 DEF Tells, Same, Ranked
  <2>4. \A j \in DOMAIN w.bus : Before(v, w.bus[j])
    BY <2>1 DEF Same
  <2> QED BY <2>1, <2>3, <2>4 DEF w
<1> QED BY <1>1 DEF EntryOk, HasWritten

LEMMA LogsKept ==
  ASSUME IInv, NEW t \in Tasks, tasks'[t] = tasks[t], tasks'[t] # None,
         \A f \in Sends : Same(exec[f], exec'[f]),
         \A c \in Cancels : cancel[c].pc \in HasWritten => cancel'[c].pc \in HasWritten
  PROVE  LogOk(t)'
<1> DEFINE log == tasks[t].log
<1>1. LogOk(t)
  BY DEF IInv
<1>2. exec'[t].promoted
  BY <1>1 DEF LogOk, Tasks, Same
<1>3. \A i \in DOMAIN log : EntryOk(log[i], t, exec', cancel')
  <2>1. \A i \in DOMAIN log : EntryOk(log[i], t, exec, cancel)
    BY <1>1 DEF LogOk
  <2> HIDE DEF log
  <2> QED BY <2>1, EntryKept
<1>4. \A i, j \in DOMAIN log : i < j /\ log[i].by = log[j].by => Before(log[i], log[j])
  BY <1>1 DEF LogOk
<1> QED BY <1>2, <1>3, <1>4 DEF LogOk

\* A log with one event more.
LEMMA LogGrows ==
  ASSUME IInv, NEW t \in Tasks, tasks[t] # None, tasks'[t] # None,
         \A f \in Sends : Same(exec[f], exec'[f]),
         \A c \in Cancels : cancel[c].pc \in HasWritten => cancel'[c].pc \in HasWritten,
         NEW v \in Event, tasks'[t].log = Append(tasks[t].log, v),
         EntryOk(v, t, exec', cancel'),
         \A i \in DOMAIN tasks[t].log :
           tasks[t].log[i].by = v.by => Before(tasks[t].log[i], v)
  PROVE  LogOk(t)'
<1> DEFINE log == tasks[t].log
           new == tasks'[t].log
           n == Len(log)
<1>1. LogOk(t) /\ log \in Seq(Event)
  BY DEF IInv, TypeOK, CommittedTask
<1>2. exec'[t].promoted
  BY <1>1 DEF LogOk, Tasks, Same
<1>3. \A i \in DOMAIN log : EntryOk(log[i], t, exec', cancel')
  <2>1. \A i \in DOMAIN log : EntryOk(log[i], t, exec, cancel)
    BY <1>1 DEF LogOk
  <2> HIDE DEF log
  <2> QED BY <2>1, EntryKept
<1>4. /\ n \in Nat /\ DOMAIN log = 1..n /\ DOMAIN new = 1..(n + 1)
      /\ new[n + 1] = v /\ \A i \in 1..n : new[i] = log[i]
  BY <1>1, AppendProperties
<1>5. /\ \A i, j \in DOMAIN log : i < j /\ log[i].by = log[j].by => Before(log[i], log[j])
      /\ \A i \in DOMAIN log : log[i].by = v.by => Before(log[i], v)
  BY <1>1 DEF LogOk
<1> HIDE DEF log, new, n
<1>6. \A i \in DOMAIN new : EntryOk(new[i], t, exec', cancel')
  BY <1>3, <1>4
<1>7. \A i, j \in DOMAIN new : i < j /\ new[i].by = new[j].by => Before(new[i], new[j])
  BY <1>4, <1>5
<1> QED BY <1>2, <1>6, <1>7 DEF LogOk, new

\* Contention only ever begins.
LEMMA LiveKept ==
  ASSUME IInv, \A f \in Sends : exec[f].promoted =>
                 exec'[f].promoted /\ exec'[f].task = exec[f].task,
         \A c \in Cancels, t \in Tasks : Wrote(c, t) => Wrote(c, t)',
         NEW f \in Sends, Live(f), exec[f].aborted # "shutdown",
         ~Contended(f)', server # "closed"
  PROVE  registry[exec[f].task] = f
<1>1. exec[f].task \in Tasks /\ exec'[f].task = exec[f].task
  BY ExecTyped DEF Live
<1>2. ~Contended(f)
  <2>1. \A g \in Sends \ {f} :
          exec[g].task = exec[f].task /\ exec[g].promoted
            => exec'[g].task = exec'[f].task /\ exec'[g].promoted
    BY <1>1
  <2>2. \A c \in Cancels : Wrote(c, exec[f].task) => Wrote(c, exec[f].task)'
    <3> SUFFICES ASSUME NEW c \in Cancels, Wrote(c, exec[f].task)
                 PROVE  Wrote(c, exec[f].task)'
      OBVIOUS
    <3>1. PICK t \in Tasks : t = exec[f].task
      BY <1>1
    <3>2. Wrote(c, t)'
      BY <3>1
    <3> QED BY <1>1, <3>1, <3>2
  <2> QED BY <2>1, <2>2 DEF Contended, TaskOf
<1> QED BY <1>2 DEF IInv, LiveIsRegistered, TaskOf

\* The execution x of the send e becomes r: neither what it published nor what
\* its coordinator remembers changes, and it does not go back.
Quietly(x, r, e) ==
  /\ r.bus = x.bus /\ r.promoted = x.promoted /\ r.final = x.final
  /\ r.paused = x.paused /\ r.working = x.working /\ r.aborted = x.aborted
  /\ r.stages = x.stages /\ r.events = x.events
  /\ r.pc = "running" <=> x.pc = "running"
  /\ Over(x) => Over(r)
  /\ r.task = x.task \/ ~x.promoted
  /\ r.pc \in {"running", "ended"} \/ ~x.promoted
  /\ ~Over(r) => r.reader \in {"none", "reading"}
  /\ r.reader # "failed"
  /\ r.reader \in {"none", "reading"} => x.reader \in {"none", "reading"}
  /\ r.answer = "message" => x.answer = "message"
  /\ (r.pc # "idle" /\ r.task # e) \/ r.pc \in {"loading", "persisting"}
       => tasks[r.task] # None
  /\ r.task # e => r.continues

\* A request moves on and publishes nothing.
LEMMA QuietStep ==
  ASSUME IInv, NEW e \in Sends, NEW r \in Execution, exec' = [exec EXCEPT ![e] = r],
         Quietly(exec[e], r, e),
         modes' \in [{MessageOf[f] : f \in Sends} -> Modes \union {None}],
         UNCHANGED <<tasks, registry, cancel, watcher, reply, server>>
  PROVE  IInv'
<1> USE DEF Quietly
<1> DEFINE x == exec[e]
<1>1. exec'[e] = r /\ \A f \in Sends \ {e} : exec'[f] = exec[f]
  BY ExecTyped
<1>2. TypeOK'
  BY DEF IInv, TypeOK
<1>3. Level(r) = Level(x)
  BY DEF Level
<1>4. x \in Execution /\ ExecOk(e)
  BY ExecTyped
<1>5. ASSUME NEW f \in Sends PROVE ExecOk(f)'
  <2>1. CASE f # e
    <3>1. ExecOk(f) /\ exec'[f] = exec[f]
      BY <1>1, <2>1 DEF IInv
    <3> QED BY <3>1 DEF ExecOk
  <2>2. CASE f = e
    <3>1. BusOk(r, e)
      BY <1>4 DEF ExecOk, BusOk, Tells
    <3>2. ~Over(r) => RunOk(r) /\ ~r.final
      BY <1>3, <1>4 DEF ExecOk, RunOk, Ranked
    <3>3. r.pc \notin {"running", "ended", "lost"} => ~r.promoted
      OBVIOUS
    <3>4. r.aborted # "no" => r.promoted
      BY <1>4 DEF ExecOk
    <3>5. r.reader \in {"none", "reading"} => Known(r, tasks[r.task] # None)
      BY <1>4 DEF ExecOk, Known
    <3>6. r.answer = "message" \/ (\E i \in DOMAIN r.bus : r.bus[i].kind = "message")
            => ~r.promoted /\ Over(r)
      BY <1>4 DEF ExecOk
    <3> QED BY <1>1, <2>2, <3>1, <3>2, <3>3, <3>4, <3>5, <3>6 DEF ExecOk
  <2> QED BY <2>1, <2>2
<1>6. ASSUME NEW t \in Tasks, tasks'[t] # None PROVE LogOk(t)'
  <2>1. \A f \in Sends : Same(exec[f], exec'[f])
    BY <1>1, <1>3 DEF Same
  <2> QED BY <1>6, <2>1, LogsKept
<1>7. RegistryOk'
  <2> SUFFICES ASSUME NEW t \in Tasks, registry[t] # None
               PROVE  /\ Live(registry[t])' /\ exec'[registry[t]].task = t
                      /\ exec'[registry[t]].aborted # "shutdown"
    BY DEF RegistryOk, TaskOf
  <2>1. /\ registry[t] \in Sends /\ Live(registry[t]) /\ exec[registry[t]].task = t
        /\ exec[registry[t]].aborted # "shutdown"
    BY DEF IInv, RegistryOk, TaskOf, TypeOK
  <2> QED BY <1>1, <2>1 DEF Live
<1>8. RequestsOk'
  BY DEF IInv, RequestsOk, Wrote
<1>9. LiveIsRegistered'
  <2> SUFFICES ASSUME NEW f \in Sends, Live(f)', exec'[f].aborted # "shutdown",
                      ~Contended(f)', server # "closed"
               PROVE  registry[exec'[f].task] = f
    BY DEF LiveIsRegistered, TaskOf
  <2>1. Live(f) /\ exec[f].aborted # "shutdown" /\ exec'[f].task = exec[f].task
    BY <1>1 DEF Live
  <2>2. \A g \in Sends : exec[g].promoted => exec'[g].promoted /\ exec'[g].task = exec[g].task
    BY <1>1
  <2>3. \A c \in Cancels, t \in Tasks : Wrote(c, t) => Wrote(c, t)'
    BY DEF Wrote
  <2> QED BY <2>1, <2>2, <2>3, LiveKept
<1> QED BY <1>2, <1>5, <1>6, <1>7, <1>8, <1>9 DEF IInv

\* The mode table keeps its shape.
LEMMA ModesTyped ==
  ASSUME IInv, NEW e \in Sends, NEW mode \in Modes \union {None}
  PROVE  /\ modes \in [{MessageOf[f] : f \in Sends} -> Modes \union {None}]
         /\ [modes EXCEPT ![MessageOf[e]] = mode]
              \in [{MessageOf[f] : f \in Sends} -> Modes \union {None}]
  BY DEF IInv, TypeOK

LEMMA SendKeeps ==
  ASSUME IInv, NEW e \in Sends, NEW mode \in Modes, NEW t \in Targets[e], Send(e, mode, t)
  PROVE  IInv'
<1> DEFINE x == exec[e]
           r == [x EXCEPT !.pc = IF t = e THEN "starting" ELSE "loading",
                          !.mode = mode, !.task = t, !.continues = (t # e)]
<1>1. x \in Execution /\ ExecOk(e) /\ x.pc = "idle"
  BY ExecTyped DEF Send
<1>2. t \in Tasks
  BY LifecycleAssumption DEF Tasks
<1>3. exec' = [exec EXCEPT ![e] = r]
  BY <1>1 DEF Send, Execution
<1>4. /\ r \in Execution /\ r.bus = x.bus /\ r.promoted = x.promoted /\ r.final = x.final
      /\ r.paused = x.paused /\ r.working = x.working /\ r.aborted = x.aborted
      /\ r.stages = x.stages /\ r.events = x.events /\ r.reader = x.reader
      /\ r.answer = x.answer /\ r.task = t /\ r.pc \in {"starting", "loading"}
  <2> HIDE DEF x
  <2> DEFINE pcOf == IF t = e THEN "starting" ELSE "loading"
             isOther == t # e
             x1 == [x EXCEPT !.pc = pcOf, !.mode = mode]
             x2 == [x1 EXCEPT !.task = t, !.continues = isOther]
  <2>1. pcOf \in {"starting", "loading"} /\ isOther \in BOOLEAN
    OBVIOUS
  <2>2. r = x2
    OBVIOUS
  <2> HIDE DEF r, pcOf, isOther
  <2>3. /\ x1 \in Execution /\ x1.bus = x.bus /\ x1.promoted = x.promoted
        /\ x1.final = x.final /\ x1.paused = x.paused /\ x1.working = x.working
        /\ x1.aborted = x.aborted /\ x1.stages = x.stages /\ x1.events = x.events
        /\ x1.reader = x.reader /\ x1.answer = x.answer /\ x1.pc = pcOf
    BY <1>1, <2>1 DEF Execution
  <2> HIDE DEF x1
  <2>4. x2 \in Execution
    BY <1>2, <2>1, <2>3 DEF Execution
  <2>5. /\ x2.bus = x1.bus /\ x2.promoted = x1.promoted
        /\ x2.final = x1.final /\ x2.paused = x1.paused /\ x2.working = x1.working
        /\ x2.aborted = x1.aborted /\ x2.stages = x1.stages /\ x2.events = x1.events
        /\ x2.reader = x1.reader /\ x2.answer = x1.answer /\ x2.pc = x1.pc
        /\ x2.task = t
    BY <2>3 DEF Execution
  <2> HIDE DEF x2
  <2> QED BY <2>1, <2>2, <2>3, <2>4, <2>5
<1>9. r.pc = "loading" => t # e
  <2>1. r.pc = IF t = e THEN "starting" ELSE "loading"
    BY <1>1, Zenon DEF Execution
  <2> QED BY <2>1
<1>10. t # e => r.continues
  <2>1. t # e => (t # e) = TRUE
    OBVIOUS
  <2> HIDE DEF x
  <2>2. r.continues = (t # e)
    BY <1>1, Zenon DEF Execution
  <2> QED BY <2>1, <2>2
<1>5. ~x.promoted /\ ~Over(x) /\ x.reader \in {"none", "reading"} /\ x.pc # "running"
  BY <1>1 DEF ExecOk, Over
<1>6. modes' \in [{MessageOf[f] : f \in Sends} -> Modes \union {None}]
  BY ModesTyped DEF Send
<1>7. t # e => tasks[t] # None
  BY DEF Send
<1>8. UNCHANGED <<tasks, registry, cancel, watcher, reply, server>>
  BY DEF Send
<1> HIDE DEF r
<1>11. Quietly(x, r, e)
  BY <1>4, <1>5, <1>7, <1>9, <1>10 DEF Quietly, Over
<1> QED BY <1>3, <1>4, <1>6, <1>8, <1>11, QuietStep

\* A load with a given answer to whether the follow-up fits.
LoadFits(e, fits) ==
  LET refused == ~fits \/ tasks[TaskOf(e)].state \in Terminal IN
  /\ exec' = [exec EXCEPT ![e].pc = IF refused THEN "ended" ELSE "persisting",
                          ![e].reader = IF refused THEN "answered" ELSE @,
                          ![e].answer = IF refused THEN "refused" ELSE @]
  /\ modes' = IF refused THEN [modes EXCEPT ![MessageOf[e]] = None] ELSE modes

\* A follow-up is refused, or goes on on a task that has not ended.
LEMMA LoadMoves ==
  ASSUME IInv, NEW e \in Sends, LoadForFollowUp(e)
  PROVE  \/ exec' = [exec EXCEPT ![e] = [exec[e] EXCEPT !.pc = "ended",
                                           !.reader = "answered", !.answer = "refused"]]
         \/ /\ exec' = [exec EXCEPT ![e] = [exec[e] EXCEPT !.pc = "persisting"]]
            /\ tasks[exec[e].task].state \notin Terminal
<1> DEFINE x == exec[e]
           a == [x EXCEPT !.pc = "ended", !.reader = "answered", !.answer = "refused"]
           b == [x EXCEPT !.pc = "persisting"]
<1>0. PICK fits \in BOOLEAN : LoadFits(e, fits)
  BY DEF LoadForFollowUp, LoadFits
<1>1. x \in Execution
  BY ExecTyped
<1> DEFINE refused == ~fits \/ tasks[x.task].state \in Terminal
<1>2. CASE refused
  <2>1. exec' = [exec EXCEPT ![e] = a]
    BY <1>0, <1>1, <1>2 DEF LoadFits, TaskOf, Execution
  <2> QED BY <2>1
<1>3. CASE ~refused
  <2>1. exec' = [exec EXCEPT ![e] = b]
    BY <1>0, <1>1, <1>3 DEF LoadFits, TaskOf, Execution
  <2> QED BY <1>3, <2>1
<1> QED BY <1>2, <1>3

LEMMA LoadKeeps ==
  ASSUME IInv, NEW e \in Sends, LoadForFollowUp(e)
  PROVE  IInv'
<1> DEFINE x == exec[e]
           a == [x EXCEPT !.pc = "ended", !.reader = "answered", !.answer = "refused"]
           b == [x EXCEPT !.pc = "persisting"]
<1>1. x \in Execution /\ ExecOk(e) /\ x.pc = "loading"
  BY ExecTyped DEF LoadForFollowUp
<1>2. PICK r \in {a, b} : exec' = [exec EXCEPT ![e] = r]
  BY LoadMoves
<1>3. /\ r \in Execution /\ r.bus = x.bus /\ r.promoted = x.promoted /\ r.final = x.final
      /\ r.paused = x.paused /\ r.working = x.working /\ r.aborted = x.aborted
      /\ r.stages = x.stages /\ r.events = x.events /\ r.continues = x.continues
      /\ r.task = x.task /\ r.pc \in {"ended", "persisting"}
      /\ r.reader = x.reader \/ r.reader = "answered"
      /\ r.pc = "persisting" => r.reader = x.reader
      /\ r.answer = x.answer \/ r.answer = "refused"
  <2>1. CASE r = a
    BY <1>1, <2>1 DEF Execution, Answers
  <2>2. CASE r = b
    BY <1>1, <2>2 DEF Execution
  <2> QED BY <2>1, <2>2
<1>4. /\ ~x.promoted /\ ~Over(x) /\ x.reader \in {"none", "reading"}
      /\ tasks[x.task] # None /\ (x.task # e => x.continues)
  BY <1>1 DEF ExecOk, Over
<1>5. modes' \in [{MessageOf[f] : f \in Sends} -> Modes \union {None}]
  BY ModesTyped DEF LoadForFollowUp
<1>6. UNCHANGED <<tasks, registry, cancel, watcher, reply, server>>
  BY DEF LoadForFollowUp
<1> HIDE DEF a, b
<1>7. Quietly(x, r, e)
  BY <1>1, <1>3, <1>4 DEF Quietly, Over
<1> QED BY <1>2, <1>3, <1>5, <1>6, <1>7, QuietStep

LEMMA PersistKeeps ==
  ASSUME IInv, NEW e \in Sends, PersistIncomingMessage(e)
  PROVE  IInv'
<1> DEFINE x == exec[e]
           r == [x EXCEPT !.pc = "starting", !.base = tasks[x.task].artifacts]
<1>1. x \in Execution /\ ExecOk(e) /\ x.pc = "persisting" /\ x.task \in Tasks
  BY ExecTyped DEF PersistIncomingMessage
<1>2. exec' = [exec EXCEPT ![e] = r]
  BY <1>1 DEF PersistIncomingMessage, TaskOf, Execution
<1>3. ASSUME r.base \in SUBSET ArtifactIds
      PROVE  IInv'
  <2>1. /\ r \in Execution /\ r.bus = x.bus /\ r.promoted = x.promoted /\ r.final = x.final
        /\ r.paused = x.paused /\ r.working = x.working /\ r.aborted = x.aborted
        /\ r.stages = x.stages /\ r.events = x.events /\ r.task = x.task
        /\ r.pc = "starting" /\ r.reader = x.reader /\ r.answer = x.answer
        /\ r.continues = x.continues
    <3>1. r \in Execution
      BY <1>1, <1>3 DEF Execution
    <3>2. /\ r.bus = x.bus /\ r.promoted = x.promoted /\ r.final = x.final
          /\ r.paused = x.paused /\ r.working = x.working /\ r.aborted = x.aborted
          /\ r.stages = x.stages /\ r.events = x.events /\ r.task = x.task
          /\ r.pc = "starting" /\ r.reader = x.reader /\ r.answer = x.answer
          /\ r.continues = x.continues
      BY <1>1, <1>3 DEF Execution
    <3> QED BY <3>1, <3>2
  <2>2. /\ ~x.promoted /\ ~Over(x) /\ x.reader \in {"none", "reading"}
        /\ tasks[x.task] # None /\ (x.task # e => x.continues)
    BY <1>1 DEF ExecOk, Over
  <2>3. modes' \in [{MessageOf[f] : f \in Sends} -> Modes \union {None}]
    BY ModesTyped DEF PersistIncomingMessage
  <2>4. UNCHANGED <<tasks, registry, cancel, watcher, reply, server>>
    BY DEF PersistIncomingMessage
  <2> HIDE DEF r
  <2>5. Quietly(x, r, e)
    BY <1>1, <2>1, <2>2 DEF Quietly, Over
  <2> QED BY <1>2, <2>1, <2>3, <2>4, <2>5, QuietStep
<1>4. r.base = tasks[x.task].artifacts
  BY <1>1 DEF Execution
<1>5. tasks[x.task] \in CommittedTask
  BY <1>1 DEF ExecOk, IInv, TypeOK
<1>6. tasks[x.task].artifacts \in SUBSET ArtifactIds
  BY <1>5 DEF CommittedTask
<1> QED BY <1>3, <1>4, <1>6

LEMMA StartKeeps ==
  ASSUME IInv, NEW e \in Sends, Start(e)
  PROVE  IInv'
<1> DEFINE x == exec[e]
           m == modes[MessageOf[e]]
           r == [x EXCEPT !.pc = "preparing", !.reader = "reading",
                          !.responseMode = IF m = None THEN "blocking" ELSE m]
<1>1. x \in Execution /\ ExecOk(e) /\ x.pc = "starting"
  BY ExecTyped DEF Start
<1>2. exec' = [exec EXCEPT ![e] = r]
  BY <1>1 DEF Start, Execution
<1>3. (IF m = None THEN "blocking" ELSE m) \in Modes \union {"blocking"}
  BY DEF IInv, TypeOK
<1>4. /\ r \in Execution /\ r.bus = x.bus /\ r.promoted = x.promoted /\ r.final = x.final
      /\ r.paused = x.paused /\ r.working = x.working /\ r.aborted = x.aborted
      /\ r.stages = x.stages /\ r.events = x.events /\ r.task = x.task
      /\ r.pc = "preparing" /\ r.reader = "reading" /\ r.answer = x.answer
      /\ r.continues = x.continues
  <2>1. r \in Execution
    <3> HIDE DEF x
    <3>1. ASSUME NEW mode \in Modes \union {"blocking"}
          PROVE  [x EXCEPT !.pc = "preparing", !.reader = "reading",
                           !.responseMode = mode] \in Execution
      BY <1>1 DEF Execution
    <3> QED BY <1>3, <3>1
  <2>2. /\ r.bus = x.bus /\ r.promoted = x.promoted /\ r.final = x.final
        /\ r.paused = x.paused /\ r.working = x.working /\ r.aborted = x.aborted
        /\ r.stages = x.stages /\ r.events = x.events /\ r.task = x.task
        /\ r.pc = "preparing" /\ r.reader = "reading" /\ r.answer = x.answer
        /\ r.continues = x.continues
    BY <1>1, <1>3 DEF Execution
  <2> QED BY <2>1, <2>2
<1>5. /\ ~x.promoted /\ ~Over(x) /\ x.reader \in {"none", "reading"}
      /\ x.task # e => tasks[x.task] # None /\ x.continues
  BY <1>1 DEF ExecOk, Over
<1>6. modes' \in [{MessageOf[f] : f \in Sends} -> Modes \union {None}]
  BY DEF Start, IInv, TypeOK
<1>7. UNCHANGED <<tasks, registry, cancel, watcher, reply, server>>
  BY DEF Start
<1> HIDE DEF r
<1>8. Quietly(x, r, e)
  BY <1>1, <1>4, <1>5 DEF Quietly, Over
<1> QED BY <1>2, <1>4, <1>6, <1>7, <1>8, QuietStep

LEMMA DrainKeeps ==
  ASSUME IInv, NEW e \in Sends, Drain(e)
  PROVE  IInv'
<1> DEFINE x == exec[e]
           r == [x EXCEPT !.reader = "drained"]
<1>1. x \in Execution /\ ExecOk(e) /\ x.pc = "ended"
  BY ExecTyped DEF Drain
<1>2. exec' = [exec EXCEPT ![e] = r]
  BY <1>1 DEF Drain, Execution
<1>3. /\ r \in Execution /\ r.bus = x.bus /\ r.promoted = x.promoted /\ r.final = x.final
      /\ r.paused = x.paused /\ r.working = x.working /\ r.aborted = x.aborted
      /\ r.stages = x.stages /\ r.events = x.events /\ r.task = x.task
      /\ r.pc = "ended" /\ r.reader = "drained" /\ r.answer = x.answer
      /\ r.continues = x.continues
  <2>1. r \in Execution
    BY <1>1 DEF Execution
  <2>2. /\ r.bus = x.bus /\ r.promoted = x.promoted /\ r.final = x.final
        /\ r.paused = x.paused /\ r.working = x.working /\ r.aborted = x.aborted
        /\ r.stages = x.stages /\ r.events = x.events /\ r.task = x.task
        /\ r.pc = "ended" /\ r.reader = "drained" /\ r.answer = x.answer
        /\ r.continues = x.continues
    BY <1>1 DEF Execution
  <2> QED BY <2>1, <2>2
<1>4. x.task # e => tasks[x.task] # None /\ x.continues
  BY <1>1 DEF ExecOk
<1>5. modes' \in [{MessageOf[f] : f \in Sends} -> Modes \union {None}]
  BY DEF Drain, IInv, TypeOK
<1>6. UNCHANGED <<tasks, registry, cancel, watcher, reply, server>>
  BY DEF Drain
<1> HIDE DEF r
<1>7. Quietly(x, r, e)
  BY <1>1, <1>3, <1>4 DEF Quietly, Over
<1> QED BY <1>2, <1>3, <1>5, <1>6, <1>7, QuietStep

LEMMA AnswerKeeps ==
  ASSUME IInv, NEW e \in Sends, Answer(e)
  PROVE  IInv'
<1> DEFINE x == exec[e]
           a == IF x.answer # None THEN x.answer
                ELSE IF x.rejected \/ x.reader = "failed" \/ tasks[x.task] = None
                       THEN "error"
                       ELSE tasks[x.task].state
           r == [x EXCEPT !.reader = "answered", !.answer = a]
<1>1. x \in Execution /\ ExecOk(e) /\ x.pc = "ended" /\ x.task \in Tasks
  BY ExecTyped DEF Answer
<1>2. exec' = [exec EXCEPT ![e] = r]
  BY <1>1 DEF Answer, TaskOf, Execution
<1>3. a \in Answers \union {None} /\ (a = "message" => x.answer = "message")
  <2>1. tasks[x.task] # None => tasks[x.task].state \in States
    BY <1>1 DEF IInv, TypeOK, CommittedTask
  <2> QED BY <1>1, <2>1 DEF Execution, Answers, States, Terminal, Quiescent, Active
<1> HIDE DEF a
<1>4. /\ r \in Execution /\ r.bus = x.bus /\ r.promoted = x.promoted /\ r.final = x.final
      /\ r.paused = x.paused /\ r.working = x.working /\ r.aborted = x.aborted
      /\ r.stages = x.stages /\ r.events = x.events /\ r.task = x.task
      /\ r.pc = "ended" /\ r.reader = "answered" /\ r.answer = a
      /\ r.continues = x.continues
  <2>1. r \in Execution
    BY <1>1, <1>3 DEF Execution
  <2>2. /\ r.bus = x.bus /\ r.promoted = x.promoted /\ r.final = x.final
        /\ r.paused = x.paused /\ r.working = x.working /\ r.aborted = x.aborted
        /\ r.stages = x.stages /\ r.events = x.events /\ r.task = x.task
        /\ r.pc = "ended" /\ r.reader = "answered" /\ r.answer = a
        /\ r.continues = x.continues
    BY <1>1, <1>3 DEF Execution
  <2> QED BY <2>1, <2>2
<1>5. x.task # e => tasks[x.task] # None /\ x.continues
  BY <1>1 DEF ExecOk
<1>6. modes' \in [{MessageOf[f] : f \in Sends} -> Modes \union {None}]
  BY ModesTyped DEF Answer
<1>7. UNCHANGED <<tasks, registry, cancel, watcher, reply, server>>
  BY DEF Answer
<1> HIDE DEF r
<1>8. Quietly(x, r, e)
  BY <1>1, <1>3, <1>4, <1>5 DEF Quietly, Over
<1> QED BY <1>2, <1>4, <1>6, <1>7, <1>8, QuietStep

-----------------------------------------------------------------------------
(* Steps that commit an event.                                             *)

LEMMA CommittedIs ==
  ASSUME NEW v \in Event, v.kind # "message", NEW task \in CommittedTask \union {None},
         task = None => v.kind = "task"
  PROVE  /\ Committed(task, v) \in CommittedTask
         /\ v.kind = "task" => Committed(task, v).log = IF task = None THEN <<>> ELSE task.log
         /\ v.kind # "task" => Committed(task, v).log = Append(task.log, v)
         /\ v.kind = "artifact-update" => Committed(task, v).state = task.state
         /\ v.kind = "status-update" => Committed(task, v).state = v.state
<1>1. task # None => task \in CommittedTask /\ task.log \in Seq(Event)
                     /\ Append(task.log, v) \in Seq(Event)
  BY AppendProperties DEF CommittedTask
<1>2. CASE v.kind = "task"
  <2> DEFINE log == IF task = None THEN <<>> ELSE task.log
  <2>1. v.state \in States /\ v.artifacts \in SUBSET ArtifactIds
    BY <1>2 DEF Event
  <2>2. log \in Seq(Event)
    BY <1>1
  <2>3. Committed(task, v) = [state |-> v.state, artifacts |-> v.artifacts, log |-> log]
    BY <1>2 DEF Committed
  <2> HIDE DEF log
  <2>4. Committed(task, v) \in CommittedTask /\ Committed(task, v).log = log
    BY <2>1, <2>2, <2>3 DEF CommittedTask
  <2> QED BY <1>2, <2>4 DEF log
<1>3. CASE v.kind = "status-update"
  <2>1. v.state \in States
    BY <1>3 DEF Event
  <2>2. Committed(task, v) = [task EXCEPT !.state = v.state, !.log = Append(@, v)]
    BY <1>3 DEF Committed
  <2> QED BY <1>1, <1>3, <2>1, <2>2 DEF CommittedTask
<1>4. CASE v.kind = "artifact-update"
  <2>1. v.artifacts \in SUBSET ArtifactIds
    BY <1>4 DEF Event
  <2>2. Committed(task, v) = [task EXCEPT !.artifacts = @ \union v.artifacts,
                                          !.log = Append(@, v)]
    BY <1>4 DEF Committed
  <2>3. task \in CommittedTask
    BY <1>1, <1>4
  <2>4. task.artifacts \union v.artifacts \in SUBSET ArtifactIds
    BY <2>1, <2>3 DEF CommittedTask
  <2> QED BY <1>1, <1>4, <2>2, <2>3, <2>4 DEF CommittedTask
<1> QED BY <1>2, <1>3, <1>4 DEF Event

\* What was committed stays: the tasks, and the events of their logs.
LEMMA LogsStay ==
  ASSUME IInv, NEW t0 \in Tasks, NEW task \in CommittedTask, NEW v \in Event,
         tasks' = [tasks EXCEPT ![t0] = task],
         tasks[t0] # None => \/ task.log = tasks[t0].log
                             \/ task.log = Append(tasks[t0].log, v)
  PROVE  /\ tasks' \in [Tasks -> CommittedTask \union {None}]
         /\ tasks'[t0] = task /\ task # None
         /\ \A t \in Tasks : tasks[t] # None => tasks'[t] # None
         /\ \A c \in Cancels, t \in Tasks : Wrote(c, t) => Wrote(c, t)'
<1>1. /\ tasks \in [Tasks -> CommittedTask \union {None}] /\ task # None
      /\ tasks'[t0] = task
  BY RequestAssumption DEF IInv, TypeOK
<1>2. ASSUME NEW c \in Cancels, NEW t \in Tasks, Wrote(c, t) PROVE Wrote(c, t)'
  <2>1. CASE t # t0
    <3>1. tasks'[t] = tasks[t]
      BY <2>1
    <3> QED BY <1>2, <3>1 DEF Wrote
  <2>2. CASE t = t0
    <3>1. PICK i \in DOMAIN tasks[t0].log : tasks[t0].log[i].by = c
      BY <1>2, <2>2 DEF Wrote
    <3>2. tasks[t0] # None /\ tasks[t0].log \in Seq(Event)
      BY <1>1, <1>2, <2>2 DEF Wrote, CommittedTask
    <3>3. i \in DOMAIN task.log /\ task.log[i] = tasks[t0].log[i]
      <4>1. CASE task.log = tasks[t0].log
        BY <4>1
      <4>2. CASE task.log = Append(tasks[t0].log, v)
        BY <3>2, <4>2, AppendProperties
      <4> QED BY <3>2, <4>1, <4>2
    <3> QED BY <1>1, <2>2, <3>1, <3>3 DEF Wrote
  <2> QED BY <2>1, <2>2
<1>3. \A t \in Tasks : tasks[t] # None => tasks'[t] # None
  BY <1>1
<1> QED BY <1>1, <1>2, <1>3

\* What the handler of a send takes from the bus.
LEMMA NextEvent ==
  ASSUME IInv, NEW e \in Sends, exec[e].reader = "reading", exec[e].bus # <<>>
  PROVE  LET x == exec[e]
             v == x.bus[1]
             rest == Tail(x.bus)
         IN  /\ v = Head(x.bus) /\ v \in Event /\ v.by = e /\ 1 \in DOMAIN x.bus
             /\ rest \in Seq(Event)
             /\ DOMAIN rest = 1..(Len(x.bus) - 1)
             /\ \A j \in DOMAIN rest : j + 1 \in DOMAIN x.bus /\ rest[j] = x.bus[j + 1]
             /\ Tells(v, x)
             /\ \A j \in DOMAIN rest : Before(v, rest[j])
             /\ v.kind \notin {"message", "task"} => tasks[x.task] # None
             /\ v.kind # "message" => x.promoted
             /\ tasks[x.task] = None => x.task = e
             /\ Stops(v) => Over(x)
<1> DEFINE x == exec[e]
           v == x.bus[1]
           rest == Tail(x.bus)
           n == Len(x.bus)
<1>1. x \in Execution /\ ExecOk(e) /\ x.bus \in Seq(Event) /\ x.task \in Tasks
  BY ExecTyped DEF Execution
<1>2. n \in Nat /\ n # 0 /\ DOMAIN x.bus = 1..n /\ \A i \in 1..n : x.bus[i] \in Event
  BY <1>1
<1>3. /\ rest \in Seq(Event) /\ Len(rest) = n - 1 /\ DOMAIN rest = 1..(n - 1)
      /\ \A j \in 1..(n - 1) : rest[j] = x.bus[j + 1]
  BY <1>1, <1>2, HeadTailProperties
<1>4. v = Head(x.bus) /\ v \in Event /\ 1 \in DOMAIN x.bus
  BY <1>1, <1>2
<1> HIDE DEF rest, n
<1>5. BusOk(x, e) /\ Tells(v, x) /\ v.by = e
  BY <1>1, <1>4 DEF ExecOk, BusOk
<1>6. \A j \in DOMAIN rest : j + 1 \in DOMAIN x.bus /\ rest[j] = x.bus[j + 1]
  BY <1>2, <1>3
<1>7. \A j \in DOMAIN rest : Before(v, rest[j])
  <2>1. \A j \in DOMAIN rest : 1 < j + 1
    BY <1>2, <1>3
  <2> QED BY <1>4, <1>5, <1>6, <2>1 DEF BusOk
<1>8. Known(x, tasks[x.task] # None)
  BY <1>1 DEF ExecOk
<1>9. v.kind # "message" => x.promoted
  BY <1>5 DEF Tells
<1>10. v.kind \notin {"message", "task"} => tasks[x.task] # None
  BY <1>8, <1>9 DEF Known
<1>11. x.pc # "idle"
  <2>1. ~Over(x) => x.promoted
    BY <1>1, <1>9, <1>4 DEF ExecOk, RunOk
  <2> QED BY <1>1, <2>1 DEF ExecOk, Over
<1>12. tasks[x.task] = None => x.task = e
  BY <1>1, <1>11 DEF ExecOk
<1>13. Stops(v) => Over(x)
  <2>1. ~Over(x) => v.kind # "message" /\ ~x.final
    BY <1>1, <1>4 DEF ExecOk, RunOk
  <2> QED BY <1>5, <2>1 DEF Stops, Tells
<1> QED BY <1>2, <1>3, <1>4, <1>5, <1>6, <1>7, <1>9, <1>10, <1>12, <1>13 DEF n, rest

LEMMA AnswerTyped ==
  ASSUME NEW e \in Sends, NEW v \in Event, exec[e] \in Execution
  PROVE  /\ FirstResult(e, v) \in Answers \union {None}
         /\ FirstResult(e, v) = "message" => v.kind = "message" \/ exec[e].answer = "message"
<1>1. CASE exec[e].mode = "non_blocking" /\ exec[e].answer = None
  <2>1. CASE v.kind = "message"
    BY <2>1 DEF FirstResult, Answers
  <2>2. CASE v.kind = "task"
    <3>1. v.state \in States /\ FirstResult(e, v) = v.state
      BY <1>1, <2>2 DEF FirstResult, Event
    <3> QED BY <3>1 DEF Answers, States, Terminal, Quiescent, Active
  <2>3. CASE v.kind \notin {"message", "task"}
    <3>1. FirstResult(e, v) = None /\ None # "message"
      BY <1>1, <2>3, RequestAssumption DEF FirstResult, Answers
    <3> QED BY <3>1
  <2> QED BY <2>1, <2>2, <2>3
<1>2. CASE ~(exec[e].mode = "non_blocking" /\ exec[e].answer = None)
  <2>1. FirstResult(e, v) = IF v.kind = "message" THEN "message" ELSE exec[e].answer
    BY <1>2 DEF FirstResult
  <2>2. exec[e].answer \in Answers \union {None}
    BY DEF Execution
  <2> QED BY <2>1, <2>2 DEF Answers
<1> QED BY <1>1, <1>2

\* The handler never meets a task it does not know, and keeps the order.
LEMMA CommitKeeps ==
  ASSUME IInv, NEW e \in Sends, CommitNext(e)
  PROVE  IInv'
<1> DEFINE x == exec[e]
           v == x.bus[1]
           rest == Tail(x.bus)
           t0 == x.task
           task == Committed(tasks[t0], v)
           answer == FirstResult(e, v)
           reader == IF Stops(v) THEN "drained" ELSE "reading"
           r == [x EXCEPT !.bus = rest, !.reader = reader, !.answer = answer]
<1>1. x \in Execution /\ ExecOk(e) /\ x.reader = "reading" /\ x.bus # <<>> /\ t0 \in Tasks
  BY ExecTyped DEF CommitNext, Reading
<1>2. /\ v = Head(x.bus) /\ v \in Event /\ v.by = e /\ 1 \in DOMAIN x.bus
      /\ rest \in Seq(Event)
      /\ \A j \in DOMAIN rest : j + 1 \in DOMAIN x.bus /\ rest[j] = x.bus[j + 1]
      /\ Tells(v, x)
      /\ \A j \in DOMAIN rest : Before(v, rest[j])
      /\ v.kind \notin {"message", "task"} => tasks[t0] # None
      /\ v.kind # "message" => x.promoted
      /\ tasks[t0] = None => t0 = e
      /\ Stops(v) => Over(x)
      /\ DOMAIN rest = 1..(Len(x.bus) - 1)
  BY <1>1, NextEvent
<1>3. /\ answer \in Answers \union {None}
      /\ answer = "message" => v.kind = "message" \/ x.answer = "message"
  BY <1>1, <1>2, AnswerTyped
<1>4. /\ tasks' = IF v.kind = "message" THEN tasks ELSE [tasks EXCEPT ![t0] = task]
      /\ exec' = [exec EXCEPT ![e] = r]
      /\ modes' = modes \/ modes' = [modes EXCEPT ![MessageOf[e]] = None]
      /\ UNCHANGED <<registry, cancel, watcher, reply, server>>
  <2> DEFINE unknown == v.kind \notin {"message", "task"} /\ tasks[t0] = None
  <2>1. ~unknown
    BY <1>2
  <2>2. /\ tasks' = IF v.kind = "message" \/ unknown
                     THEN tasks ELSE [tasks EXCEPT ![t0] = Committed(@, v)]
        /\ exec' = [exec EXCEPT
             ![e].bus = Tail(@),
             ![e].reader = IF unknown THEN "failed"
                           ELSE IF Stops(v) THEN "drained" ELSE @,
             ![e].answer = answer]
        /\ modes' = modes \/ modes' = [modes EXCEPT ![MessageOf[e]] = None]
        /\ UNCHANGED <<registry, cancel, watcher, reply, server>>
    BY <1>2 DEF CommitNext, TaskOf
  <2> HIDE DEF unknown, answer, v
  <2>3. exec' = [exec EXCEPT ![e] = r]
    BY <1>1, <2>1, <2>2 DEF Execution
  <2>4. tasks' = IF v.kind = "message" THEN tasks ELSE [tasks EXCEPT ![t0] = task]
    BY <1>1, <2>1, <2>2 DEF IInv, TypeOK
  <2> QED BY <2>2, <2>3, <2>4
<1>5. /\ r \in Execution /\ r.bus = rest /\ r.promoted = x.promoted /\ r.final = x.final
      /\ r.paused = x.paused /\ r.working = x.working /\ r.aborted = x.aborted
      /\ r.stages = x.stages /\ r.events = x.events /\ r.task = t0 /\ r.pc = x.pc
      /\ r.reader = reader /\ r.answer = answer /\ r.continues = x.continues
  <2>1. reader \in {"drained", "reading"}
    OBVIOUS
  <2>2. rest \in Seq(Event)
    BY <1>2
  <2>3. answer \in Answers \union {None}
    BY <1>3
  <2>4. x \in Execution
    BY <1>1
  <2> HIDE DEF answer, rest, v, reader, x
  <2> QED BY <2>1, <2>2, <2>3, <2>4, ZenonT(30) DEF Execution
<1>6. v.kind # "message" =>
        /\ task \in CommittedTask
        /\ v.kind = "task" => task.log = IF tasks[t0] = None THEN <<>> ELSE tasks[t0].log
        /\ v.kind # "task" => task.log = Append(tasks[t0].log, v)
  <2>1. tasks[t0] \in CommittedTask \union {None}
    BY <1>1 DEF IInv, TypeOK
  <2> HIDE DEF v
  <2> QED BY <1>2, <2>1, CommittedIs, ZenonT(30)
<1>first. \E i \in DOMAIN x.bus : x.bus[i] = v
  BY <1>2
<1> HIDE DEF r, rest, v, task, answer
<1>7. /\ tasks' \in [Tasks -> CommittedTask \union {None}]
      /\ \A t \in Tasks : tasks[t] # None => tasks'[t] # None
      /\ \A c \in Cancels, t \in Tasks : Wrote(c, t) => Wrote(c, t)'
      /\ v.kind # "message" => tasks'[t0] = task /\ tasks'[t0] # None
      /\ \A t \in Tasks \ {t0} : tasks'[t] = tasks[t]
  <2>1. CASE v.kind = "message"
    BY <1>4, <2>1 DEF IInv, TypeOK, Wrote
  <2>2. CASE v.kind # "message"
    <3>1. tasks' = [tasks EXCEPT ![t0] = task]
      BY <1>4, <2>2
    <3>2. tasks[t0] # None => task.log = tasks[t0].log \/ task.log = Append(tasks[t0].log, v)
      BY <1>6, <2>2
    <3> QED BY <1>1, <1>2, <1>6, <2>2, <3>1, <3>2, LogsStay
  <2> QED BY <2>1, <2>2
<1>8. exec'[e] = r /\ \A f \in Sends \ {e} : exec'[f] = exec[f]
  BY <1>4, ExecTyped
<1>9. TypeOK'
  BY <1>4, <1>5, <1>7 DEF IInv, TypeOK
<1>10. Level(r) = Level(x)
  BY <1>5 DEF Level
<1>11. ASSUME NEW f \in Sends PROVE ExecOk(f)'
  <2>1. CASE f # e
    <3>1. ExecOk(f) /\ exec'[f] = exec[f] /\ exec[f].task \in Tasks
      BY <1>8, <2>1, ExecTyped
    <3>2. tasks[exec[f].task] # None => tasks'[exec[f].task] # None
      BY <1>7, <3>1
    <3> QED BY <3>1, <3>2 DEF ExecOk, Known
  <2>2. CASE f = e
    <3>1. BusOk(r, e)
      <4>1. \A j \in DOMAIN rest : rest[j].by = e /\ Tells(rest[j], x)
        BY <1>1, <1>2 DEF ExecOk, BusOk
      <4>2. \A i, j \in DOMAIN rest : i < j => Before(rest[i], rest[j])
        <5>1. \A i, j \in DOMAIN rest : i < j => i + 1 < j + 1
          BY <1>2
        <5> QED BY <1>1, <1>2, <5>1 DEF ExecOk, BusOk
      <4> QED BY <1>5, <4>1, <4>2 DEF BusOk, Tells
    <3>2. ~Over(r) => RunOk(r) /\ ~r.final /\ r.reader \in {"none", "reading"}
      <4>1. ASSUME ~Over(r) PROVE RunOk(r) /\ ~r.final /\ r.reader \in {"none", "reading"}
        <5>1. ~Over(x) /\ RunOk(x) /\ ~x.final
          BY <1>1, <1>5, <4>1 DEF ExecOk, Over
        <5>2. \A j \in DOMAIN rest : Ranked(rest[j], r) /\ rest[j].kind # "message"
          BY <1>2, <1>10, <5>1 DEF RunOk, Ranked
        <5>3. x.promoted
          BY <1>1, <5>1 DEF RunOk
        <5>4. reader = "reading"
          BY <1>2, <5>1
        <5> QED BY <1>5, <5>1, <5>2, <5>3, <5>4 DEF RunOk
      <4> QED BY <4>1
    <3>3. r.pc \notin {"running", "ended", "lost"} => ~r.promoted
      BY <1>1, <1>5 DEF ExecOk
    <3>4. r.aborted # "no" => r.promoted
      BY <1>1, <1>5 DEF ExecOk
    <3>5. Known(r, tasks'[t0] # None)
      <4>1. CASE v.kind = "message"
        <5>1. ~x.promoted
          BY <1>1, <1>2, <4>1 DEF ExecOk
        <5> QED BY <1>5, <5>1 DEF Known
      <4>2. CASE v.kind # "message"
        BY <1>7, <4>2 DEF Known
      <4> QED BY <4>1, <4>2
    <3>6. r.answer = "message" \/ (\E i \in DOMAIN r.bus : r.bus[i].kind = "message")
            => ~r.promoted /\ Over(r)
      <4>1. r.answer = "message" \/ (\E i \in DOMAIN r.bus : r.bus[i].kind = "message")
              => x.answer = "message" \/ (\E i \in DOMAIN x.bus : x.bus[i].kind = "message")
        <5>1. r.answer = "message" =>
                x.answer = "message" \/ (\E i \in DOMAIN x.bus : x.bus[i].kind = "message")
          BY <1>3, <1>5, <1>first
        <5>2. ASSUME NEW j \in DOMAIN rest, rest[j].kind = "message"
              PROVE  \E i \in DOMAIN x.bus : x.bus[i].kind = "message"
          <6>1. j + 1 \in DOMAIN x.bus /\ rest[j] = x.bus[j + 1]
            BY <1>2
          <6> QED BY <5>2, <6>1
        <5> QED BY <1>5, <5>1, <5>2
      <4> QED BY <1>1, <1>5, <4>1 DEF ExecOk, Over
    <3>7. /\ (r.pc # "idle" /\ r.task # e) \/ r.pc \in {"loading", "persisting"}
               => tasks'[r.task] # None
          /\ r.task # e => r.continues
      BY <1>1, <1>5, <1>7 DEF ExecOk
    <3>8. r.reader # "failed"
      BY <1>5
    <3> QED BY <1>5, <1>8, <2>2, <3>1, <3>2, <3>3, <3>4, <3>5, <3>6, <3>7, <3>8 DEF ExecOk
  <2> QED BY <2>1, <2>2
<1>12. \A f \in Sends : Same(exec[f], exec'[f])
  <2>1. Same(x, r)
    BY <1>2, <1>5, <1>10 DEF Same, Over
  <2>2. \A f \in Sends \ {e} : Same(exec[f], exec'[f])
    BY <1>8 DEF Same
  <2> QED BY <1>8, <2>1, <2>2
<1>13. ASSUME NEW t \in Tasks, tasks'[t] # None PROVE LogOk(t)'
  <2>1. \A c \in Cancels : cancel[c].pc \in HasWritten => cancel'[c].pc \in HasWritten
    BY <1>4
  <2>2. CASE tasks'[t] = tasks[t]
    BY <1>12, <1>13, <2>1, <2>2, LogsKept
  <2>3. CASE tasks'[t] # tasks[t]
    <3>1. t = t0 /\ v.kind # "message" /\ tasks'[t] = task /\ x.promoted
      BY <1>2, <1>4, <1>7, <2>3
    <3>2. CASE v.kind = "task" /\ tasks[t0] = None
      <4>1. tasks'[t].log = <<>> /\ t = e /\ exec'[t].promoted
        BY <1>2, <1>5, <1>6, <1>8, <3>1, <3>2
      <4> QED BY <4>1 DEF LogOk
    <3>3. CASE v.kind = "task" /\ tasks[t0] # None
      <4>1. tasks'[t].log = tasks[t].log
        BY <1>6, <3>1, <3>3
      <4>2. LogOk(t) /\ exec'[t].promoted
        BY <1>12, <3>1, <3>3 DEF IInv, LogOk, Same, Tasks
      <4>3. \A i \in DOMAIN tasks[t].log : EntryOk(tasks[t].log[i], t, exec, cancel)
        BY <4>2 DEF LogOk
      <4>4. \A i \in DOMAIN tasks[t].log : EntryOk(tasks[t].log[i], t, exec', cancel')
        BY <1>12, <2>1, <4>3, EntryKept
      <4> QED BY <4>1, <4>2, <4>4 DEF LogOk
    <3>4. CASE v.kind # "task"
      <4>1. tasks[t] # None /\ tasks'[t].log = Append(tasks[t].log, v) /\ LogOk(t)
        BY <1>2, <1>6, <3>1, <3>4 DEF IInv
      <4>2. EntryOk(v, t, exec', cancel')
        <5>1. Tells(v, r) /\ r.task = t
          BY <1>2, <1>5, <3>1 DEF Tells
        <5>2. ~Over(r) => Ranked(v, r)
          BY <1>1, <1>2, <1>5, <1>10 DEF ExecOk, RunOk, Ranked, Over, v
        <5>3. \A j \in DOMAIN r.bus : Before(v, r.bus[j])
          BY <1>2, <1>5
        <5>4. v.by \notin Cancels /\ v.by \notin Replies
          BY <1>2, RequestAssumption
        <5> QED BY <1>2, <1>8, <3>1, <5>1, <5>2, <5>3, <5>4 DEF EntryOk
      <4>3. \A i \in DOMAIN tasks[t].log :
              tasks[t].log[i].by = v.by => Before(tasks[t].log[i], v)
        <5>1. ASSUME NEW i \in DOMAIN tasks[t].log, tasks[t].log[i].by = v.by
              PROVE  Before(tasks[t].log[i], v)
          <6>1. EntryOk(tasks[t].log[i], t, exec, cancel)
            BY <4>1 DEF LogOk
          <6>2. \A j \in DOMAIN x.bus : Before(tasks[t].log[i], x.bus[j])
            BY <1>2, <5>1, <6>1 DEF EntryOk
          <6> QED BY <1>first, <6>2
        <5> QED BY <5>1
      <4> QED BY <1>2, <1>12, <1>13, <2>1, <4>1, <4>2, <4>3, LogGrows
    <3> QED BY <3>2, <3>3, <3>4
  <2> QED BY <2>2, <2>3
<1>14. RegistryOk'
  <2> SUFFICES ASSUME NEW t \in Tasks, registry[t] # None
               PROVE  /\ Live(registry[t])' /\ exec'[registry[t]].task = t
                      /\ exec'[registry[t]].aborted # "shutdown"
    BY <1>4 DEF RegistryOk, TaskOf
  <2>1. /\ registry[t] \in Sends /\ Live(registry[t]) /\ exec[registry[t]].task = t
        /\ exec[registry[t]].aborted # "shutdown" /\ registry'[t] = registry[t]
    BY <1>4 DEF IInv, RegistryOk, TaskOf, TypeOK
  <2> QED BY <1>5, <1>8, <2>1 DEF Live
<1>15. RequestsOk'
  <2>1. \A c \in Cancels : cancel[c].pc # "idle" =>
          cancel[c].task \in Tasks /\ tasks'[cancel[c].task] # None
    BY <1>7 DEF IInv, RequestsOk
  <2>2. \A w \in Watchers : watcher[w].pc # "idle" =>
          watcher[w].task \in Tasks /\ tasks'[watcher[w].task] # None
    BY <1>7 DEF IInv, RequestsOk
  <2>3. ASSUME NEW c \in Cancels, cancel[c].pc = "cleaning" PROVE Wrote(c, cancel[c].task)'
    <3>1. PICK t \in Tasks : t = cancel[c].task
      BY <2>3 DEF IInv, RequestsOk
    <3>2. Wrote(c, t)'
      BY <1>7, <2>3, <3>1 DEF IInv, RequestsOk
    <3> QED BY <1>4, <3>1, <3>2 DEF Wrote
  <2> QED BY <1>4, <2>1, <2>2, <2>3 DEF RequestsOk
<1>16. LiveIsRegistered'
  <2> SUFFICES ASSUME NEW f \in Sends, Live(f)', exec'[f].aborted # "shutdown",
                      ~Contended(f)', server' # "closed"
               PROVE  registry'[exec'[f].task] = f
    BY DEF LiveIsRegistered, TaskOf
  <2>1. Live(f) /\ exec[f].aborted # "shutdown" /\ exec'[f].task = exec[f].task
    BY <1>5, <1>8 DEF Live
  <2>2. \A g \in Sends : exec[g].promoted => exec'[g].promoted /\ exec'[g].task = exec[g].task
    BY <1>5, <1>8
  <2> QED BY <1>4, <1>7, <2>1, <2>2, LiveKept
<1> QED BY <1>9, <1>11, <1>13, <1>14, <1>15, <1>16 DEF IInv

\* An event that is not of an execution is appended to the log of a task.
LEMMA AppendStep ==
  ASSUME IInv, NEW t0 \in Tasks, tasks[t0] # None, NEW v \in Event,
         v.kind \in {"status-update", "artifact-update"},
         tasks' = [tasks EXCEPT ![t0] = Committed(@, v)],
         EntryOk(v, t0, exec', cancel'),
         \A i \in DOMAIN tasks[t0].log :
           tasks[t0].log[i].by = v.by => Before(tasks[t0].log[i], v),
         cancel' \in [Cancels -> CancelRequests],
         reply' \in [Replies -> Tasks \union {None}],
         \A c \in Cancels : cancel[c].pc \in HasWritten => cancel'[c].pc \in HasWritten,
         RequestsOk', UNCHANGED <<exec, registry, modes, watcher, server>>
  PROVE  IInv'
<1> DEFINE task == Committed(tasks[t0], v)
<1>1. /\ task \in CommittedTask
      /\ task.log = Append(tasks[t0].log, v)
  <2>1. tasks[t0] \in CommittedTask \union {None}
    BY DEF IInv, TypeOK
  <2> QED BY <2>1, CommittedIs
<1>2. tasks' = [tasks EXCEPT ![t0] = task]
  BY DEF IInv, TypeOK
<1> HIDE DEF task
<1>3. /\ tasks' \in [Tasks -> CommittedTask \union {None}] /\ tasks'[t0] = task
      /\ \A t \in Tasks : tasks[t] # None => tasks'[t] # None
      /\ \A c \in Cancels, t \in Tasks : Wrote(c, t) => Wrote(c, t)'
  BY <1>1, <1>2, LogsStay
<1>4. TypeOK'
  BY <1>3 DEF IInv, TypeOK
<1>5. ASSUME NEW f \in Sends PROVE ExecOk(f)'
  <2>1. ExecOk(f) /\ exec'[f] = exec[f] /\ exec[f].task \in Tasks
    BY ExecTyped
  <2>2. tasks[exec[f].task] # None => tasks'[exec[f].task] # None
    BY <1>3, <2>1
  <2> QED BY <2>1, <2>2 DEF ExecOk, Known
<1>6. \A f \in Sends : Same(exec[f], exec'[f])
  BY DEF Same
<1>7. ASSUME NEW t \in Tasks, tasks'[t] # None PROVE LogOk(t)'
  <2>1. CASE t # t0
    <3>1. tasks'[t] = tasks[t]
      BY <1>2, <2>1
    <3> QED BY <1>6, <1>7, <3>1, LogsKept
  <2>2. CASE t = t0
    <3>1. tasks[t] # None /\ tasks'[t].log = Append(tasks[t].log, v)
      BY <1>1, <1>3, <2>2
    <3>2. EntryOk(v, t, exec', cancel')
      BY <2>2
    <3>3. \A i \in DOMAIN tasks[t].log :
            tasks[t].log[i].by = v.by => Before(tasks[t].log[i], v)
      BY <2>2
    <3> QED BY <1>6, <1>7, <3>1, <3>2, <3>3, LogGrows
  <2> QED BY <2>1, <2>2
<1>8. RegistryOk'
  BY DEF IInv, RegistryOk, Live, TaskOf
<1>9. LiveIsRegistered'
  <2> SUFFICES ASSUME NEW f \in Sends, Live(f)', exec'[f].aborted # "shutdown",
                      ~Contended(f)', server' # "closed"
               PROVE  registry'[exec'[f].task] = f
    BY DEF LiveIsRegistered, TaskOf
  <2>1. Live(f) /\ exec[f].aborted # "shutdown"
    BY DEF Live
  <2>2. \A g \in Sends : exec[g].promoted => exec'[g].promoted /\ exec'[g].task = exec[g].task
    OBVIOUS
  <2> QED BY <1>3, <2>1, <2>2, LiveKept
<1> QED BY <1>4, <1>5, <1>7, <1>8, <1>9 DEF IInv

\* The request c moves on to r, which is behind its writing if c was.
LEMMA CancelMoves ==
  ASSUME IInv, NEW c \in Cancels, NEW r \in CancelRequests, cancel' = [cancel EXCEPT ![c] = r],
         cancel[c].pc \in HasWritten => r.pc \in HasWritten
  PROVE  /\ cancel' \in [Cancels -> CancelRequests] /\ cancel'[c] = r
         /\ \A d \in Cancels \ {c} : cancel'[d] = cancel[d]
         /\ \A d \in Cancels : cancel[d].pc \in HasWritten => cancel'[d].pc \in HasWritten
  BY DEF IInv, TypeOK

LEMMA DeliverKeeps ==
  ASSUME IInv, NEW q \in Replies, NEW t \in Tasks, DeliverQueuedReply(q, t)
  PROVE  IInv'
<1> DEFINE v == Artifact(q, <<"reply", q>>)
<1>1. <<"reply", q>> \in ArtifactIds
  BY DEF ArtifactIds
<1>2. v \in Event /\ v.by = q /\ v.kind = "artifact-update" /\ ~v.final
  BY <1>1, ArtifactEvent
<1>3. /\ tasks[t] # None /\ tasks' = [tasks EXCEPT ![t] = Committed(@, v)]
      /\ reply' = [reply EXCEPT ![q] = t]
      /\ UNCHANGED <<exec, registry, modes, cancel, watcher, server>>
  BY DEF DeliverQueuedReply
<1> HIDE DEF v
<1>4. EntryOk(v, t, exec', cancel')
  BY <1>2, RequestAssumption DEF EntryOk
<1>5. ASSUME NEW i \in DOMAIN tasks[t].log, tasks[t].log[i].by = v.by
      PROVE  Before(tasks[t].log[i], v)
  <2>1. EntryOk(tasks[t].log[i], t, exec, cancel)
    BY <1>3 DEF IInv, LogOk
  <2> QED BY <1>2, <1>5, <2>1 DEF EntryOk, Before
<1>6. RequestsOk'
  <2> DEFINE task == Committed(tasks[t], v)
  <2>1. task \in CommittedTask /\ task.log = Append(tasks[t].log, v)
    <3>1. tasks[t] \in CommittedTask \union {None}
      BY DEF IInv, TypeOK
    <3> QED BY <1>2, <1>3, <3>1, CommittedIs
  <2>2. tasks' = [tasks EXCEPT ![t] = task]
    BY <1>3 DEF IInv, TypeOK
  <2> HIDE DEF task
  <2>3. /\ \A u \in Tasks : tasks[u] # None => tasks'[u] # None
        /\ \A c \in Cancels, u \in Tasks : Wrote(c, u) => Wrote(c, u)'
    BY <1>2, <2>1, <2>2, LogsStay
  <2>4. \A c \in Cancels : cancel[c].pc # "idle" =>
          cancel[c].task \in Tasks /\ tasks'[cancel[c].task] # None
    BY <2>3 DEF IInv, RequestsOk
  <2>5. \A w \in Watchers : watcher[w].pc # "idle" =>
          watcher[w].task \in Tasks /\ tasks'[watcher[w].task] # None
    BY <2>3 DEF IInv, RequestsOk
  <2>6. ASSUME NEW c \in Cancels, cancel[c].pc = "cleaning" PROVE Wrote(c, cancel[c].task)'
    <3>1. PICK u \in Tasks : u = cancel[c].task
      BY <2>6 DEF IInv, RequestsOk
    <3>2. Wrote(c, u)'
      BY <2>3, <2>6, <3>1 DEF IInv, RequestsOk
    <3> QED BY <1>3, <3>1, <3>2 DEF Wrote
  <2> QED BY <1>3, <2>4, <2>5, <2>6 DEF RequestsOk
<1>7. /\ cancel' \in [Cancels -> CancelRequests]
      /\ reply' \in [Replies -> Tasks \union {None}]
      /\ \A c \in Cancels : cancel[c].pc \in HasWritten => cancel'[c].pc \in HasWritten
  BY <1>3 DEF IInv, TypeOK
<1> QED BY <1>2, <1>3, <1>4, <1>5, <1>6, <1>7, AppendStep

LEMMA QuiescentKeeps ==
  ASSUME IInv, NEW c \in Cancels, CancelQuiescent(c)
  PROVE  IInv'
<1> DEFINE x == cancel[c]
           t == x.task
           v == Status(c, "canceled")
           r == [x EXCEPT !.pc = "cleaning"]
           task == Committed(tasks[t], v)
<1>1. x \in CancelRequests /\ x.pc = "committing" /\ t \in Tasks /\ tasks[t] # None
  BY DEF IInv, TypeOK, RequestsOk, CancelQuiescent
<1>2. v \in Event /\ v.by = c /\ v.kind = "status-update" /\ v.state = "canceled" /\ v.final
  BY StatusEvent, StateSets
<1>3. /\ tasks' = [tasks EXCEPT ![t] = Committed(@, v)]
      /\ UNCHANGED <<exec, registry, modes, watcher, reply, server>>
  BY DEF CancelQuiescent
<1>4. cancel' = [cancel EXCEPT ![c] = r]
  BY <1>1 DEF CancelQuiescent, Arrive, CancelRequests
<1>5. r \in CancelRequests /\ r.pc = "cleaning" /\ r.task = t
  BY <1>1 DEF CancelRequests
<1> HIDE DEF r, v
<1>6. /\ cancel' \in [Cancels -> CancelRequests] /\ cancel'[c] = r
      /\ \A d \in Cancels \ {c} : cancel'[d] = cancel[d]
      /\ \A d \in Cancels : cancel[d].pc \in HasWritten => cancel'[d].pc \in HasWritten
  BY <1>4, <1>5, CancelMoves DEF HasWritten
<1>7. EntryOk(v, t, exec', cancel')
  BY <1>2, <1>5, <1>6, RequestAssumption DEF EntryOk
<1>8. ASSUME NEW i \in DOMAIN tasks[t].log, tasks[t].log[i].by = v.by
      PROVE  Before(tasks[t].log[i], v)
  <2>1. EntryOk(tasks[t].log[i], t, exec, cancel)
    BY <1>1 DEF IInv, LogOk
  <2> QED BY <1>1, <1>2, <1>8, <2>1 DEF EntryOk
<1>9. task \in CommittedTask /\ task.log = Append(tasks[t].log, v)
  <2>1. tasks[t] \in CommittedTask \union {None}
    BY <1>1 DEF IInv, TypeOK
  <2> QED BY <1>1, <1>2, <2>1, CommittedIs
<1>10. tasks' = [tasks EXCEPT ![t] = task]
  BY <1>1, <1>3 DEF IInv, TypeOK
<1> HIDE DEF task
<1>11. /\ \A u \in Tasks : tasks[u] # None => tasks'[u] # None
       /\ \A d \in Cancels, u \in Tasks : Wrote(d, u) => Wrote(d, u)'
       /\ tasks'[t] = task /\ task # None
  BY <1>1, <1>2, <1>9, <1>10, LogsStay
<1>12. ASSUME NEW u \in Tasks, u = t PROVE Wrote(c, u)'
  <2>1. tasks[t].log \in Seq(Event)
    BY <1>1 DEF IInv, TypeOK, CommittedTask
  <2>2. /\ Len(tasks[t].log) + 1 \in DOMAIN tasks'[t].log
        /\ tasks'[t].log[Len(tasks[t].log) + 1] = v
    BY <1>2, <1>9, <1>11, <2>1, AppendProperties
  <2> QED BY <1>2, <1>11, <1>12, <2>2 DEF Wrote
<1>13. RequestsOk'
  <2>1. \A d \in Cancels : cancel'[d].pc # "idle" =>
          cancel'[d].task \in Tasks /\ tasks'[cancel'[d].task] # None
    <3>1. cancel'[c].task = t
      BY <1>5, <1>6
    <3>2. \A d \in Cancels \ {c} : cancel'[d].pc # "idle" =>
            cancel'[d].task \in Tasks /\ tasks'[cancel'[d].task] # None
      BY <1>6, <1>11 DEF IInv, RequestsOk
    <3> QED BY <1>1, <1>11, <3>1, <3>2
  <2>2. \A w \in Watchers : watcher[w].pc # "idle" =>
          watcher[w].task \in Tasks /\ tasks'[watcher[w].task] # None
    BY <1>11 DEF IInv, RequestsOk
  <2>3. ASSUME NEW d \in Cancels, cancel'[d].pc = "cleaning" PROVE Wrote(d, cancel[d].task)'
    <3>1. PICK u \in Tasks : u = cancel'[d].task
      BY <2>1, <2>3
    <3>2. Wrote(d, u)'
      <4>1. CASE d = c
        BY <1>5, <1>6, <1>12, <3>1, <4>1
      <4>2. CASE d # c
        BY <1>6, <1>11, <2>3, <3>1, <4>2 DEF IInv, RequestsOk
      <4> QED BY <4>1, <4>2
    <3> QED BY <3>1, <3>2 DEF Wrote
  <2> QED BY <1>3, <2>1, <2>2, <2>3 DEF RequestsOk
<1>14. reply' \in [Replies -> Tasks \union {None}]
  BY <1>3 DEF IInv, TypeOK
<1> QED BY <1>1, <1>2, <1>3, <1>6, <1>7, <1>8, <1>13, <1>14, AppendStep

-----------------------------------------------------------------------------
(* Steps of cancels and resubscriptions.                                   *)

\* A request that only looks at the task, or takes an execution out of the
\* registry whose task it wrote to.
LEMMA RequestStep ==
  ASSUME IInv, cancel' \in [Cancels -> CancelRequests],
         watcher' \in [Watchers -> ResubscribeRequests],
         registry' \in [Tasks -> Sends \union {None}],
         \A t \in Tasks : \/ registry'[t] = registry[t]
                          \/ registry'[t] = None /\ \E c \in Cancels : Wrote(c, t),
         \A c \in Cancels : cancel[c].pc \in HasWritten => cancel'[c].pc \in HasWritten,
         \A c \in Cancels :
           /\ cancel'[c].pc # "idle" => cancel'[c].task \in Tasks /\ tasks[cancel'[c].task] # None
           /\ cancel'[c].pc = "cleaning" => cancel[c].pc = "cleaning" /\ cancel'[c].task = cancel[c].task,
         \A w \in Watchers :
           watcher'[w].pc # "idle" => watcher'[w].task \in Tasks /\ tasks[watcher'[w].task] # None,
         UNCHANGED <<tasks, exec, modes, reply, server>>
  PROVE  IInv'
<1>1. TypeOK'
  BY DEF IInv, TypeOK
<1>2. \A f \in Sends : ExecOk(f)'
  BY DEF IInv, ExecOk
<1>3. \A f \in Sends : Same(exec[f], exec'[f])
  BY DEF Same
<1>4. ASSUME NEW t \in Tasks, tasks'[t] # None PROVE LogOk(t)'
  BY <1>3, <1>4, LogsKept
<1>5. RegistryOk'
  BY DEF IInv, RegistryOk, Live, TaskOf
<1>6. RequestsOk'
  BY DEF IInv, RequestsOk, Wrote
<1>7. LiveIsRegistered'
  <2> SUFFICES ASSUME NEW f \in Sends, Live(f)', exec'[f].aborted # "shutdown",
                      ~Contended(f)', server' # "closed"
               PROVE  registry'[exec'[f].task] = f
    BY DEF LiveIsRegistered, TaskOf
  <2>1. Live(f) /\ exec[f].aborted # "shutdown"
    BY DEF Live
  <2>2. \A c \in Cancels, t \in Tasks : Wrote(c, t) => Wrote(c, t)'
    BY DEF Wrote
  <2>3. registry[exec[f].task] = f
    BY <2>1, <2>2, LiveKept
  <2>4. PICK t \in Tasks : t = exec[f].task
    BY ExecTyped
  <2>5. ~ \E c \in Cancels : Wrote(c, t)
    BY <2>4 DEF Contended, TaskOf, Wrote
  <2> QED BY <2>3, <2>4, <2>5
<1> QED BY <1>1, <1>2, <1>4, <1>5, <1>6, <1>7 DEF IInv

\* A cancel moves on, to a step from which it has not yet written.
LEMMA CancelStep ==
  ASSUME IInv, NEW c \in Cancels, NEW r \in CancelRequests,
         cancel' = [cancel EXCEPT ![c] = r],
         r.pc \notin {"idle", "cleaning"},
         cancel[c].pc \in HasWritten => r.pc \in HasWritten,
         r.task \in Tasks, tasks[r.task] # None,
         UNCHANGED <<tasks, exec, modes, watcher, reply, server>>,
         registry' \in [Tasks -> Sends \union {None}],
         \A t \in Tasks : \/ registry'[t] = registry[t]
                          \/ registry'[t] = None /\ \E d \in Cancels : Wrote(d, t)
  PROVE  IInv'
<1>1. /\ cancel' \in [Cancels -> CancelRequests] /\ cancel'[c] = r
      /\ \A d \in Cancels \ {c} : cancel'[d] = cancel[d]
      /\ \A d \in Cancels : cancel[d].pc \in HasWritten => cancel'[d].pc \in HasWritten
  BY CancelMoves
<1>2. ASSUME NEW d \in Cancels
      PROVE  /\ cancel'[d].pc # "idle" => cancel'[d].task \in Tasks /\ tasks[cancel'[d].task] # None
             /\ cancel'[d].pc = "cleaning" => cancel[d].pc = "cleaning" /\ cancel'[d].task = cancel[d].task
  <2>1. CASE d = c
    BY <1>1, <2>1
  <2>2. CASE d # c
    BY <1>1, <2>2 DEF IInv, RequestsOk
  <2> QED BY <2>1, <2>2
<1>3. /\ watcher' \in [Watchers -> ResubscribeRequests]
      /\ \A w \in Watchers :
           watcher'[w].pc # "idle" => watcher'[w].task \in Tasks /\ tasks[watcher'[w].task] # None
  BY DEF IInv, TypeOK, RequestsOk
<1> QED BY <1>1, <1>2, <1>3, RequestStep

\* The ways a cancel moves on, by what is left of its state.
Moved(c, pc) == [cancel[c] EXCEPT !.pc = pc]
Replied(c, answer) ==
  [cancel[c] EXCEPT !.pc = "answered", !.answer = answer, !.base = 0, !.open = FALSE]

LEMMA MovedTyped ==
  ASSUME IInv, NEW c \in Cancels, cancel[c].pc # "idle",
         NEW pc \in {"reloading", "subscribing", "requesting", "waiting", "settling",
                     "committing", "cleaning", "reading"}
  PROVE  /\ Moved(c, pc) \in CancelRequests /\ Moved(c, pc).pc = pc
         /\ Moved(c, pc).task = cancel[c].task
         /\ Arrive(c, pc) = [cancel EXCEPT ![c] = Moved(c, pc)]
         /\ cancel[c].task \in Tasks /\ tasks[cancel[c].task] \in CommittedTask
         /\ tasks[cancel[c].task] # None
<1>1. cancel[c] \in CancelRequests /\ cancel \in [Cancels -> CancelRequests]
  BY DEF IInv, TypeOK
<1>2. cancel[c].task \in Tasks /\ tasks[cancel[c].task] # None
  BY DEF IInv, RequestsOk
<1>3. tasks[cancel[c].task] \in CommittedTask
  BY <1>2 DEF IInv, TypeOK
<1> QED BY <1>1, <1>2, <1>3 DEF Moved, Arrive, CancelRequests

LEMMA RepliedTyped ==
  ASSUME IInv, NEW c \in Cancels, cancel[c].pc # "idle",
         NEW answer \in States \union {"refused", None}
  PROVE  /\ Replied(c, answer) \in CancelRequests /\ Replied(c, answer).pc = "answered"
         /\ Replied(c, answer).task = cancel[c].task
         /\ Reply(c, answer) = [cancel EXCEPT ![c] = Replied(c, answer)]
<1>1. cancel[c] \in CancelRequests /\ cancel \in [Cancels -> CancelRequests]
  BY DEF IInv, TypeOK
<1> QED BY <1>1 DEF Replied, Reply, CancelRequests

LEMMA CancelMoveKeeps ==
  ASSUME IInv, NEW c \in Cancels,
         \/ CancelLoad(c) \/ CancelReload(c) \/ CancelSubscribe(c) \/ CancelTailEnds(c)
         \/ CancelSettle(c) \/ CancelRead(c)
  PROVE  IInv'
<1> DEFINE t == cancel[c].task
           Pcs == {"reloading", "subscribing", "requesting", "waiting", "settling",
                   "committing", "cleaning", "reading"}
<1>1. cancel[c].pc # "idle" /\ UNCHANGED <<tasks, exec, modes, registry, watcher, reply, server>>
  BY DEF CancelLoad, CancelReload, CancelSubscribe, CancelTailEnds, CancelSettle, CancelRead
<1>2. t \in Tasks /\ tasks[t] # None /\ tasks[t].state \in States
  BY <1>1, MovedTyped DEF CommittedTask
<1>3. registry' \in [Tasks -> Sends \union {None}] /\ registry' = registry
  BY <1>1 DEF IInv, TypeOK
<1>4. ASSUME NEW pc \in Pcs \ {"cleaning"}, cancel' = Arrive(c, pc),
             cancel[c].pc \notin HasWritten
      PROVE  IInv'
  <2>1. /\ Moved(c, pc) \in CancelRequests /\ Moved(c, pc).pc = pc
        /\ Moved(c, pc).task = t /\ cancel' = [cancel EXCEPT ![c] = Moved(c, pc)]
    BY <1>1, <1>4, MovedTyped
  <2>2. /\ Moved(c, pc).pc \notin {"idle", "cleaning"}
        /\ Moved(c, pc).task \in Tasks /\ tasks[Moved(c, pc).task] # None
    BY <1>2, <1>4, <2>1
  <2> QED BY <1>1, <1>3, <1>4, <2>1, <2>2, CancelStep
<1>5. ASSUME NEW answer \in States \union {"refused", None}, cancel' = Reply(c, answer)
      PROVE  IInv'
  <2>1. /\ Replied(c, answer) \in CancelRequests /\ Replied(c, answer).pc = "answered"
        /\ Replied(c, answer).task = t /\ cancel' = [cancel EXCEPT ![c] = Replied(c, answer)]
    BY <1>1, <1>5, RepliedTyped
  <2> QED BY <1>1, <1>2, <1>3, <2>1, CancelStep DEF HasWritten
<1>6. CASE CancelLoad(c) \/ CancelReload(c)
  <2>1. cancel[c].pc \notin HasWritten
    BY <1>6 DEF CancelLoad, CancelReload, HasWritten
  <2>2. CASE tasks[t].state \in Terminal
    <3>1. cancel' = Reply(c, tasks[t].state)
      BY <1>6, <2>2 DEF CancelLoad, CancelReload, StateOf, Terminal, Quiescent, Active
    <3> QED BY <1>2, <1>5, <3>1
  <2>3. CASE tasks[t].state \in Quiescent
    <3>1. cancel' = Arrive(c, "committing")
      BY <1>6, <2>3 DEF CancelLoad, CancelReload, StateOf, Terminal, Quiescent, Active
    <3> QED BY <1>4, <2>1, <3>1
  <2>4. CASE tasks[t].state \in Active
    <3>1. \/ cancel' = Arrive(c, "reloading") \/ cancel' = Arrive(c, "subscribing")
          \/ cancel' = Reply(c, "refused")
      BY <1>6, <2>4 DEF CancelLoad, CancelReload, StateOf, Terminal, Quiescent, Active
    <3> QED BY <1>4, <1>5, <2>1, <3>1
  <2> QED BY <1>2, <2>2, <2>3, <2>4 DEF States
<1>7. CASE CancelSubscribe(c)
  <2>1. cancel[c].pc \notin HasWritten
    BY <1>7 DEF CancelSubscribe, HasWritten
  <2>2. CASE tasks[t].state \notin Active
    <3>1. cancel' = Arrive(c, "reloading")
      BY <1>7, <2>2 DEF CancelSubscribe, StateOf
    <3> QED BY <1>4, <2>1, <3>1
  <2>3. CASE tasks[t].state \in Active
    <3> DEFINE n == Len(tasks[t].log)
               r == [cancel[c] EXCEPT !.pc = "requesting", !.open = TRUE, !.base = n]
    <3>1. cancel \in [Cancels -> CancelRequests] /\ cancel[c] \in CancelRequests
      BY DEF IInv, TypeOK
    <3>2. n \in Nat
      <4>1. tasks[t] \in CommittedTask
        BY <1>1, MovedTyped
      <4> QED BY <4>1 DEF CommittedTask
    <3>3. cancel' = [cancel EXCEPT ![c] = r]
      BY <1>7, <2>3, <3>1 DEF CancelSubscribe, StateOf, CancelRequests
    <3> HIDE DEF n
    <3>4. r \in CancelRequests /\ r.pc = "requesting" /\ r.task = t
      BY <3>1, <3>2 DEF CancelRequests
    <3> HIDE DEF r
    <3> QED BY <1>1, <1>2, <1>3, <2>1, <3>3, <3>4, CancelStep
  <2> QED BY <2>2, <2>3
<1>8. CASE CancelTailEnds(c)
  <2>1. cancel[c].pc \notin HasWritten /\ cancel' = Arrive(c, "settling")
    BY <1>8 DEF CancelTailEnds, HasWritten
  <2> QED BY <1>4, <2>1
<1>9. CASE CancelSettle(c)
  <2>1. \/ cancel' = Reply(c, tasks[t].state) \/ cancel' = Reply(c, "refused")
    BY <1>9 DEF CancelSettle, StateOf
  <2> QED BY <1>2, <1>5, <2>1
<1>10. CASE CancelRead(c)
  <2>1. cancel' = Reply(c, tasks[t].state)
    BY <1>10 DEF CancelRead, StateOf
  <2> QED BY <1>2, <1>5, <2>1
<1> QED BY <1>6, <1>7, <1>8, <1>9, <1>10

LEMMA RequestCancelKeeps ==
  ASSUME IInv, NEW c \in Cancels, NEW t \in Tasks, RequestCancel(c, t)
  PROVE  IInv'
<1> DEFINE r == [cancel[c] EXCEPT !.pc = "loading", !.task = t]
<1>1. cancel \in [Cancels -> CancelRequests] /\ cancel[c] \in CancelRequests
  BY DEF IInv, TypeOK
<1>2. r \in CancelRequests /\ r.pc = "loading" /\ r.task = t
  BY <1>1 DEF CancelRequests
<1>3. cancel' = [cancel EXCEPT ![c] = r]
  BY <1>1 DEF RequestCancel, CancelRequests
<1>4. /\ cancel[c].pc \notin HasWritten /\ tasks[t] # None
      /\ UNCHANGED <<tasks, exec, modes, registry, watcher, reply, server>>
  BY DEF RequestCancel, HasWritten
<1>5. registry' \in [Tasks -> Sends \union {None}]
  BY <1>4 DEF IInv, TypeOK
<1> HIDE DEF r
<1> QED BY <1>2, <1>3, <1>4, <1>5, CancelStep

LEMMA CleanupKeeps ==
  ASSUME IInv, NEW c \in Cancels, CancelCleanup(c)
  PROVE  IInv'
<1> DEFINE t == cancel[c].task
           r == Moved(c, "reading")
<1>1. /\ cancel[c].pc = "cleaning" /\ registry' = [registry EXCEPT ![t] = None]
      /\ UNCHANGED <<tasks, exec, modes, watcher, reply, server>>
  BY DEF CancelCleanup
<1>2. /\ r \in CancelRequests /\ r.pc = "reading" /\ r.task = t
      /\ cancel' = [cancel EXCEPT ![c] = r]
      /\ t \in Tasks /\ tasks[t] # None
  BY <1>1, MovedTyped DEF CancelCleanup
<1>3. Wrote(c, t)
  BY <1>1 DEF IInv, RequestsOk
<1>4. /\ registry' \in [Tasks -> Sends \union {None}]
      /\ \A u \in Tasks : \/ registry'[u] = registry[u]
                          \/ registry'[u] = None /\ \E d \in Cancels : Wrote(d, u)
  BY <1>1, <1>2, <1>3 DEF IInv, TypeOK
<1> HIDE DEF r
<1> QED BY <1>1, <1>2, <1>4, CancelStep DEF HasWritten

LEMMA WatcherStep ==
  ASSUME IInv, NEW w \in Watchers, NEW r \in ResubscribeRequests,
         watcher' = [watcher EXCEPT ![w] = r], r.task \in Tasks, tasks[r.task] # None,
         UNCHANGED <<tasks, exec, registry, modes, cancel, reply, server>>
  PROVE  IInv'
<1>1. /\ watcher' \in [Watchers -> ResubscribeRequests] /\ watcher'[w] = r
      /\ \A u \in Watchers \ {w} : watcher'[u] = watcher[u]
  BY DEF IInv, TypeOK
<1>2. /\ cancel' \in [Cancels -> CancelRequests]
      /\ registry' \in [Tasks -> Sends \union {None}]
      /\ \A c \in Cancels : cancel'[c].pc # "idle" =>
           cancel'[c].task \in Tasks /\ tasks[cancel'[c].task] # None
  BY DEF IInv, TypeOK, RequestsOk
<1>3. \A u \in Watchers :
        watcher'[u].pc # "idle" => watcher'[u].task \in Tasks /\ tasks[watcher'[u].task] # None
  BY <1>1 DEF IInv, RequestsOk
<1> QED BY <1>1, <1>2, <1>3, RequestStep

LEMMA ResubscribeKeeps ==
  ASSUME IInv, NEW w \in Watchers,
         (\E t \in Tasks : Resubscribe(w, t)) \/ HandleResubscribe(w)
  PROVE  IInv'
<1> DEFINE x == watcher[w]
<1>1. watcher \in [Watchers -> ResubscribeRequests] /\ x \in ResubscribeRequests
  BY DEF IInv, TypeOK
<1>2. ASSUME NEW t \in Tasks, Resubscribe(w, t) PROVE IInv'
  <2> DEFINE live == (registry[t] # None)
             r == [x EXCEPT !.pc = "planned", !.task = t, !.live = live]
  <2>1. live \in BOOLEAN
    OBVIOUS
  <2>2. watcher' = [watcher EXCEPT ![w] = r]
    BY <1>1, <1>2 DEF Resubscribe, ResubscribeRequests
  <2> HIDE DEF live
  <2>3. r \in ResubscribeRequests /\ r.task = t
    BY <1>1, <2>1 DEF ResubscribeRequests
  <2> HIDE DEF r
  <2>4. tasks[t] # None /\ UNCHANGED <<tasks, exec, registry, modes, cancel, reply, server>>
    BY <1>2 DEF Resubscribe
  <2> QED BY <2>2, <2>3, <2>4, WatcherStep
<1>3. ASSUME HandleResubscribe(w) PROVE IInv'
  <2> DEFINE n == Len(tasks[x.task].log)
             a == [x EXCEPT !.pc = "tailing", !.base = n]
             b == [x EXCEPT !.pc = "closed"]
  <2>1. x.pc # "idle" /\ UNCHANGED <<tasks, exec, registry, modes, cancel, reply, server>>
    BY <1>3 DEF HandleResubscribe, PrepareResubscribe, WatcherTailEnds
  <2>2. x.task \in Tasks /\ tasks[x.task] # None
    BY <2>1 DEF IInv, RequestsOk
  <2>3. n \in Nat
    <3>1. tasks[x.task] \in CommittedTask
      BY <2>2 DEF IInv, TypeOK
    <3> QED BY <3>1 DEF CommittedTask
  <2>4. watcher' = [watcher EXCEPT ![w] = a] \/ watcher' = [watcher EXCEPT ![w] = b]
    BY <1>1, <1>3 DEF HandleResubscribe, PrepareResubscribe, WatcherTailEnds,
                      ResubscribeRequests
  <2> HIDE DEF n
  <2>5. /\ a \in ResubscribeRequests /\ a.task = x.task
        /\ b \in ResubscribeRequests /\ b.task = x.task
    BY <1>1, <2>3 DEF ResubscribeRequests
  <2> HIDE DEF a, b
  <2> QED BY <2>1, <2>2, <2>4, <2>5, WatcherStep
<1> QED BY <1>2, <1>3

-----------------------------------------------------------------------------
(* Steps that abort executions, or lose them.                              *)

LEMMA AbortedIs ==
  ASSUME NEW x \in Execution, NEW reason \in {"cancel", "shutdown"}
  PROVE  LET r == Aborted(x, reason) IN
         /\ r \in Execution /\ r.bus = x.bus /\ r.working = x.working /\ r.final = x.final
         /\ r.promoted = x.promoted /\ r.paused = x.paused /\ r.pc = x.pc /\ r.task = x.task
         /\ r.continues = x.continues /\ r.reader = x.reader /\ r.answer = x.answer
         /\ r.stages = x.stages /\ r.events = x.events /\ r.mode = x.mode
         /\ r.aborted = x.aborted \/ (x.aborted = "no" /\ r.aborted = reason)
         /\ x.final => r.aborted = x.aborted
<1>1. CASE x.final \/ x.aborted # "no"
  <2>1. Aborted(x, reason) = x
    BY <1>1 DEF Aborted
  <2> QED BY <2>1
<1>2. CASE ~(x.final \/ x.aborted # "no")
  <2>1. Aborted(x, reason) = [x EXCEPT !.aborted = reason]
    BY <1>2 DEF Aborted
  <2> QED BY <1>2, <2>1 DEF Execution
<1> QED BY <1>1, <1>2

\* Aborting executions that are live changes nothing that was told of them.
LEMMA AbortsKeep ==
  ASSUME IInv, exec' \in [Sends -> Execution], tasks' = tasks,
         \A f \in Sends : \/ exec'[f] = exec[f]
                          \/ Live(f) /\ \E reason \in {"cancel", "shutdown"} :
                                          exec'[f] = Aborted(exec[f], reason),
         \A c \in Cancels : cancel[c].pc \in HasWritten => cancel'[c].pc \in HasWritten
  PROVE  /\ \A f \in Sends : ExecOk(f)'
         /\ \A t \in Tasks : tasks'[t] # None => LogOk(t)'
<1>1. ASSUME NEW f \in Sends PROVE ExecOk(f)' /\ Same(exec[f], exec'[f])
  <2>1. CASE exec'[f] = exec[f]
    BY <2>1 DEF IInv, ExecOk, Same
  <2>2. CASE exec'[f] # exec[f]
    <3> DEFINE x == exec[f]
               r == exec'[f]
    <3>1. PICK reason \in {"cancel", "shutdown"} : r = Aborted(x, reason)
      BY <2>2
    <3>2. x \in Execution /\ ExecOk(f) /\ Live(f)
      BY <2>2, ExecTyped
    <3>3. /\ r \in Execution /\ r.bus = x.bus /\ r.working = x.working /\ r.final = x.final
          /\ r.promoted = x.promoted /\ r.paused = x.paused /\ r.pc = x.pc /\ r.task = x.task
          /\ r.continues = x.continues /\ r.reader = x.reader /\ r.answer = x.answer
          /\ r.stages = x.stages /\ r.events = x.events
      BY <3>1, <3>2, AbortedIs
    <3>4. x.promoted /\ x.pc = "running" /\ ~x.final
      BY <3>2 DEF Live
    <3>5. /\ BusOk(x, f) /\ RunOk(x) /\ x.reader \in {"none", "reading"}
          /\ Known(x, tasks[x.task] # None)
          /\ x.answer # "message" /\ ~ \E i \in DOMAIN x.bus : x.bus[i].kind = "message"
          /\ x.task # f => tasks[x.task] # None /\ x.continues
      BY <3>2, <3>4 DEF ExecOk, Over
    <3> HIDE DEF r, x
    <3>6. Level(r) = Level(x)
      BY <3>3 DEF Level
    <3>7. BusOk(r, f) /\ RunOk(r) /\ Known(r, tasks[x.task] # None)
      BY <3>3, <3>4, <3>5, <3>6 DEF BusOk, RunOk, Known, Tells, Ranked
    <3>8. Same(x, r)
      BY <3>3, <3>4, <3>6 DEF Same, Over
    <3>9. ExecOk(f)'
      BY <3>3, <3>4, <3>5, <3>7 DEF ExecOk, Over, r
    <3> QED BY <3>8, <3>9 DEF x, r
  <2> QED BY <2>1, <2>2
<1>2. ASSUME NEW t \in Tasks, tasks'[t] # None PROVE LogOk(t)'
  BY <1>1, <1>2, LogsKept
<1> QED BY <1>1, <1>2

LEMMA CancelRequestKeeps ==
  ASSUME IInv, NEW c \in Cancels, CancelRequest(c)
  PROVE  IInv'
<1> DEFINE t == cancel[c].task
           e == registry[t]
           r == Moved(c, "waiting")
<1>1. /\ cancel[c].pc = "requesting"
      /\ exec' = IF e = None THEN exec ELSE [exec EXCEPT ![e] = Aborted(@, "cancel")]
      /\ UNCHANGED <<tasks, registry, modes, watcher, reply, server>>
  BY DEF CancelRequest
<1>2. /\ r \in CancelRequests /\ r.pc = "waiting" /\ r.task = t
      /\ cancel' = [cancel EXCEPT ![c] = r]
      /\ t \in Tasks /\ tasks[t] # None
  BY <1>1, MovedTyped DEF CancelRequest
<1> HIDE DEF r
<1>3. /\ cancel' \in [Cancels -> CancelRequests] /\ cancel'[c] = r
      /\ \A d \in Cancels \ {c} : cancel'[d] = cancel[d]
      /\ \A d \in Cancels : cancel[d].pc \in HasWritten => cancel'[d].pc \in HasWritten
  BY <1>1, <1>2, CancelMoves DEF HasWritten
<1>4. e # None => e \in Sends /\ Live(e)
  BY <1>2 DEF IInv, TypeOK, RegistryOk
<1>5. \A f \in Sends : \/ exec'[f] = exec[f]
                       \/ Live(f) /\ exec'[f] = Aborted(exec[f], "cancel")
  <2>1. exec \in [Sends -> Execution]
    BY DEF IInv, TypeOK
  <2> HIDE DEF e
  <2> QED BY <1>1, <1>4, <2>1
<1>6. \A f \in Sends :
        /\ exec'[f] \in Execution /\ exec'[f].final = exec[f].final
        /\ exec'[f].promoted = exec[f].promoted /\ exec'[f].paused = exec[f].paused
        /\ exec'[f].pc = exec[f].pc /\ exec'[f].task = exec[f].task
        /\ exec'[f].aborted = exec[f].aborted
             \/ (exec[f].aborted = "no" /\ exec'[f].aborted = "cancel")
  BY <1>5, ExecTyped, AbortedIs
<1>7. exec' \in [Sends -> Execution]
  <2>1. DOMAIN exec' = Sends /\ exec' = [f \in Sends |-> exec'[f]]
    BY <1>1 DEF IInv, TypeOK
  <2> QED BY <1>6, <2>1
<1>8. TypeOK'
  BY <1>1, <1>3, <1>7 DEF IInv, TypeOK
<1>9. /\ \A f \in Sends : ExecOk(f)'
      /\ \A u \in Tasks : tasks'[u] # None => LogOk(u)'
  <2>1. \A f \in Sends : \/ exec'[f] = exec[f]
                         \/ Live(f) /\ \E reason \in {"cancel", "shutdown"} :
                                         exec'[f] = Aborted(exec[f], reason)
    BY <1>5
  <2> QED BY <1>1, <1>3, <1>7, <2>1, AbortsKeep
<1>10. RegistryOk'
  <2> SUFFICES ASSUME NEW u \in Tasks, registry[u] # None
               PROVE  /\ Live(registry[u])' /\ exec'[registry[u]].task = u
                      /\ exec'[registry[u]].aborted # "shutdown"
    BY <1>1 DEF RegistryOk, TaskOf
  <2>1. /\ registry[u] \in Sends /\ Live(registry[u]) /\ exec[registry[u]].task = u
        /\ exec[registry[u]].aborted # "shutdown" /\ registry'[u] = registry[u]
    BY <1>1 DEF IInv, RegistryOk, TaskOf, TypeOK
  <2> QED BY <1>6, <2>1 DEF Live
<1>11. RequestsOk'
  <2>1. \A d \in Cancels : cancel'[d].pc # "idle" =>
          cancel'[d].task \in Tasks /\ tasks[cancel'[d].task] # None
    BY <1>2, <1>3 DEF IInv, RequestsOk
  <2>2. \A d \in Cancels : cancel'[d].pc = "cleaning" =>
          cancel[d].pc = "cleaning" /\ cancel'[d].task = cancel[d].task
    BY <1>2, <1>3
  <2> QED BY <1>1, <2>1, <2>2 DEF IInv, RequestsOk, Wrote
<1>12. LiveIsRegistered'
  <2> SUFFICES ASSUME NEW f \in Sends, Live(f)', exec'[f].aborted # "shutdown",
                      ~Contended(f)', server' # "closed"
               PROVE  registry'[exec'[f].task] = f
    BY DEF LiveIsRegistered, TaskOf
  <2>1. Live(f) /\ exec[f].aborted # "shutdown"
    BY <1>6 DEF Live
  <2>2. \A g \in Sends : exec[g].promoted => exec'[g].promoted /\ exec'[g].task = exec[g].task
    BY <1>6
  <2>3. \A d \in Cancels, u \in Tasks : Wrote(d, u) => Wrote(d, u)'
    BY <1>1 DEF Wrote
  <2> QED BY <1>1, <1>6, <2>1, <2>2, <2>3, LiveKept
<1> QED BY <1>8, <1>9, <1>10, <1>11, <1>12 DEF IInv

LEMMA CloseKeeps ==
  ASSUME IInv, Close
  PROVE  IInv'
<1>1. /\ server' = "closed" /\ UNCHANGED <<tasks, modes, reply>>
      /\ exec' = [e \in Sends |-> IF \E t \in Tasks : registry[t] = e
                                    THEN Aborted(exec[e], "shutdown") ELSE exec[e]]
      /\ registry' = [t \in Tasks |-> None]
      /\ cancel' = [c \in Cancels |-> [cancel[c] EXCEPT !.open = FALSE]]
      /\ watcher' = [w \in Watchers |->
                       IF watcher[w].pc = "tailing"
                         THEN [watcher[w] EXCEPT !.pc = "closed"] ELSE watcher[w]]
  BY DEF Close
<1>2. \A f \in Sends : \/ exec'[f] = exec[f]
                       \/ Live(f) /\ exec'[f] = Aborted(exec[f], "shutdown")
  <2>1. ASSUME NEW f \in Sends, NEW t \in Tasks, registry[t] = f PROVE Live(f)
    BY <2>1, RequestAssumption DEF IInv, RegistryOk
  <2> QED BY <1>1, <2>1
<1>3. exec' \in [Sends -> Execution]
  <2>1. \A f \in Sends : exec'[f] \in Execution
    BY <1>2, ExecTyped, AbortedIs
  <2>2. DOMAIN exec' = Sends /\ exec' = [f \in Sends |-> exec'[f]]
    BY <1>1
  <2> QED BY <2>1, <2>2
<1>4. \A c \in Cancels :
        /\ [cancel[c] EXCEPT !.open = FALSE] \in CancelRequests
        /\ [cancel[c] EXCEPT !.open = FALSE].pc = cancel[c].pc
        /\ [cancel[c] EXCEPT !.open = FALSE].task = cancel[c].task
  BY DEF IInv, TypeOK, CancelRequests
<1>5. \A c \in Cancels : /\ cancel'[c] \in CancelRequests
                         /\ cancel'[c].pc = cancel[c].pc /\ cancel'[c].task = cancel[c].task
  BY <1>1, <1>4
<1>6. \A w \in Watchers :
        /\ [watcher[w] EXCEPT !.pc = "closed"] \in ResubscribeRequests
        /\ [watcher[w] EXCEPT !.pc = "closed"].task = watcher[w].task
  BY DEF IInv, TypeOK, ResubscribeRequests
<1>7. \A w \in Watchers : /\ watcher'[w] \in ResubscribeRequests
                          /\ watcher'[w].pc # "idle" => watcher[w].pc # "idle"
                          /\ watcher'[w].task = watcher[w].task
  BY <1>1, <1>6 DEF IInv, TypeOK
<1>8. TypeOK'
  <2>1. cancel' \in [Cancels -> CancelRequests]
    BY <1>1, <1>4
  <2>2. watcher' \in [Watchers -> ResubscribeRequests]
    <3>1. DOMAIN watcher' = Watchers /\ watcher' = [w \in Watchers |-> watcher'[w]]
      BY <1>1
    <3> QED BY <1>7, <3>1
  <2> QED BY <1>1, <1>3, <2>1, <2>2 DEF IInv, TypeOK
<1>9. /\ \A f \in Sends : ExecOk(f)'
      /\ \A t \in Tasks : tasks'[t] # None => LogOk(t)'
  <2>1. \A f \in Sends : \/ exec'[f] = exec[f]
                         \/ Live(f) /\ \E reason \in {"cancel", "shutdown"} :
                                         exec'[f] = Aborted(exec[f], reason)
    BY <1>2
  <2> QED BY <1>1, <1>3, <1>5, <2>1, AbortsKeep
<1>10. RegistryOk' /\ LiveIsRegistered'
  BY <1>1 DEF RegistryOk, LiveIsRegistered
<1>11. RequestsOk'
  BY <1>1, <1>5, <1>7 DEF IInv, RequestsOk, Wrote
<1> QED BY <1>8, <1>9, <1>10, <1>11 DEF IInv

LEMMA CrashKeeps ==
  ASSUME IInv, Crash
  PROVE  IInv'
<1> DEFINE lost(e) == [exec[e] EXCEPT !.pc = "lost", !.reader = "lost", !.bus = <<>>]
<1>1. /\ server' = "restarted" /\ UNCHANGED <<tasks, reply>>
      /\ exec' = [e \in Sends |-> IF exec[e].pc = "idle" THEN exec[e] ELSE lost(e)]
      /\ cancel' = [c \in Cancels |-> Gone(cancel[c])]
      /\ watcher' = [w \in Watchers |-> Gone(watcher[w])]
      /\ registry' = [t \in Tasks |-> None]
      /\ modes' = [m \in DOMAIN modes |-> None]
  BY DEF Crash
<1>2. ASSUME NEW e \in Sends
      PROVE  LET x == exec[e]
                 r == lost(e)
             IN  /\ r \in Execution /\ r.pc = "lost" /\ r.reader = "lost" /\ r.bus = <<>>
                 /\ r.final = x.final /\ r.promoted = x.promoted /\ r.paused = x.paused
                 /\ r.task = x.task /\ r.continues = x.continues
                 /\ r.aborted = x.aborted /\ r.answer = x.answer
  <2>1. exec[e] \in Execution /\ <<>> \in Seq(Event)
    BY ExecTyped
  <2> QED BY <2>1 DEF Execution
<1> HIDE DEF lost
<1>3. exec' \in [Sends -> Execution]
  BY <1>1, <1>2, ExecTyped
<1>4. ASSUME NEW e \in Sends PROVE ExecOk(e)' /\ Same(exec[e], exec'[e])
  <2>1. CASE exec[e].pc = "idle"
    <3>1. exec'[e] = exec[e]
      BY <1>1, <2>1
    <3> QED BY <1>1, <3>1 DEF IInv, ExecOk, Same
  <2>2. CASE exec[e].pc # "idle"
    <3>1. exec'[e] = lost(e)
      BY <1>1, <2>2
    <3>2. /\ exec[e].answer = "message" => ~exec[e].promoted
          /\ exec[e].aborted # "no" => exec[e].promoted
          /\ exec[e].task # e => tasks[exec[e].task] # None /\ exec[e].continues
      BY <2>2, ExecTyped DEF ExecOk
    <3>3. BusOk(lost(e), e)
      BY <1>2 DEF BusOk
    <3>4. ExecOk(e)'
      BY <1>1, <1>2, <3>1, <3>2, <3>3 DEF ExecOk, Over
    <3>5. Same(exec[e], exec'[e])
      BY <1>2, <3>1 DEF Same, Over
    <3> QED BY <3>4, <3>5
  <2> QED BY <2>1, <2>2
<1>5. \A c \in Cancels :
        /\ Gone(cancel[c]) \in CancelRequests /\ Gone(cancel[c]).task = cancel[c].task
        /\ cancel[c].pc = "idle" => Gone(cancel[c]).pc = "idle"
        /\ cancel[c].pc # "idle" => Gone(cancel[c]).pc = "lost"
  BY DEF IInv, TypeOK, CancelRequests, Gone
<1>6. \A w \in Watchers :
        /\ Gone(watcher[w]) \in ResubscribeRequests /\ Gone(watcher[w]).task = watcher[w].task
        /\ watcher[w].pc = "idle" => Gone(watcher[w]).pc = "idle"
        /\ watcher[w].pc # "idle" => Gone(watcher[w]).pc = "lost"
  BY DEF IInv, TypeOK, ResubscribeRequests, Gone
<1>7. TypeOK'
  BY <1>1, <1>3, <1>5, <1>6 DEF IInv, TypeOK
<1>8. ASSUME NEW t \in Tasks, tasks'[t] # None PROVE LogOk(t)'
  <2>1. \A c \in Cancels : cancel[c].pc \in HasWritten => cancel'[c].pc \in HasWritten
    BY <1>1, <1>5 DEF HasWritten
  <2> QED BY <1>1, <1>4, <1>8, <2>1, LogsKept
<1>9. RegistryOk'
  BY <1>1 DEF RegistryOk
<1>10. LiveIsRegistered'
  <2>1. \A e \in Sends : ~Live(e)'
    BY <1>1, <1>2 DEF Live
  <2> QED BY <2>1 DEF LiveIsRegistered
<1>11. RequestsOk'
  BY <1>1, <1>5, <1>6 DEF IInv, RequestsOk, Wrote
<1> QED BY <1>4, <1>7, <1>8, <1>9, <1>10, <1>11 DEF IInv

-----------------------------------------------------------------------------
(* The invariant, and what follows from it.                                *)

LEMMA InitHolds == Init => IInv
<1> SUFFICES ASSUME Init PROVE IInv
  OBVIOUS
<1>1. ASSUME NEW e \in Sends
      PROVE  LET x == Idle(e) IN
             /\ x \in Execution /\ x.bus = <<>> /\ x.pc = "idle" /\ x.task = e
             /\ ~x.promoted /\ ~x.final /\ ~x.working /\ ~x.paused /\ x.stages <= x.events
             /\ x.aborted = "no" /\ x.reader = "none" /\ x.answer = None
  <2>1. <<>> \in Seq(Event) /\ {} \in SUBSET ArtifactIds /\ 0 \in 0..MaxEvents
    BY LifecycleAssumption
  <2> QED BY <2>1 DEF Idle, Execution, Tasks
<1>2. exec \in [Sends -> Execution] /\ \A e \in Sends : exec[e] = Idle(e)
  BY <1>1 DEF Init
<1>3. ASSUME NEW e \in Sends PROVE ExecOk(e)
  <2> DEFINE x == exec[e]
  <2>1. /\ x.bus = <<>> /\ x.pc = "idle" /\ x.task = e
        /\ ~x.promoted /\ ~x.final /\ ~x.working /\ ~x.paused /\ x.stages <= x.events
        /\ x.aborted = "no" /\ x.reader = "none" /\ x.answer = None
    BY <1>1, <1>2
  <2>2. x.answer # "message"
    BY <2>1, RequestAssumption DEF Answers
  <2> HIDE DEF x
  <2>3. BusOk(x, e) /\ RunOk(x) /\ ~Over(x) /\ Known(x, tasks[x.task] # None)
    BY <2>1 DEF BusOk, RunOk, Over, Known
  <2> QED BY <2>1, <2>2, <2>3 DEF ExecOk, x
<1>4. /\ \A t \in Tasks : tasks[t] = None /\ registry[t] = None
      /\ \A c \in Cancels : cancel[c].pc = "idle"
      /\ \A w \in Watchers : watcher[w].pc = "idle"
  BY DEF Init
<1>5. cancel \in [Cancels -> CancelRequests] /\ watcher \in [Watchers -> ResubscribeRequests]
  BY DEF Init, CancelRequests, ResubscribeRequests
<1>6. TypeOK
  BY <1>2, <1>5 DEF Init, TypeOK
<1>7. LiveIsRegistered
  BY <1>1, <1>2 DEF LiveIsRegistered, Live
<1> QED BY <1>3, <1>4, <1>6, <1>7 DEF IInv, RegistryOk, RequestsOk

LEMMA StepHolds == IInv /\ [Next]_vars => IInv'
<1> SUFFICES ASSUME IInv, [Next]_vars PROVE IInv'
  OBVIOUS
<1>1. ASSUME NEW e \in Sends, NEW mode \in Modes, NEW t \in Targets[e], Send(e, mode, t)
      PROVE  IInv'
  BY <1>1, SendKeeps
<1>2. ASSUME NEW e \in Sends, HandleSend(e) PROVE IInv'
  BY <1>2, LoadKeeps, PersistKeeps, StartKeeps, CoordinatorStep, CommitKeeps, DrainKeeps,
     AnswerKeeps DEF HandleSend
<1>3. ASSUME NEW e \in Sends, AgentEvent(e) \/ DispatchEnds(e) PROVE IInv'
  BY <1>3, CoordinatorStep
<1>4. ASSUME NEW c \in Cancels, NEW t \in Tasks, RequestCancel(c, t) PROVE IInv'
  BY <1>4, RequestCancelKeeps
<1>5. ASSUME NEW c \in Cancels, HandleCancel(c) PROVE IInv'
  BY <1>5, CancelMoveKeeps, CancelRequestKeeps, QuiescentKeeps, CleanupKeeps DEF HandleCancel
<1>6. ASSUME NEW w \in Watchers,
             (\E t \in Tasks : Resubscribe(w, t)) \/ HandleResubscribe(w)
      PROVE  IInv'
  BY <1>6, ResubscribeKeeps
<1>7. ASSUME NEW q \in Replies, NEW t \in Tasks, DeliverQueuedReply(q, t) PROVE IInv'
  BY <1>7, DeliverKeeps
<1>8. CASE Close
  BY <1>8, CloseKeeps
<1>9. CASE Crash
  BY <1>9, CrashKeeps
<1>10. CASE UNCHANGED vars
  <2>1. UNCHANGED <<tasks, exec, registry, modes, cancel, watcher, reply, server>>
    BY <1>10 DEF vars
  <2>2. \A t \in Tasks : LogOk(t)' = LogOk(t)
    BY <2>1 DEF LogOk, EntryOk
  <2>3. \A f \in Sends : ExecOk(f)' = ExecOk(f)
    BY <2>1 DEF ExecOk
  <2>4. TypeOK' /\ RegistryOk' /\ RequestsOk' /\ LiveIsRegistered'
    BY <2>1 DEF IInv, TypeOK, RegistryOk, RequestsOk, LiveIsRegistered, Live, TaskOf, Wrote,
                Contended
  <2> QED BY <2>1, <2>2, <2>3, <2>4 DEF IInv
<1> QED BY <1>1, <1>2, <1>3, <1>4, <1>5, <1>6, <1>7, <1>8, <1>9, <1>10 DEF Next

\* The inductive invariant, in every reachable state.
THEOREM InvariantHolds == Spec => []IInv
  BY InitHolds, StepHolds, PTL DEF Spec

\* Every variable holds a value of its shape: no handler mixes up the kinds of
\* its results, and no execution runs for a request that never came in.
THEOREM TypeCorrect == Spec => []TypeOK
<1>1. IInv => TypeOK
  BY DEF IInv
<1> QED BY <1>1, InvariantHolds, PTL

\* LiveExecutionRegistry lists only executions that are running: a cancel or a
\* resubscribe never waits for one that is over.
THEOREM RegisteredCorrect == Spec => []RegisteredIsLive
<1>1. IInv => RegisteredIsLive
  BY DEF IInv, RegistryOk, RegisteredIsLive
<1> QED BY <1>1, InvariantHolds, PTL

\* A promoted execution can be found in the registry until it publishes its end,
\* pauses or the server closes, unless another request worked on its task.
THEOREM LiveCorrect == Spec => []LiveIsRegistered
<1>1. IInv => LiveIsRegistered
  BY DEF IInv
<1> QED BY <1>1, InvariantHolds, PTL

\* The handler of a send, which commits later than the coordinator publishes,
\* never finds the task of an event missing.
THEOREM CommitsCorrect == Spec => []CommitsKnownTask
<1>1. IInv => CommitsKnownTask
  BY DEF IInv, ExecOk, CommitsKnownTask
<1> QED BY <1>1, InvariantHolds, PTL

\* The statuses that are committed for one execution come in order, each at
\* most once, and nothing of it is committed behind its final status.
THEOREM StatusesCorrect == Spec => []StatusesInOrder
<1>1. IInv => StatusesInOrder
  <2> SUFFICES ASSUME IInv, NEW t \in Tasks, tasks[t] # None,
                      NEW i \in DOMAIN tasks[t].log, NEW j \in DOMAIN tasks[t].log,
                      i < j, tasks[t].log[i].by = tasks[t].log[j].by
               PROVE  Before(tasks[t].log[i], tasks[t].log[j])
    BY DEF StatusesInOrder, Before
  <2>1. LogOk(t)
    BY DEF IInv
  <2> QED BY <2>1 DEF LogOk
<1> QED BY <1>1, InvariantHolds, PTL

\* An execution ends its task as canceled exactly when a cancel reached it, and
\* does not end it once the server closed.
THEOREM FinalCorrect == Spec => []FinalMatchesAbort
<1>1. IInv => FinalMatchesAbort
  <2> SUFFICES ASSUME IInv, NEW t \in Tasks, tasks[t] # None, NEW i \in DOMAIN tasks[t].log,
                      tasks[t].log[i].final, tasks[t].log[i].by \in Sends
               PROVE  LET v == tasks[t].log[i] IN
                      /\ (v.state = "canceled") <=> (exec[v.by].aborted = "cancel")
                      /\ exec[v.by].aborted # "shutdown"
    BY DEF FinalMatchesAbort
  <2>1. EntryOk(tasks[t].log[i], t, exec, cancel)
    BY DEF IInv, LogOk
  <2> QED BY <2>1 DEF EntryOk, Tells
<1> QED BY <1>1, InvariantHolds, PTL

\* A send that was answered with a direct message left neither a task nor a live
\* execution behind.
THEOREM DirectCorrect == Spec => []DirectAnswerLeavesNoTask
<1>1. IInv => DirectAnswerLeavesNoTask
  <2> SUFFICES ASSUME IInv, NEW e \in Sends, exec[e].answer = "message", ~exec[e].continues
               PROVE  tasks[e] = None /\ registry[e] = None
    BY DEF DirectAnswerLeavesNoTask
  <2>1. ~exec[e].promoted
    BY ExecTyped DEF ExecOk
  <2>2. tasks[e] = None
    BY <2>1 DEF IInv, LogOk, Tasks
  <2>3. ASSUME registry[e] # None PROVE FALSE
    <3> DEFINE f == registry[e]
    <3>1. f \in Sends /\ Live(f) /\ exec[f].task = e
      BY <2>3 DEF IInv, TypeOK, RegistryOk, TaskOf, Tasks
    <3>2. f # e /\ exec[f].pc # "idle"
      BY <2>1, <3>1 DEF Live
    <3>3. tasks[e] # None
      BY <3>1, <3>2, ExecTyped DEF ExecOk
    <3> QED BY <2>2, <3>3
  <2> QED BY <2>2, <2>3
<1> QED BY <1>1, InvariantHolds, PTL

-----------------------------------------------------------------------------
(* A task that ended stays as it ended.                                    *)

\* The execution is past the check of the state of its task, and not done.
WorksOn(x, t) ==
  /\ x.task = t
  /\ \/ x.pc \in {"persisting", "starting", "preparing", "running"}
     \/ x.reader = "reading" /\ x.bus # <<>>

LEMMA RestKept ==
  ASSUME NEW t \in Tasks, AtRest(t), tasks'[t] # None, tasks'[t].state = tasks[t].state,
         \A e \in Sends : WorksOn(exec'[e], t) => WorksOn(exec[e], t),
         \A c \in Cancels : cancel'[c].task = t /\ cancel'[c].pc = "committing" =>
                              cancel[c].task = t /\ cancel[c].pc = "committing"
  PROVE  AtRest(t)' /\ tasks'[t].state = tasks[t].state
<1>1. \A e \in Sends : ~WorksOn(exec[e], t)
  BY DEF AtRest, InProgress, WorksOn, TaskOf
<1>2. \A c \in Cancels : ~(cancel[c].task = t /\ cancel[c].pc = "committing")
  BY DEF AtRest, InProgress
<1>3. ~InProgress(t)'
  BY <1>1, <1>2 DEF InProgress, WorksOn, TaskOf
<1> QED BY <1>3 DEF AtRest

LEMMA StepOnOther ==
  ASSUME IInv, NEW t \in Tasks, AtRest(t), NEW e \in Sends, NEW r,
         exec' = [exec EXCEPT ![e] = r], WorksOn(r, t) => WorksOn(exec[e], t),
         tasks'[t] = tasks[t], cancel' = cancel
  PROVE  AtRest(t)' /\ tasks'[t].state = tasks[t].state
<1>1. exec'[e] = r /\ \A f \in Sends \ {e} : exec'[f] = exec[f]
  BY ExecTyped
<1>2. tasks'[t] # None /\ tasks'[t].state = tasks[t].state
  BY DEF AtRest
<1>3. \A f \in Sends : WorksOn(exec'[f], t) => WorksOn(exec[f], t)
  BY <1>1
<1> QED BY <1>2, <1>3, RestKept

LEMMA SendsRest ==
  ASSUME IInv, NEW t \in Tasks, AtRest(t), NEW e \in Sends,
         \/ \E mode \in Modes, u \in Targets[e] : Send(e, mode, u)
         \/ LoadForFollowUp(e) \/ PersistIncomingMessage(e) \/ Start(e)
         \/ Drain(e) \/ Answer(e)
  PROVE  AtRest(t)' /\ tasks'[t].state = tasks[t].state
<1> DEFINE x == exec[e]
<1>1. x \in Execution /\ ExecOk(e) /\ DOMAIN exec = Sends
  BY ExecTyped
<1>2. tasks[t] # None /\ tasks[t].state \in Terminal /\ ~WorksOn(x, t)
  BY DEF AtRest, InProgress, WorksOn, TaskOf
<1>3. ASSUME NEW mode \in Modes, NEW u \in Targets[e], Send(e, mode, u)
      PROVE  AtRest(t)' /\ tasks'[t].state = tasks[t].state
  <2> DEFINE r == exec'[e]
  <2>1. x.pc = "idle" /\ ~x.promoted /\ x.bus = <<>>
    BY <1>1, <1>3 DEF Send, ExecOk, Over, RunOk
  <2>2. e # t
    BY <1>2, <2>1 DEF IInv, LogOk
  <2>3. r.task = u /\ r.bus = <<>> /\ r.pc = IF u = e THEN "starting" ELSE "loading"
    BY <1>1, <1>3, <2>1 DEF Send, Execution
  <2>4. ~WorksOn(r, t)
    BY <2>2, <2>3 DEF WorksOn
  <2>5. exec' = [exec EXCEPT ![e] = r] /\ tasks' = tasks /\ cancel' = cancel
    BY <1>1, <1>3 DEF Send, IInv, TypeOK
  <2> HIDE DEF r
  <2> QED BY <2>4, <2>5, StepOnOther
<1>4. CASE LoadForFollowUp(e)
  <2> DEFINE r == exec'[e]
  <2>0. \/ r = [x EXCEPT !.pc = "ended", !.reader = "answered", !.answer = "refused"]
        \/ r = [x EXCEPT !.pc = "persisting"] /\ tasks[x.task].state \notin Terminal
    BY <1>1, <1>4, LoadMoves
  <2>1. ~WorksOn(r, t)
    <3>1. r.task = x.task /\ r.bus = x.bus
      BY <1>1, <2>0 DEF Execution
    <3>2. CASE x.task = t
      <4>1. r.pc = "ended" /\ r.reader = "answered"
        BY <1>1, <1>2, <2>0, <3>2 DEF Execution
      <4> QED BY <4>1 DEF WorksOn
    <3>3. CASE x.task # t
      BY <3>1, <3>3 DEF WorksOn
    <3> QED BY <3>2, <3>3
  <2>2. exec' = [exec EXCEPT ![e] = r] /\ tasks' = tasks /\ cancel' = cancel
    BY <1>1, <1>4 DEF LoadForFollowUp, IInv, TypeOK
  <2> HIDE DEF r
  <2> QED BY <2>1, <2>2, StepOnOther
<1>5. CASE PersistIncomingMessage(e) \/ Start(e)
  <2> DEFINE r == exec'[e]
  <2>1. r.task = x.task /\ x.pc \in {"persisting", "starting"}
    BY <1>1, <1>5 DEF PersistIncomingMessage, Start, Execution
  <2>2. ~WorksOn(r, t)
    BY <1>2, <2>1 DEF WorksOn
  <2>3. exec' = [exec EXCEPT ![e] = r] /\ tasks' = tasks /\ cancel' = cancel
    BY <1>1, <1>5 DEF PersistIncomingMessage, Start, IInv, TypeOK
  <2> HIDE DEF r
  <2> QED BY <2>2, <2>3, StepOnOther
<1>6. CASE Drain(e) \/ Answer(e)
  <2> DEFINE r == exec'[e]
  <2>1. r.pc = "ended" /\ r.reader \in {"drained", "answered"}
    BY <1>1, <1>6 DEF Drain, Answer, Execution
  <2>2. ~WorksOn(r, t)
    BY <2>1 DEF WorksOn
  <2>3. exec' = [exec EXCEPT ![e] = r] /\ tasks' = tasks /\ cancel' = cancel
    BY <1>1, <1>6 DEF Drain, Answer, IInv, TypeOK
  <2> HIDE DEF r
  <2> QED BY <2>2, <2>3, StepOnOther
<1> QED BY <1>3, <1>4, <1>5, <1>6

LEMMA RunsRest ==
  ASSUME IInv, NEW t \in Tasks, AtRest(t), NEW e \in Sends,
         PrepareForExecution(e) \/ PreparationFails(e) \/ AgentEvent(e) \/ DispatchEnds(e)
  PROVE  AtRest(t)' /\ tasks'[t].state = tasks[t].state
<1>1. Coordinates(e)
  BY CoordinatorMoves
<1>2. PICK y \in Execution : StepOf(e, y) /\ Coordinated(e, y)
  BY <1>1 DEF Coordinates
<1>3. exec[e].pc \in {"preparing", "running"} /\ tasks' = tasks /\ cancel' = cancel
  BY <1>1 DEF Coordinates
<1>4. Released(y).task = exec[e].task
  BY <1>2, <1>3, StepFacts
<1>5. exec[e].task # t
  BY <1>3 DEF AtRest, InProgress, TaskOf
<1>6. exec' = [exec EXCEPT ![e] = Released(y)]
  BY <1>2 DEF Coordinated
<1>7. ~WorksOn(Released(y), t)
  BY <1>4, <1>5 DEF WorksOn
<1> QED BY <1>3, <1>6, <1>7, StepOnOther

LEMMA CommitsRest ==
  ASSUME IInv, NEW t \in Tasks, AtRest(t), NEW e \in Sends, CommitNext(e)
  PROVE  AtRest(t)' /\ tasks'[t].state = tasks[t].state
<1> DEFINE r == exec'[e]
<1>1. exec[e] \in Execution /\ exec[e].task \in Tasks /\ DOMAIN exec = Sends
  BY ExecTyped
<1>2. exec[e].task # t
  BY DEF AtRest, InProgress, TaskOf, CommitNext, Reading
<1>3. r.task = exec[e].task
  BY <1>1 DEF CommitNext, Execution
<1>4. ~WorksOn(r, t)
  BY <1>2, <1>3 DEF WorksOn
<1>5. exec' = [exec EXCEPT ![e] = r] /\ cancel' = cancel
  BY <1>1 DEF CommitNext, IInv, TypeOK
<1>6. tasks'[t] = tasks[t]
  BY <1>2 DEF CommitNext, TaskOf, IInv, TypeOK
<1> HIDE DEF r
<1> QED BY <1>4, <1>5, <1>6, StepOnOther

LEMMA CancelsRest ==
  ASSUME IInv, NEW t \in Tasks, AtRest(t), NEW c \in Cancels,
         (\E u \in Tasks : RequestCancel(c, u)) \/ HandleCancel(c)
  PROVE  AtRest(t)' /\ tasks'[t].state = tasks[t].state
<1> DEFINE x == cancel[c]
           u == x.task
<1>1. cancel \in [Cancels -> CancelRequests] /\ x \in CancelRequests
  BY DEF IInv, TypeOK
<1>2. /\ tasks[t] # None /\ tasks[t].state \in Terminal
      /\ ~(u = t /\ x.pc = "committing")
  BY DEF AtRest, InProgress
<1>3. tasks'[t] # None /\ tasks'[t].state = tasks[t].state
  <2>1. CASE CancelQuiescent(c)
    <3>1. tasks' = [tasks EXCEPT ![u] = Committed(@, Status(c, "canceled"))] /\ u # t
      BY <1>2, <2>1 DEF CancelQuiescent
    <3>2. tasks'[t] = tasks[t]
      BY <3>1 DEF IInv, TypeOK
    <3> QED BY <1>2, <3>2
  <2>2. CASE tasks' = tasks
    BY <1>2, <2>2
  <2> QED BY <2>1, <2>2 DEF RequestCancel, HandleCancel, CancelLoad, CancelReload,
        CancelSubscribe, CancelRequest, CancelTailEnds, CancelSettle, CancelCleanup, CancelRead
<1>4. \A e \in Sends : WorksOn(exec'[e], t) => WorksOn(exec[e], t)
  <2>1. CASE exec' = exec
    BY <2>1
  <2>2. CASE CancelRequest(c)
    <3>1. ASSUME NEW e \in Sends
          PROVE  /\ exec'[e].task = exec[e].task /\ exec'[e].pc = exec[e].pc
                 /\ exec'[e].reader = exec[e].reader /\ exec'[e].bus = exec[e].bus
      <4>1. exec'[e] = exec[e] \/ exec'[e] = Aborted(exec[e], "cancel")
        BY <2>2, ExecTyped DEF CancelRequest
      <4> QED BY <4>1, ExecTyped, AbortedIs
    <3> QED BY <3>1 DEF WorksOn
  <2> QED BY <2>1, <2>2 DEF RequestCancel, HandleCancel, CancelLoad, CancelReload,
        CancelSubscribe, CancelQuiescent, CancelTailEnds, CancelSettle, CancelCleanup, CancelRead
<1>loads. ASSUME CancelLoad(c) \/ CancelReload(c)
      PROVE  \/ \E answer \in {tasks[u].state, "refused"} : cancel' = Reply(c, answer)
             \/ \E pc \in {"committing", "reloading", "subscribing"} : cancel' = Arrive(c, pc)
  <2>1. tasks[u].state \in States
    <3>1. x.pc # "idle"
      BY <1>loads DEF CancelLoad, CancelReload
    <3> QED BY <3>1, MovedTyped DEF CommittedTask
  <2> QED BY <1>loads, <2>1 DEF CancelLoad, CancelReload, StateOf, States, Terminal,
                            Quiescent, Active
<1>5. \A d \in Cancels \ {c} : cancel'[d] = cancel[d]
  <2>1. CASE \E v \in Tasks : RequestCancel(c, v)
    BY <2>1 DEF RequestCancel, IInv, TypeOK
  <2>2. CASE CancelLoad(c) \/ CancelReload(c)
    BY <1>1, <1>loads, <2>2 DEF Reply, Arrive
  <2>3. CASE CancelSubscribe(c)
    BY <1>1, <2>3 DEF CancelSubscribe, Arrive
  <2>4. CASE CancelRequest(c) \/ CancelTailEnds(c) \/ CancelQuiescent(c) \/ CancelCleanup(c)
    BY <1>1, <2>4 DEF CancelRequest, CancelTailEnds, CancelQuiescent, CancelCleanup, Arrive
  <2>5. CASE CancelSettle(c) \/ CancelRead(c)
    BY <1>1, <2>5 DEF CancelSettle, CancelRead, Reply
  <2> QED BY <2>1, <2>2, <2>3, <2>4, <2>5 DEF HandleCancel
<1>6. ~(cancel'[c].task = t /\ cancel'[c].pc = "committing")
  <2>1. ASSUME NEW v \in Tasks, RequestCancel(c, v) PROVE cancel'[c].pc # "committing"
    BY <1>1, <2>1 DEF RequestCancel, CancelRequests
  <2>2. ASSUME CancelLoad(c) \/ CancelReload(c), u = t PROVE cancel'[c].pc # "committing"
    <3>1. cancel' = Reply(c, tasks[t].state)
      BY <1>2, <2>2 DEF CancelLoad, CancelReload, StateOf, Terminal, Quiescent, Active
    <3> QED BY <1>1, <3>1 DEF Reply, CancelRequests
  <2>3. ASSUME CancelLoad(c) \/ CancelReload(c) PROVE cancel'[c].task = u
    BY <1>1, <1>loads, <2>3 DEF Reply, Arrive, CancelRequests
  <2>4. ASSUME \/ CancelSubscribe(c) \/ CancelRequest(c) \/ CancelTailEnds(c)
               \/ CancelSettle(c) \/ CancelQuiescent(c) \/ CancelCleanup(c) \/ CancelRead(c)
        PROVE  cancel'[c].pc # "committing"
    BY <1>1, <2>4 DEF CancelSubscribe, CancelRequest, CancelTailEnds, CancelSettle,
         CancelQuiescent, CancelCleanup, CancelRead, Arrive, Reply, CancelRequests
  <2> QED BY <2>1, <2>2, <2>3, <2>4 DEF HandleCancel
<1>7. \A d \in Cancels : cancel'[d].task = t /\ cancel'[d].pc = "committing" =>
        cancel[d].task = t /\ cancel[d].pc = "committing"
  BY <1>5, <1>6
<1> QED BY <1>3, <1>4, <1>7, RestKept

LEMMA OthersRest ==
  ASSUME IInv, NEW t \in Tasks, AtRest(t),
         \/ \E w \in Watchers : (\E u \in Tasks : Resubscribe(w, u)) \/ HandleResubscribe(w)
         \/ \E q \in Replies, u \in Tasks : DeliverQueuedReply(q, u)
         \/ Close \/ Crash \/ UNCHANGED vars
  PROVE  AtRest(t)' /\ tasks'[t].state = tasks[t].state
<1>1. tasks[t] # None
  BY DEF AtRest
<1>2. ASSUME NEW q \in Replies, NEW u \in Tasks, DeliverQueuedReply(q, u)
      PROVE  AtRest(t)' /\ tasks'[t].state = tasks[t].state
  <2> DEFINE v == Artifact(q, <<"reply", q>>)
             task == Committed(tasks[u], v)
  <2>1. v \in Event /\ v.kind = "artifact-update"
    <3>1. <<"reply", q>> \in ArtifactIds
      BY DEF ArtifactIds
    <3> QED BY <3>1, ArtifactEvent
  <2>2. tasks[u] \in CommittedTask /\ tasks[u] # None
    BY <1>2 DEF DeliverQueuedReply, IInv, TypeOK
  <2>3. /\ tasks' = [tasks EXCEPT ![u] = Committed(@, v)] /\ exec' = exec /\ cancel' = cancel
    BY <1>2 DEF DeliverQueuedReply
  <2> HIDE DEF v
  <2>4. task \in CommittedTask /\ task.state = tasks[u].state
    BY <2>1, <2>2, CommittedIs
  <2>5. tasks' = [tasks EXCEPT ![u] = task]
    BY <2>3 DEF IInv, TypeOK
  <2> HIDE DEF task
  <2>6. tasks'[t] # None /\ tasks'[t].state = tasks[t].state
    BY <1>1, <2>4, <2>5, RequestAssumption DEF IInv, TypeOK
  <2> QED BY <2>3, <2>6, RestKept
<1>3. ASSUME tasks' = tasks, exec' = exec, cancel' = cancel
      PROVE  AtRest(t)' /\ tasks'[t].state = tasks[t].state
  BY <1>1, <1>3, RestKept
<1>4. CASE \E w \in Watchers : (\E u \in Tasks : Resubscribe(w, u)) \/ HandleResubscribe(w)
  BY <1>3, <1>4 DEF Resubscribe, HandleResubscribe, PrepareResubscribe, WatcherTailEnds
<1>5. CASE UNCHANGED vars
  BY <1>3, <1>5 DEF vars
<1>6. CASE Close
  <2>1. \A e \in Sends : WorksOn(exec'[e], t) => WorksOn(exec[e], t)
    <3>1. ASSUME NEW e \in Sends
          PROVE  /\ exec'[e].task = exec[e].task /\ exec'[e].pc = exec[e].pc
                 /\ exec'[e].reader = exec[e].reader /\ exec'[e].bus = exec[e].bus
      <4>1. exec'[e] = exec[e] \/ exec'[e] = Aborted(exec[e], "shutdown")
        BY <1>6 DEF Close
      <4> QED BY <4>1, ExecTyped, AbortedIs
    <3> QED BY <3>1 DEF WorksOn
  <2>2. \A c \in Cancels : cancel'[c].task = cancel[c].task /\ cancel'[c].pc = cancel[c].pc
    BY <1>6 DEF Close, IInv, TypeOK, CancelRequests
  <2>3. tasks' = tasks
    BY <1>6 DEF Close
  <2> QED BY <1>1, <2>1, <2>2, <2>3, RestKept
<1>7. CASE Crash
  <2>1. \A e \in Sends : WorksOn(exec'[e], t) => WorksOn(exec[e], t)
    <3>1. ASSUME NEW e \in Sends, exec[e].pc # "idle"
          PROVE  exec'[e].pc = "lost" /\ exec'[e].reader = "lost"
      <4>1. exec'[e] = [exec[e] EXCEPT !.pc = "lost", !.reader = "lost", !.bus = <<>>]
        BY <1>7, <3>1 DEF Crash
      <4> QED BY <4>1, ExecTyped DEF Execution
    <3>2. ASSUME NEW e \in Sends, exec[e].pc = "idle" PROVE exec'[e] = exec[e]
      BY <1>7, <3>2 DEF Crash
    <3> QED BY <3>1, <3>2 DEF WorksOn
  <2>2. \A c \in Cancels : cancel'[c].pc # "committing"
    BY <1>7 DEF Crash, Gone, IInv, TypeOK, CancelRequests
  <2>3. tasks' = tasks
    BY <1>7 DEF Crash
  <2> QED BY <1>1, <2>1, <2>2, <2>3, RestKept
<1> QED BY <1>2, <1>4, <1>5, <1>6, <1>7

\* A task that ended with no request under way stays as it ended: no path of
\* message/send or tasks/cancel leads to another commit of its state.
THEOREM EndedCorrect == Spec => EndedTaskStaysEnded
<1>1. ASSUME IInv, [Next]_vars, NEW t \in Tasks, AtRest(t)
      PROVE  AtRest(t)' /\ tasks'[t].state = tasks[t].state
  <2>1. CASE Next
    BY <1>1, <2>1, SendsRest, RunsRest, CommitsRest, CancelsRest, OthersRest
       DEF Next, HandleSend
  <2>2. CASE UNCHANGED vars
    BY <1>1, <2>2, OthersRest
  <2> QED BY <1>1, <2>1, <2>2
<1>2. IInv /\ [Next]_vars =>
        [\A t \in Tasks : AtRest(t) => AtRest(t)' /\ tasks'[t].state = tasks[t].state]_vars
  BY <1>1
<1> QED BY <1>2, InvariantHolds, PTL DEF Spec, EndedTaskStaysEnded

-----------------------------------------------------------------------------
(* What a blocking send answers.  The committed task and the bus are one   *)
(* story again: once an execution that has its task for itself published   *)
(* its end or its pause, either that status is still on the bus with       *)
(* nothing behind it that would make the task active again, or it was      *)
(* committed already (Rests).  The handler answers when the bus is empty.  *)

\* The execution works on the task that is named after its send, alone.
Own(e) == TaskOf(e) = e /\ \A f \in Sends \ {e} : TaskOf(f) # e

\* No event behind the first n of the bus b makes a task active.
Calm(b, n) == \A j \in DOMAIN b : j > n => b[j].state \notin Active

Rests(x, task) ==
  \/ task # None /\ task.state \notin Active /\ Calm(x.bus, 0)
  \/ \E i \in DOMAIN x.bus : Settling(x.bus[i]) /\ Calm(x.bus, i)

\* An execution that is over said so; its handler stops behind the end or with
\* an answer, and takes no answer of a blocking send from a task on the bus.
AnswerOk(x) ==
  /\ x.pc = "ended" /\ x.promoted /\ x.aborted # "shutdown" => x.final \/ x.paused
  /\ x.reader = "drained" => x.bus = <<>> \/ x.answer # None
  /\ x.mode # "non_blocking" /\ x.reader \notin {"answered", "lost"}
       => x.answer \in {None, "message"}
  /\ \A j \in DOMAIN x.bus : j > 1 => x.bus[j].kind # "task"

SettleOk(e) ==
  LET x == exec[e] IN
  /\ AnswerOk(x)
  /\ x.pc = "idle" => x.task = e /\ x.answer = None
  /\ tasks[e] # None => x.task = e
  /\ server = "up" => /\ x.aborted # "shutdown"
                      /\ Own(e) /\ (x.final \/ x.paused) => Rests(x, tasks[e])

SInv == (\A e \in Sends : SettleOk(e)) /\ BlockingAnswersSettled

Sole(e) == \A f \in Sends \ {e} : TaskOf(f) # TaskOf(e)

\* A step of one execution that keeps its request: the others see none of it.
LEMMA SettleStep ==
  ASSUME IInv, SInv, NEW e \in Sends, NEW r,
         exec' = [exec EXCEPT ![e] = r], r.task = exec[e].task, server' = server,
         \A f \in Sends \ {e} : tasks'[f] = tasks[f] \/ (exec[e].task = f /\ tasks[f] # None),
         AnswerOk(r), r.pc # "idle", tasks'[e] # None => r.task = e,
         server = "up" => /\ r.aborted # "shutdown"
                          /\ Own(e) /\ (r.final \/ r.paused) => Rests(r, tasks'[e]),
         r.mode # "non_blocking" /\ r.reader = "answered" /\ Sole(e) /\ server = "up"
           => r.answer \notin Active
  PROVE  SInv'
<1>1. exec'[e] = r /\ \A f \in Sends \ {e} : exec'[f] = exec[f]
  BY ExecTyped
<1>2. \A f \in Sends : exec'[f].task = exec[f].task
  BY <1>1
<1>3. \A f \in Sends : (Own(f)' <=> Own(f)) /\ (Sole(f)' <=> Sole(f))
  BY <1>2 DEF Own, Sole, TaskOf
<1>4. SettleOk(e)'
  BY <1>1, <1>3 DEF SettleOk
<1>5. ASSUME NEW f \in Sends \ {e} PROVE SettleOk(f)'
  <2>1. SettleOk(f) /\ exec'[f] = exec[f]
    BY <1>1 DEF SInv
  <2>2. CASE tasks'[f] = tasks[f]
    BY <1>3, <2>1, <2>2 DEF SettleOk
  <2>3. CASE exec[e].task = f /\ tasks[f] # None
    <3>1. ~Own(f)'
      BY <1>3, <2>3 DEF Own, TaskOf
    <3> QED BY <2>1, <2>3, <3>1 DEF SettleOk
  <2> QED BY <2>2, <2>3
<1>6. BlockingAnswersSettled'
  <2>1. ASSUME NEW f \in Sends, exec'[f].mode # "non_blocking", exec'[f].reader = "answered",
               Sole(f)', server = "up"
        PROVE  exec'[f].answer \notin Active
    <3>1. Sole(f)
      BY <1>3, <2>1
    <3>2. CASE f = e
      BY <1>1, <2>1, <3>1, <3>2
    <3>3. CASE f # e
      BY <1>1, <2>1, <3>1, <3>3 DEF SInv, BlockingAnswersSettled, Sole
    <3> QED BY <3>2, <3>3
  <2> QED BY <2>1 DEF BlockingAnswersSettled, Sole, TaskOf
<1> QED BY <1>4, <1>5, <1>6 DEF SInv

\* A step of no execution, which leaves every task active or not as it was, or
\* cancels it.
LEMMA TasksSettle ==
  ASSUME SInv, exec' = exec, server' = server,
         \A t \in Tasks : \/ tasks'[t] = tasks[t]
                          \/ /\ tasks[t] # None /\ tasks'[t] # None
                             /\ tasks'[t].state \in {tasks[t].state, "canceled"}
  PROVE  SInv'
<1>1. \A e \in Sends : Own(e)' <=> Own(e)
  BY DEF Own, TaskOf
<1>2. ASSUME NEW e \in Sends PROVE SettleOk(e)'
  <2>1. SettleOk(e)
    BY DEF SInv
  <2>2. Rests(exec[e], tasks[e]) => Rests(exec[e], tasks'[e])
    BY DEF Rests, Active, Tasks
  <2>3. tasks'[e] # None => tasks[e] # None
    BY DEF Tasks
  <2> QED BY <1>1, <2>1, <2>2, <2>3 DEF SettleOk
<1>3. BlockingAnswersSettled'
  BY DEF SInv, BlockingAnswersSettled, TaskOf
<1> QED BY <1>2, <1>3 DEF SInv

\* What a step of the coordinator says of the end and of the pause.
LEMMA StepMarks ==
  ASSUME IInv, NEW e \in Sends, exec[e].pc \in {"preparing", "running"},
         NEW y, StepOf(e, y)
  PROVE  LET x == exec[e]
             r == Released(y)
         IN
         /\ \A j \in DOMAIN r.bus : j > Len(x.bus) /\ r.bus[j].kind = "task" => ~x.promoted /\ j = 1
         /\ r.final \/ r.paused =>
              x.paused \/ \E j \in DOMAIN r.bus : j > Len(x.bus) /\ Settling(r.bus[j])
         /\ x.paused => r.final \/ r.paused
<1> DEFINE x == exec[e]
           z == [x EXCEPT !.pc = y.pc]
           r == Released(y)
<1>1. y \in Execution /\ Extends(z, y) /\ y.pc \in {"running", "ended"}
  BY DEF StepOf
<1>2. /\ Level(z) = Level(x) /\ z.promoted = x.promoted /\ z.paused = x.paused
      /\ z.final = x.final /\ z.bus = x.bus /\ ~x.final
  BY <1>1, RunningIsReady
<1>3. r.bus = y.bus /\ r.final = y.final /\ r.paused = y.paused
  BY <1>1, ReleasedFields
<1> HIDE DEF x, z, r
<1>4. Marks(z, y) /\ Level(x) <= Level(y)
  BY <1>1, <1>2 DEF Extends, Frame
<1>5. x.paused => r.final \/ r.paused
  BY <1>2, <1>3, <1>4 DEF Level
<1> QED BY <1>2, <1>3, <1>4, <1>5 DEF Marks, x, r

\* The execution publishes nothing that makes a task active behind its end or
\* its pause.
LEMMA CoordinatorRests ==
  ASSUME IInv, SInv, NEW e \in Sends, exec[e].pc \in {"preparing", "running"},
         NEW y, StepOf(e, y), server = "up", Own(e)
  PROVE  LET r == Released(y) IN r.final \/ r.paused => Rests(r, tasks[e])
<1> DEFINE x == exec[e]
           r == Released(y)
           n == Len(x.bus)
<1>1. /\ r \in Execution /\ BusOk(r, e) /\ n <= Len(r.bus) /\ n \in Nat
      /\ DOMAIN r.bus = 1..Len(r.bus) /\ DOMAIN x.bus = 1..n
      /\ ~x.final /\ RunOk(x)
      /\ \A i \in DOMAIN r.bus :
           IF i <= n THEN r.bus[i] = x.bus[i]
           ELSE r.bus[i].kind = "status-update" => Level(x) < Rank(r.bus[i].state)
  BY StepFacts
<1>2. /\ \A j \in DOMAIN r.bus : j > n /\ r.bus[j].kind = "task" => ~x.promoted /\ j = 1
      /\ r.final \/ r.paused => x.paused \/ \E j \in DOMAIN r.bus : j > n /\ Settling(r.bus[j])
  BY StepMarks
<1>3. SettleOk(e)
  BY DEF SInv
<1> HIDE DEF x, r, n
<1>4. \A j \in DOMAIN r.bus : r.bus[j] \in Event
  BY <1>1 DEF Execution
<1>5. \A j \in DOMAIN r.bus : r.bus[j].kind \notin {"task", "status-update"} =>
                                r.bus[j].state \notin Active
  BY <1>4 DEF Event, Active
<1>6. \A s \in States : /\ s \in Active => Rank(s) \in {1, 2}
                        /\ s \notin Active => Rank(s) \in {3, 4}
  BY DEF States, Active, Quiescent, Terminal, Rank
<1>7. \A j \in DOMAIN r.bus : r.bus[j].kind = "status-update" => r.bus[j].state \in States
  BY <1>4 DEF Event
<1>8. CASE x.paused
  <2>1. Level(x) = 3 /\ x.promoted
    BY <1>1, <1>8 DEF Level, RunOk
  <2>2. ASSUME NEW j \in DOMAIN r.bus, j > n PROVE r.bus[j].state \notin Active
    <3>1. r.bus[j].kind # "task"
      BY <1>2, <2>1, <2>2
    <3>2. r.bus[j].kind = "status-update" => 3 < Rank(r.bus[j].state)
      BY <1>1, <2>1, <2>2
    <3>3. CASE r.bus[j].kind = "status-update"
      BY <1>6, <1>7, <3>2, <3>3
    <3>4. CASE r.bus[j].kind # "status-update"
      BY <1>5, <3>1, <3>4
    <3> QED BY <3>3, <3>4
  <2>3. Rests(x, tasks[e])
    BY <1>3, <1>8 DEF SettleOk, x
  <2>4. \A i \in DOMAIN x.bus : i \in DOMAIN r.bus /\ r.bus[i] = x.bus[i]
    BY <1>1
  <2>5. \A m \in 0..n : Calm(x.bus, m) => Calm(r.bus, m)
    <3> SUFFICES ASSUME NEW m \in 0..n, Calm(x.bus, m), NEW j \in DOMAIN r.bus, j > m
                 PROVE  r.bus[j].state \notin Active
      BY DEF Calm
    <3>1. CASE j > n
      BY <2>2, <3>1
    <3>2. CASE j <= n
      <4>1. j \in DOMAIN x.bus
        BY <1>1, <3>2
      <4> QED BY <2>4, <4>1 DEF Calm
    <3> QED BY <1>1, <3>1, <3>2
  <2>6. CASE tasks[e] # None /\ tasks[e].state \notin Active /\ Calm(x.bus, 0)
    <3>1. 0 \in 0..n
      BY <1>1
    <3>2. Calm(r.bus, 0)
      BY <2>5, <2>6, <3>1
    <3>3. Rests(r, tasks[e])
      BY <2>6, <3>2 DEF Rests
    <3> QED BY <3>3 DEF r
  <2>7. CASE \E i \in DOMAIN x.bus : Settling(x.bus[i]) /\ Calm(x.bus, i)
    <3>1. PICK i \in DOMAIN x.bus : Settling(x.bus[i]) /\ Calm(x.bus, i)
      BY <2>7
    <3>2. i \in 0..n
      BY <1>1
    <3>3. Calm(r.bus, i) /\ Settling(r.bus[i]) /\ i \in DOMAIN r.bus
      BY <2>4, <2>5, <3>1, <3>2
    <3>4. Rests(r, tasks[e])
      BY <3>3 DEF Rests
    <3> QED BY <3>4 DEF r
  <2> QED BY <2>3, <2>6, <2>7 DEF Rests
<1>9. CASE ~x.paused /\ (r.final \/ r.paused)
  <2>1. PICK i \in DOMAIN r.bus : i > n /\ Settling(r.bus[i])
    BY <1>2, <1>9
  <2>2. Rank(r.bus[i].state) \in {3, 4} /\ r.bus[i].kind = "status-update"
    BY <1>6, <1>7, <2>1 DEF Settling
  <2>3. ASSUME NEW j \in DOMAIN r.bus, j > i PROVE r.bus[j].state \notin Active
    <3>1. r.bus[j].kind # "task"
      BY <1>1, <1>2, <2>1, <2>3
    <3>2. CASE r.bus[j].kind = "status-update"
      <4>1. Before(r.bus[i], r.bus[j])
        BY <1>1, <2>3 DEF BusOk
      <4>2. Rank(r.bus[i].state) < Rank(r.bus[j].state)
        BY <2>2, <3>2, <4>1 DEF Before
      <4> QED BY <1>6, <1>7, <2>2, <3>2, <4>2
    <3>3. CASE r.bus[j].kind # "status-update"
      BY <1>5, <3>1, <3>3
    <3> QED BY <3>2, <3>3
  <2>4. Rests(r, tasks[e])
    BY <2>1, <2>3 DEF Rests, Calm
  <2> QED BY <2>4 DEF r
<1> QED BY <1>8, <1>9 DEF r

\* A step of the coordinator settles what it ends or pauses.
LEMMA CoordinatorSettles ==
  ASSUME IInv, SInv, NEW e \in Sends, Coordinates(e)
  PROVE  SInv'
<1> DEFINE x == exec[e]
<1>1. /\ x.pc \in {"preparing", "running"} /\ tasks' = tasks /\ server' = server
  BY DEF Coordinates
<1>2. PICK y \in Execution : StepOf(e, y) /\ Coordinated(e, y)
  BY DEF Coordinates
<1> DEFINE r == Released(y)
<1>3. exec' = [exec EXCEPT ![e] = r]
  BY <1>2 DEF Coordinated
<1>4. /\ r \in Execution /\ r.task = x.task /\ r.mode = x.mode /\ r.aborted = x.aborted
      /\ r.reader = x.reader /\ r.answer = x.answer
      /\ x.reader \in {"none", "reading"} /\ r.pc \in {"running", "ended"}
      /\ r.pc = "ended" => (r.promoted /\ ~x.paused /\ x.aborted # "shutdown" => r.final)
      /\ DOMAIN r.bus = 1..Len(r.bus) /\ DOMAIN x.bus = 1..Len(x.bus)
      /\ Len(x.bus) \in Nat
      /\ \A i \in DOMAIN r.bus : i <= Len(x.bus) => r.bus[i] = x.bus[i]
  BY <1>1, <1>2, StepFacts
<1>5. /\ \A j \in DOMAIN r.bus : j > Len(x.bus) /\ r.bus[j].kind = "task" => j = 1
      /\ x.paused => r.final \/ r.paused
  BY <1>1, <1>2, StepMarks
<1>6. server = "up" /\ Own(e) /\ (r.final \/ r.paused) => Rests(r, tasks[e])
  BY <1>1, <1>2, CoordinatorRests
<1>7. SettleOk(e)
  BY DEF SInv
<1> HIDE DEF r, x
<1>8. AnswerOk(x) /\ (tasks[e] # None => x.task = e) /\ (server = "up" => x.aborted # "shutdown")
  BY <1>7 DEF SettleOk, x
<1>9. AnswerOk(r)
  <2>1. \A j \in DOMAIN r.bus : j > 1 => r.bus[j].kind # "task"
    <3> SUFFICES ASSUME NEW j \in DOMAIN r.bus, j > 1 PROVE r.bus[j].kind # "task"
      OBVIOUS
    <3>1. CASE j <= Len(x.bus)
      <4>1. j \in DOMAIN x.bus /\ r.bus[j] = x.bus[j]
        BY <1>4, <3>1
      <4> QED BY <1>8, <4>1 DEF AnswerOk
    <3>2. CASE j > Len(x.bus)
      BY <1>4, <1>5, <3>2
    <3> QED BY <1>4, <3>1, <3>2
  <2> QED BY <1>4, <1>5, <1>8, <2>1 DEF AnswerOk
<1>10. r.task = exec[e].task
  BY <1>4 DEF x
<1> QED BY <1>1, <1>3, <1>4, <1>6, <1>8, <1>9, <1>10, SettleStep

\* The handler takes the head of the bus to the task: what made the task rest is
\* still on the bus, or is the state that was committed.
LEMMA CommitSettles ==
  ASSUME IInv, SInv, NEW e \in Sends, CommitNext(e)
  PROVE  SInv'
<1> DEFINE x == exec[e]
           v == x.bus[1]
           rest == Tail(x.bus)
           t == x.task
           r == exec'[e]
           task == Committed(tasks[t], v)
<1>1. x \in Execution /\ t \in Tasks /\ ExecOk(e) /\ DOMAIN exec = Sends
  BY ExecTyped
<1>2. x.reader = "reading" /\ x.bus # <<>> /\ server' = server
  BY DEF CommitNext, Reading
<1>3. /\ v = Head(x.bus) /\ v \in Event /\ 1 \in DOMAIN x.bus
      /\ DOMAIN rest = 1..(Len(x.bus) - 1)
      /\ \A j \in DOMAIN rest : j + 1 \in DOMAIN x.bus /\ rest[j] = x.bus[j + 1]
      /\ \A j \in DOMAIN rest : Before(v, rest[j])
      /\ v.kind \notin {"message", "task"} => tasks[t] # None
      /\ v.kind # "message" => x.promoted
      /\ tasks[t] = None => t = e
  BY <1>2, NextEvent
<1>4. /\ Len(x.bus) \in Nat /\ DOMAIN x.bus = 1..Len(x.bus) /\ rest \in Seq(Event)
      /\ Len(x.bus) = 1 => rest = <<>>
  <2>1. x.bus \in Seq(Event)
    BY <1>1 DEF Execution
  <2>2. Len(x.bus) \in Nat /\ DOMAIN x.bus = 1..Len(x.bus)
    BY <2>1
  <2>3. rest \in Seq(Event) /\ Len(rest) = Len(x.bus) - 1
    BY <1>2, <2>1, HeadTailProperties
  <2> HIDE DEF rest
  <2>4. Len(x.bus) = 1 => rest = <<>>
    BY <2>3, EmptySeq
  <2> QED BY <2>2, <2>3, <2>4
<1>5. /\ exec' = [exec EXCEPT ![e] = r]
      /\ r = [x EXCEPT !.bus = rest,
                       !.reader = IF Stops(v) THEN "drained" ELSE @,
                       !.answer = FirstResult(e, v)]
  BY <1>1, <1>3 DEF CommitNext, IInv, TypeOK, TaskOf
<1>6. tasks' = IF v.kind = "message" THEN tasks ELSE [tasks EXCEPT ![t] = task]
  BY <1>3 DEF CommitNext, TaskOf, IInv, TypeOK
<1>7. /\ r.bus = rest /\ r.answer = FirstResult(e, v) /\ r.pc = x.pc /\ r.task = t
      /\ r.reader = (IF Stops(v) THEN "drained" ELSE "reading")
      /\ r.promoted = x.promoted /\ r.final = x.final /\ r.paused = x.paused
      /\ r.aborted = x.aborted /\ r.mode = x.mode
  BY <1>1, <1>2, <1>5 DEF Execution
<1>8. /\ AnswerOk(x) /\ (tasks[e] # None => t = e)
      /\ server = "up" => /\ x.aborted # "shutdown"
                          /\ Own(e) /\ (x.final \/ x.paused) => Rests(x, tasks[e])
  BY DEF SInv, SettleOk
<1>9. None # "message" /\ None \notin CommittedTask
  BY RequestAssumption DEF Answers
<1>10. v.kind # "message" =>
         /\ tasks'[t] = task /\ task # None
         /\ v.kind \in {"task", "status-update"} => task.state = v.state
         /\ v.kind = "artifact-update" => task.state = tasks[t].state
  <2> SUFFICES ASSUME v.kind # "message"
               PROVE  /\ tasks'[t] = task /\ task # None
                      /\ v.kind \in {"task", "status-update"} => task.state = v.state
                      /\ v.kind = "artifact-update" => task.state = tasks[t].state
    OBVIOUS
  <2>1. tasks[t] \in CommittedTask \union {None} /\ (tasks[t] = None => v.kind = "task")
    BY <1>1, <1>3 DEF IInv, TypeOK
  <2>2. tasks'[t] = task
    BY <1>1, <1>6 DEF IInv, TypeOK
  <2>3. task \in CommittedTask /\ (v.kind = "status-update" => task.state = v.state)
        /\ (v.kind = "artifact-update" => task.state = tasks[t].state)
    BY <1>3, <2>1, CommittedIs
  <2>4. v.kind = "task" => task.state = v.state
    BY DEF Committed
  <2> QED BY <1>9, <2>2, <2>3, <2>4
<1>11. \A f \in Sends \ {e} : tasks'[f] = tasks[f] \/ (t = f /\ tasks[f] # None)
  BY <1>1, <1>3, <1>6 DEF IInv, TypeOK, Tasks
<1>12. v.kind = "artifact-update" => v.state \notin Active
  BY <1>3 DEF Event, Active
<1>13. v.kind \in {"task", "status-update", "artifact-update", "message"}
  BY <1>3 DEF Event
<1> HIDE DEF x, v, rest, t, r, task
<1>14. AnswerOk(r)
  <2>1. v.kind = "message" => FirstResult(e, v) = "message"
    BY DEF FirstResult
  <2>2. v.final => rest = <<>>
    <3>1. v.final => DOMAIN rest = {}
      BY <1>3 DEF Before
    <3> QED BY <1>3, <1>4, <3>1
  <2>3. r.reader = "drained" => r.bus = <<>> \/ r.answer # None
    BY <1>7, <1>9, <2>1, <2>2 DEF Stops
  <2>4. r.mode # "non_blocking" => r.answer \in {None, "message"}
    BY <1>2, <1>7, <1>8 DEF AnswerOk, FirstResult, x
  <2>5. \A j \in DOMAIN rest : rest[j].kind # "task"
    <3> SUFFICES ASSUME NEW j \in DOMAIN rest PROVE rest[j].kind # "task"
      OBVIOUS
    <3>1. j + 1 > 1
      BY <1>3, <1>4
    <3> QED BY <1>3, <1>8, <3>1 DEF AnswerOk
  <2> QED BY <1>7, <1>8, <2>3, <2>4, <2>5 DEF AnswerOk
<1>15. ASSUME Rests(x, tasks[e]), t = e PROVE Rests(r, tasks'[e])
  <2>1. \A m \in Nat : Calm(x.bus, m + 1) => Calm(rest, m)
    <3> SUFFICES ASSUME NEW m \in Nat, Calm(x.bus, m + 1), NEW j \in DOMAIN rest, j > m
                 PROVE  rest[j].state \notin Active
      BY DEF Calm
    <3>1. j + 1 > m + 1
      BY <1>3, <1>4
    <3> QED BY <1>3, <3>1 DEF Calm
  <2>2. Calm(x.bus, 0) => Calm(rest, 0) /\ v.state \notin Active
    <3>1. Calm(x.bus, 0) => Calm(x.bus, 0 + 1)
      BY <1>4 DEF Calm
    <3>2. Calm(x.bus, 0) => v.state \notin Active
      BY <1>3 DEF Calm, v
    <3> QED BY <2>1, <3>1, <3>2
  <2>3. CASE tasks[e] # None /\ tasks[e].state \notin Active /\ Calm(x.bus, 0)
    <3>1. tasks'[e] # None /\ tasks'[e].state \notin Active
      <4>1. CASE v.kind = "message"
        BY <1>6, <2>3, <4>1
      <4>2. CASE v.kind # "message"
        BY <1>10, <1>13, <1>15, <2>2, <2>3, <4>2
      <4> QED BY <4>1, <4>2
    <3> QED BY <1>7, <2>2, <2>3, <3>1 DEF Rests
  <2>4. CASE \E i \in DOMAIN x.bus : Settling(x.bus[i]) /\ Calm(x.bus, i)
    <3>1. PICK i \in DOMAIN x.bus : Settling(x.bus[i]) /\ Calm(x.bus, i)
      BY <2>4
    <3>2. CASE i = 1
      <4>1. tasks'[e] # None /\ tasks'[e].state \notin Active
        BY <1>10, <1>15, <3>1, <3>2 DEF Settling, v
      <4>2. Calm(rest, 0)
        BY <2>1, <3>1, <3>2
      <4> QED BY <1>7, <4>1, <4>2 DEF Rests
    <3>3. CASE i # 1
      <4>1. i - 1 \in DOMAIN rest /\ i - 1 \in Nat /\ (i - 1) + 1 = i
        BY <1>3, <1>4, <3>3
      <4>2. Settling(rest[i - 1]) /\ Calm(rest, i - 1)
        BY <1>3, <2>1, <3>1, <4>1
      <4> QED BY <1>7, <4>1, <4>2 DEF Rests
    <3> QED BY <3>2, <3>3
  <2> QED BY <1>15, <2>3, <2>4 DEF Rests
<1>16. tasks'[e] # None => t = e
  BY <1>8, <1>11, <1>6, <1>1 DEF IInv, TypeOK, Tasks
<1>17. Own(e) => t = e
  BY DEF Own, TaskOf, t, x
<1>18. r.pc # "idle"
  <2>1. x.promoted \/ HasMessage(x)
    BY <1>3, <1>13 DEF HasMessage, v
  <2>2. ExecOk(e)
    BY <1>1
  <2> QED BY <1>7, <2>1, <2>2 DEF ExecOk, HasMessage, Over, x
<1>19. r.reader # "answered" /\ r.task = exec[e].task
  BY <1>7 DEF t, x
<1> QED BY <1>2, <1>5, <1>7, <1>8, <1>11, <1>14, <1>15, <1>16, <1>17, <1>18, <1>19, SettleStep
        DEF t, x

\* The handler answers once the bus is empty and execute() returned: by then the
\* end or the pause of its own task is committed.
LEMMA AnswerSettles ==
  ASSUME IInv, SInv, NEW e \in Sends, Answer(e)
  PROVE  SInv'
<1> DEFINE x == exec[e]
           r == exec'[e]
<1>1. x \in Execution /\ x.task \in Tasks /\ ExecOk(e) /\ DOMAIN exec = Sends
  BY ExecTyped
<1>2. /\ x.reader = "drained" /\ x.pc = "ended" /\ server' = server /\ tasks' = tasks
  BY <1>1 DEF Answer, ExecOk
<1>3. exec' = [exec EXCEPT ![e] = r]
  BY <1>1 DEF Answer, IInv, TypeOK
<1>4. /\ r.task = x.task /\ r.pc = "ended" /\ r.bus = x.bus /\ r.promoted = x.promoted
      /\ r.final = x.final /\ r.paused = x.paused /\ r.aborted = x.aborted
      /\ r.mode = x.mode /\ r.reader = "answered"
      /\ r.answer = IF x.answer # None THEN x.answer
                    ELSE IF x.rejected \/ tasks[x.task] = None THEN "error"
                         ELSE tasks[x.task].state
  BY <1>1, <1>2 DEF Answer, TaskOf, Execution
<1>5. /\ AnswerOk(x) /\ (tasks[e] # None => x.task = e)
      /\ server = "up" => /\ x.aborted # "shutdown"
                          /\ Own(e) /\ (x.final \/ x.paused) => Rests(x, tasks[e])
  BY DEF SInv, SettleOk
<1> HIDE DEF r
<1>6. AnswerOk(r)
  BY <1>2, <1>4, <1>5 DEF AnswerOk
<1>7. Own(e) /\ server = "up" /\ (r.final \/ r.paused) => Rests(r, tasks'[e])
  BY <1>2, <1>4, <1>5 DEF Rests
<1>8. ASSUME x.mode # "non_blocking", Sole(e), server = "up" PROVE r.answer \notin Active
  <2>1. CASE x.answer # None
    <3>1. r.answer = "message"
      BY <1>2, <1>4, <1>5, <1>8, <2>1 DEF AnswerOk
    <3> QED BY <3>1 DEF Active
  <2>2. CASE x.answer = None /\ (x.rejected \/ tasks[x.task] = None)
    <3>1. r.answer = "error"
      BY <1>4, <2>2
    <3> QED BY <3>1 DEF Active
  <2>3. CASE x.answer = None /\ ~x.rejected /\ tasks[x.task] # None
    <3>1. x.task = e
      <4>1. SettleOk(x.task)
        BY <1>1 DEF SInv, Tasks
      <4>2. exec[x.task].task = x.task
        BY <2>3, <4>1 DEF SettleOk
      <4> QED BY <1>1, <1>8, <4>2 DEF Sole, TaskOf, Tasks
    <3>2. Own(e)
      BY <1>8, <3>1 DEF Own, Sole, TaskOf
    <3>3. x.promoted
      <4>1. LogOk(e)
        BY <2>3, <3>1 DEF IInv, Tasks
      <4> QED BY <4>1 DEF LogOk
    <3>4. x.final \/ x.paused
      BY <1>2, <1>5, <1>8, <3>3 DEF AnswerOk
    <3>5. Rests(x, tasks[e]) /\ x.bus = <<>>
      BY <1>2, <1>5, <1>8, <2>3, <3>2, <3>4 DEF AnswerOk
    <3>6. tasks[e].state \notin Active
      BY <3>5 DEF Rests
    <3> QED BY <1>4, <2>3, <3>1, <3>6
  <2> QED BY <2>1, <2>2, <2>3
<1>9. r.pc # "idle" /\ r.task = exec[e].task /\ (tasks'[e] # None => r.task = e)
  BY <1>2, <1>4, <1>5
<1> HIDE DEF r
<1> QED BY <1>2, <1>3, <1>4, <1>5, <1>6, <1>7, <1>8, <1>9, SettleStep

\* The other steps of a send publish nothing and end nothing.
LEMMA RequestSettles ==
  ASSUME IInv, SInv, NEW e \in Sends,
         LoadForFollowUp(e) \/ PersistIncomingMessage(e) \/ Start(e) \/ Drain(e)
  PROVE  SInv'
<1> DEFINE x == exec[e]
           r == exec'[e]
<1>1. x \in Execution /\ x.task \in Tasks /\ ExecOk(e) /\ DOMAIN exec = Sends
  BY ExecTyped
<1>2. server' = server /\ tasks' = tasks
  BY DEF LoadForFollowUp, PersistIncomingMessage, Start, Drain
<1>3. exec' = [exec EXCEPT ![e] = r]
  BY <1>1 DEF LoadForFollowUp, PersistIncomingMessage, Start, Drain, IInv, TypeOK
<1>0. LoadForFollowUp(e) =>
        \/ r = [x EXCEPT !.pc = "ended", !.reader = "answered", !.answer = "refused"]
        \/ r = [x EXCEPT !.pc = "persisting"]
  BY <1>1, LoadMoves
<1>4. /\ r.task = x.task /\ r.bus = x.bus /\ r.promoted = x.promoted
      /\ r.final = x.final /\ r.paused = x.paused /\ r.aborted = x.aborted
      /\ r.mode = x.mode /\ r.pc # "idle"
  <2>1. CASE LoadForFollowUp(e)
    BY <1>0, <1>1, <2>1 DEF Execution
  <2>2. CASE PersistIncomingMessage(e) \/ Start(e) \/ Drain(e)
    BY <1>1, <2>2 DEF PersistIncomingMessage, Start, Drain, Execution
  <2> QED BY <2>1, <2>2
<1>5. /\ AnswerOk(x) /\ (tasks[e] # None => x.task = e)
      /\ server = "up" => /\ x.aborted # "shutdown"
                          /\ Own(e) /\ (x.final \/ x.paused) => Rests(x, tasks[e])
  BY DEF SInv, SettleOk
<1>6. AnswerOk(r) /\ (r.reader = "answered" => r.answer \notin Active)
  <2>1. CASE LoadForFollowUp(e)
    <3>1. ~x.promoted /\ x.reader \in {"none", "reading"}
      BY <1>1, <2>1 DEF LoadForFollowUp, ExecOk, Over
    <3>2. \/ r.reader = "answered" /\ r.answer = "refused"
          \/ r.reader = x.reader /\ r.answer = x.answer
      BY <1>0, <1>1, <2>1 DEF Execution
    <3> QED BY <1>4, <1>5, <3>1, <3>2 DEF AnswerOk, Active
  <2>2. CASE PersistIncomingMessage(e) \/ Start(e)
    <3>1. ~x.promoted /\ x.reader \in {"none", "reading"}
      BY <1>1, <2>2 DEF PersistIncomingMessage, Start, ExecOk, Over
    <3>2. r.reader \in {x.reader, "reading"} /\ r.answer = x.answer
      BY <1>1, <2>2 DEF PersistIncomingMessage, Start, Execution
    <3> QED BY <1>4, <1>5, <3>1, <3>2 DEF AnswerOk
  <2>3. CASE Drain(e)
    <3>1. x.bus = <<>> /\ x.reader = "reading" /\ x.pc = "ended"
      BY <2>3 DEF Drain, Reading
    <3>2. r.reader = "drained" /\ r.answer = x.answer /\ r.pc = x.pc
      BY <1>1, <2>3 DEF Drain, Execution
    <3> QED BY <1>4, <1>5, <3>1, <3>2 DEF AnswerOk
  <2> QED BY <2>1, <2>2, <2>3
<1>7. Rests(x, tasks[e]) => Rests(r, tasks'[e])
  BY <1>2, <1>4 DEF Rests
<1> HIDE DEF r
<1> QED BY <1>2, <1>3, <1>4, <1>5, <1>6, <1>7, SettleStep

\* A new request joins a task that it leaves alone for now.
LEMMA SendSettles ==
  ASSUME IInv, SInv, NEW e \in Sends, NEW mode \in Modes, NEW t \in Targets[e],
         Send(e, mode, t)
  PROVE  SInv'
<1> DEFINE x == exec[e]
           r == exec'[e]
<1>1. x \in Execution /\ ExecOk(e) /\ DOMAIN exec = Sends
  BY ExecTyped
<1>2. /\ x.pc = "idle" /\ server' = server /\ tasks' = tasks
      /\ \A f \in Sends \ {e} : exec'[f] = exec[f]
  BY <1>1 DEF Send
<1>3. ~x.promoted /\ x.bus = <<>> /\ x.reader \in {"none", "reading"}
      /\ ~x.final /\ ~x.paused
  BY <1>1, <1>2 DEF ExecOk, Over, RunOk
<1>4. /\ r.bus = x.bus /\ r.promoted = x.promoted /\ r.pc \in {"starting", "loading"}
      /\ r.final = x.final /\ r.paused = x.paused /\ r.aborted = x.aborted
      /\ r.reader = x.reader /\ r.answer = x.answer /\ r.task = t
  BY <1>1 DEF Send, Execution
<1>5. AnswerOk(x) /\ x.task = e /\ x.answer = None /\ (server = "up" => x.aborted # "shutdown")
  BY <1>2 DEF SInv, SettleOk
<1>6. tasks[e] = None
  BY <1>3 DEF IInv, LogOk, Tasks
<1>7. ASSUME NEW f \in Sends \ {e} PROVE TaskOf(f) # e
  <2>1. ExecOk(f) /\ SettleOk(f)
    BY ExecTyped DEF SInv
  <2> QED BY <1>6, <2>1 DEF ExecOk, SettleOk, TaskOf
<1>11. \A f \in Sends \ {e} : (Own(f)' => Own(f)) /\ (Sole(f)' => Sole(f))
  BY <1>2, <1>5, <1>7 DEF Own, Sole, TaskOf
<1> HIDE DEF x, r
<1>8. SettleOk(e)'
  <2>1. AnswerOk(r)
    BY <1>3, <1>4, <1>5 DEF AnswerOk
  <2> QED BY <1>2, <1>3, <1>4, <1>5, <1>6, <2>1 DEF SettleOk, r
<1>9. ASSUME NEW f \in Sends \ {e} PROVE SettleOk(f)'
  BY <1>2, <1>11 DEF SInv, SettleOk
<1>10. ASSUME NEW f \in Sends, exec'[f].mode # "non_blocking", exec'[f].reader = "answered",
              Sole(f)', server = "up"
       PROVE  exec'[f].answer \notin Active
  <2>1. f # e
    BY <1>3, <1>4, <1>10 DEF r
  <2>2. Sole(f)
    BY <1>10, <1>11, <2>1
  <2> QED BY <1>2, <1>10, <2>1, <2>2 DEF SInv, BlockingAnswersSettled, Sole
<1> QED BY <1>2, <1>8, <1>9, <1>10 DEF SInv, BlockingAnswersSettled, Sole, TaskOf

\* A cancel is no shutdown, and takes nothing from the bus.
LEMMA CancelSettles ==
  ASSUME IInv, SInv, NEW c \in Cancels, CancelRequest(c)
  PROVE  SInv'
<1> DEFINE e == registry[cancel[c].task]
<1>1. server' = server /\ tasks' = tasks
  BY DEF CancelRequest
<1>2. CASE e = None
  <2>1. exec' = exec
    BY <1>2 DEF CancelRequest
  <2> QED BY <1>1, <2>1, TasksSettle
<1>3. CASE e # None
  <2>1. cancel[c].pc = "requesting" /\ cancel[c].task \in Tasks
    BY DEF CancelRequest, IInv, RequestsOk
  <2>2. e \in Sends
    BY <1>3, <2>1 DEF IInv, TypeOK
  <2>3. exec' = [exec EXCEPT ![e] = Aborted(exec[e], "cancel")]
    BY <1>3, <2>2, ExecTyped DEF CancelRequest
  <2> HIDE DEF e
  <2> DEFINE x == exec[e]
             r == Aborted(x, "cancel")
  <2>4. x \in Execution
    BY <2>2, ExecTyped
  <2>5. /\ r.bus = x.bus /\ r.final = x.final /\ r.promoted = x.promoted
        /\ r.paused = x.paused /\ r.pc = x.pc /\ r.task = x.task /\ r.mode = x.mode
        /\ r.reader = x.reader /\ r.answer = x.answer
        /\ r.aborted = x.aborted \/ (x.aborted = "no" /\ r.aborted = "cancel")
    BY <2>4, AbortedIs
  <2>6. SettleOk(e) /\ BlockingAnswersSettled
    BY <2>2 DEF SInv
  <2>7. x.pc # "idle"
    <3>1. Live(e)
      BY <1>3, <2>1 DEF IInv, RegistryOk, e
    <3> QED BY <3>1 DEF Live
  <2> HIDE DEF r
  <2>8. AnswerOk(r) /\ (server = "up" => r.aborted # "shutdown")
    BY <2>5, <2>6 DEF SettleOk, AnswerOk
  <2>9. server = "up" /\ Own(e) /\ (r.final \/ r.paused) => Rests(r, tasks'[e])
    BY <1>1, <2>5, <2>6 DEF SettleOk, Rests
  <2>10. r.mode # "non_blocking" /\ r.reader = "answered" /\ Sole(e) /\ server = "up"
           => r.answer \notin Active
    BY <2>2, <2>5, <2>6 DEF BlockingAnswersSettled, Sole
  <2>11. exec' = [exec EXCEPT ![e] = r] /\ r.task = exec[e].task /\ r.pc # "idle"
         /\ (tasks'[e] # None => r.task = e)
    BY <1>1, <2>3, <2>5, <2>6, <2>7 DEF SettleOk, r
  <2> QED BY <1>1, <2>2, <2>8, <2>9, <2>10, <2>11, SettleStep
<1> QED BY <1>2, <1>3

\* A queued reply leaves the state of its task; a cancel that commits itself
\* leaves it canceled.
LEMMA AppendSettles ==
  ASSUME IInv, SInv,
         \/ \E c \in Cancels : CancelQuiescent(c)
         \/ \E q \in Replies, t \in Tasks : DeliverQueuedReply(q, t)
  PROVE  SInv'
<1>1. CASE \E c \in Cancels : CancelQuiescent(c)
  <2>1. PICK c \in Cancels : CancelQuiescent(c)
    BY <1>1
  <2> DEFINE t == cancel[c].task
             v == Status(c, "canceled")
             task == Committed(tasks[t], v)
  <2>2. t \in Tasks /\ tasks[t] # None /\ exec' = exec /\ server' = server
    BY <2>1 DEF CancelQuiescent, IInv, RequestsOk
  <2>3. tasks' = [tasks EXCEPT ![t] = task]
    BY <2>1 DEF CancelQuiescent, IInv, TypeOK
  <2>4. v \in Event /\ v.kind = "status-update" /\ v.state = "canceled"
    BY StatusEvent DEF Authors, States, Terminal, Status
  <2>5. tasks[t] \in CommittedTask
    BY <2>2 DEF IInv, TypeOK
  <2> HIDE DEF v
  <2>6. task \in CommittedTask /\ task.state = "canceled"
    BY <2>2, <2>4, <2>5, CommittedIs
  <2> HIDE DEF t, task
  <2>7. \A u \in Tasks : \/ tasks'[u] = tasks[u]
                        \/ /\ tasks[u] # None /\ tasks'[u] # None
                           /\ tasks'[u].state \in {tasks[u].state, "canceled"}
    BY <2>2, <2>3, <2>6, RequestAssumption DEF IInv, TypeOK
  <2> QED BY <2>2, <2>7, TasksSettle
<1>2. CASE \E q \in Replies, t \in Tasks : DeliverQueuedReply(q, t)
  <2>1. PICK q \in Replies, t \in Tasks : DeliverQueuedReply(q, t)
    BY <1>2
  <2> DEFINE v == Artifact(q, <<"reply", q>>)
             task == Committed(tasks[t], v)
  <2>2. tasks[t] # None /\ exec' = exec /\ server' = server
    BY <2>1 DEF DeliverQueuedReply
  <2>3. tasks' = [tasks EXCEPT ![t] = task]
    BY <2>1 DEF DeliverQueuedReply, IInv, TypeOK
  <2>4. v \in Event /\ v.kind = "artifact-update"
    <3>1. <<"reply", q>> \in ArtifactIds
      BY DEF ArtifactIds
    <3> QED BY <3>1, ArtifactEvent
  <2>5. tasks[t] \in CommittedTask
    BY <2>2 DEF IInv, TypeOK
  <2> HIDE DEF v
  <2>6. task \in CommittedTask /\ task.state = tasks[t].state
    BY <2>2, <2>4, <2>5, CommittedIs
  <2> HIDE DEF task
  <2>7. \A u \in Tasks : \/ tasks'[u] = tasks[u]
                        \/ /\ tasks[u] # None /\ tasks'[u] # None
                           /\ tasks'[u].state \in {tasks[u].state, "canceled"}
    BY <2>2, <2>3, <2>6, RequestAssumption DEF IInv, TypeOK
  <2> QED BY <2>2, <2>7, TasksSettle
<1> QED BY <1>1, <1>2

\* Behind a close or a crash only what needs no server is left to show.
LEMMA EndsSettle ==
  ASSUME IInv, SInv, Close \/ Crash
  PROVE  SInv'
<1>1. server' # "up" /\ tasks' = tasks
  BY DEF Close, Crash
<1>2. ASSUME NEW e \in Sends PROVE SettleOk(e)'
  <2> DEFINE x == exec[e]
             r == exec'[e]
  <2>1. x \in Execution /\ SettleOk(e)
    BY ExecTyped DEF SInv
  <2>2. AnswerOk(r) /\ r.task = x.task /\ r.answer = x.answer /\ (r.pc = "idle" => x.pc = "idle")
    <3>1. CASE r = x
      BY <2>1, <3>1 DEF SettleOk
    <3>2. CASE r = Aborted(x, "shutdown")
      <4>1. /\ r.bus = x.bus /\ r.final = x.final /\ r.promoted = x.promoted
            /\ r.paused = x.paused /\ r.pc = x.pc /\ r.task = x.task /\ r.mode = x.mode
            /\ r.reader = x.reader /\ r.answer = x.answer
            /\ r.aborted = x.aborted \/ (x.aborted = "no" /\ r.aborted = "shutdown")
        BY <2>1, <3>2, AbortedIs
      <4> HIDE DEF r
      <4> QED BY <2>1, <4>1 DEF SettleOk, AnswerOk
    <3>3. CASE r = [x EXCEPT !.pc = "lost", !.reader = "lost", !.bus = <<>>]
      <4>1. /\ r.bus = <<>> /\ r.pc = "lost" /\ r.reader = "lost" /\ r.task = x.task
            /\ r.answer = x.answer
        BY <2>1, <3>3 DEF Execution
      <4> HIDE DEF r
      <4> QED BY <4>1 DEF AnswerOk
    <3> QED BY <3>1, <3>2, <3>3 DEF Close, Crash
  <2> HIDE DEF r
  <2> QED BY <1>1, <2>1, <2>2 DEF SettleOk, r
<1> QED BY <1>1, <1>2 DEF SInv, BlockingAnswersSettled

\* A send that is not told to return at once, and has its task for itself, never
\* answers with a task that is submitted or working.
THEOREM BlockingCorrect == Spec => []BlockingAnswersSettled
<1>1. Init => SInv
  <2> SUFFICES ASSUME Init PROVE SInv
    OBVIOUS
  <2>1. \A e \in Sends : exec[e] = Idle(e) /\ tasks[e] = None
    BY DEF Init, Tasks
  <2>2. ASSUME NEW e \in Sends
        PROVE  LET x == exec[e] IN
               /\ x.pc = "idle" /\ x.task = e /\ x.answer = None /\ x.bus = <<>>
               /\ x.reader = "none" /\ x.aborted = "no" /\ ~x.final /\ ~x.paused
    <3>1. LET x == Idle(e) IN
          /\ x.pc = "idle" /\ x.task = e /\ x.answer = None /\ x.bus = <<>>
          /\ x.reader = "none" /\ x.aborted = "no" /\ ~x.final /\ ~x.paused
      BY DEF Idle
    <3> QED BY <2>1, <3>1
  <2>3. \A e \in Sends : SettleOk(e)
    BY <2>1, <2>2 DEF SettleOk, AnswerOk
  <2> QED BY <2>2, <2>3 DEF SInv, BlockingAnswersSettled
<1>2. IInv /\ SInv /\ [Next]_vars => SInv'
  <2> SUFFICES ASSUME IInv, SInv, [Next]_vars PROVE SInv'
    OBVIOUS
  <2>1. ASSUME NEW e \in Sends,
               \/ \E mode \in Modes, t \in Targets[e] : Send(e, mode, t)
               \/ HandleSend(e) \/ AgentEvent(e) \/ DispatchEnds(e)
        PROVE  SInv'
    BY <2>1, SendSettles, RequestSettles, CommitSettles, AnswerSettles, CoordinatorMoves,
       CoordinatorSettles DEF HandleSend
  <2>2. ASSUME tasks' = tasks, exec' = exec, server' = server PROVE SInv'
    BY <2>2, TasksSettle
  <2>3. ASSUME NEW c \in Cancels, (\E t \in Tasks : RequestCancel(c, t)) \/ HandleCancel(c)
        PROVE  SInv'
    <3>1. CASE CancelRequest(c) \/ CancelQuiescent(c)
      BY <3>1, CancelSettles, AppendSettles
    <3>2. CASE ~(CancelRequest(c) \/ CancelQuiescent(c))
      BY <2>2, <2>3, <3>2 DEF RequestCancel, HandleCancel, CancelLoad, CancelReload,
        CancelSubscribe, CancelTailEnds, CancelSettle, CancelCleanup, CancelRead
    <3> QED BY <3>1, <3>2
  <2>4. ASSUME NEW w \in Watchers,
               (\E t \in Tasks : Resubscribe(w, t)) \/ HandleResubscribe(w)
        PROVE  SInv'
    BY <2>2, <2>4 DEF Resubscribe, HandleResubscribe, PrepareResubscribe, WatcherTailEnds
  <2>5. CASE UNCHANGED vars
    BY <2>2, <2>5 DEF vars
  <2> QED BY <2>1, <2>3, <2>4, <2>5, AppendSettles, EndsSettle DEF Next
<1>3. SInv => BlockingAnswersSettled
  BY DEF SInv
<1> QED BY <1>1, <1>2, <1>3, InvariantHolds, PTL DEF Spec
=============================================================================
