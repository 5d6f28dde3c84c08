------------------------- MODULE TaskStoreRefinement -------------------------
(***************************************************************************)
(* TaskStore implements CommittedLog: the record written last is the       *)
(* committed state, and a tail is the events its consumer has received.    *)
(***************************************************************************)
EXTENDS TaskStore

CommittedView ==
  [t \in Tasks |->
     IF Forgotten \/ records[t] = None
       THEN None
       ELSE [task |-> records[t].task, binding |-> records[t].binding,
             log |-> EventsOf(records[t])]]

TailsView ==
  IF Forgotten
    THEN <<>>
    ELSE [s \in DOMAIN subs |-> [task |-> subs[s].task, base |-> subs[s].base,
                                 received |-> subs[s].received]]

Committed == INSTANCE CommittedLog
  WITH committed <- CommittedView, tails <- TailsView

\* "undefined" is no committed state.
ASSUME ViewAssumption == None \notin Committed!CommittedState

\* Every store operation takes effect on the committed log in one step, the
\* rename of its record, and consumers receive the log in order: the queue,
\* the awaits, failed writes and crashes in between do not show.
ImplementsCommittedLog == Committed!Spec
=============================================================================
