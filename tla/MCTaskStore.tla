----------------------------- MODULE MCTaskStore -----------------------------
(***************************************************************************)
(* Small instances of TaskStore for TLC, and its refinement mapping.       *)
(***************************************************************************)
EXTENDS TaskStoreRefinement

CONSTANTS m1, m2, a1, p1, b1

NoArtifacts == [a \in ArtifactIds |-> None]

MCSnapshots ==
  {[state |-> "submitted", history |-> <<>>, artifacts |-> NoArtifacts]}

Working == [kind |-> "status-update", id |-> 0, state |-> "working", message |-> None]
Completed == [kind |-> "status-update", id |-> 0, state |-> "completed", message |-> m2]
Output == [kind |-> "artifact-update", id |-> 0, artifactId |-> a1,
           parts |-> <<p1>>, append |-> TRUE]

MCStored ==
  {[task |-> [state |-> "working", history |-> <<>>, artifacts |-> NoArtifacts],
    binding |-> b1, currentSequence |-> 0, journal |-> <<>>]}

CompletedOnly == {Completed}
OutputAndCompleted == {Output, Completed}
=============================================================================
