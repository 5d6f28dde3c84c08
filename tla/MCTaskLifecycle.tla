--------------------------- MODULE MCTaskLifecycle ---------------------------
(***************************************************************************)
(* Small instances of TaskLifecycle for TLC.                               *)
(***************************************************************************)
EXTENDS TaskLifecycle

\* Every message has an id of its own.
OwnMessage == [e \in Sends |-> e]

CONSTANTS s1, s2

\* The first send creates a task and the others follow up on it.
FollowUps == [e \in Sends |-> {s1}]
NewTasks == [e \in Sends |-> {e}]
=============================================================================
