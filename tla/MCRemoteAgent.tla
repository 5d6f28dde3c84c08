---------------------------- MODULE MCRemoteAgent ----------------------------
(***************************************************************************)
(* Small instances of RemoteAgent for TLC.                                 *)
(***************************************************************************)
EXTENDS RemoteAgent, TLC

CONSTANTS c1, c2, c3

\* One peer with the default card path and one behind the same base URL.
MCDefaultTarget == [base |-> "b", cardPath |-> "default"]
MCTargets == {MCDefaultTarget, [base |-> "b", cardPath |-> "own"]}
\* The actions are shared out so that every kind meets every other.
MCActionsOf ==
  c1 :> {"stream", "watch", "list_targets"}
    @@ c2 :> {"send", "strict_stream", "list_targets"}
    @@ c3 :> {"status"}

\* The tasks are interchangeable, and the contexts: no definition tells them
\* apart.
MCSymmetry == Permutations(Tasks) \union Permutations(Contexts)
=============================================================================
