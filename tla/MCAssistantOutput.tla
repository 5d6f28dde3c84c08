-------------------------- MODULE MCAssistantOutput --------------------------
(***************************************************************************)
(* A small instance of AssistantOutput for TLC.                            *)
(***************************************************************************)
EXTENDS AssistantOutput, TLC

CONSTANTS x, y

MCChars == {x, y, Space}

\* Text that goes on from another one, text that does not, and white space.
MCStreamed == {<<x>>, <<x, y>>, <<Space>>}
MCReplies == {<<x, y>>, <<y>>}
=============================================================================
