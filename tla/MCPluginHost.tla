---------------------------- MODULE MCPluginHost ----------------------------
(***************************************************************************)
(* Small instances of PluginHost for TLC.                                  *)
(***************************************************************************)
EXTENDS PluginHost

CONSTANTS p1, p2, a1, a2, b1

\* a1 and a2 are starts in p1, b1 is one in p2.
MCProcessOf == [s \in Stores |-> IF s = b1 THEN p2 ELSE p1]
=============================================================================
