-------------------------- MODULE MCClaudeProcess --------------------------
(* Instances of ClaudeProcess for TLC.                                     *)
EXTENDS ClaudeProcess, TLC
=============================================================================
