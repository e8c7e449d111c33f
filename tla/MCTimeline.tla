----------------------------- MODULE MCTimeline -----------------------------
(***************************************************************************)
(* A small instance of Timeline: a Bash command, a forked skill and an     *)
(* Agent, with a tool of their own each.                                   *)
(***************************************************************************)
EXTENDS Timeline

CONSTANTS bash, skill, agent, inAgent, inSkill

MCAgentOf == [t \in {inAgent, inSkill} |-> IF t = inAgent THEN agent ELSE skill]
MCKind == [t \in {bash, skill, inAgent, inSkill} |->
             CASE t = bash -> "Bash" [] t = inSkill -> "Read" [] t = skill -> "Skill"
               [] OTHER -> "Other"]
=============================================================================
