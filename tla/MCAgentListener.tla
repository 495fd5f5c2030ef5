--------------------------- MODULE MCAgentListener ---------------------------
(***************************************************************************)
(* Every command line, with a record of one skill.                         *)
(***************************************************************************)
EXTENDS AgentListener

=============================================================================
