------------------------------ MODULE MCAgents ------------------------------
(* Small instances of Agents.                                              *)
EXTENDS Agents
=============================================================================
