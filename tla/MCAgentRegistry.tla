-------------------------- MODULE MCAgentRegistry --------------------------
(***************************************************************************)
(* Small instances of AgentRegistry for TLC.                               *)
(***************************************************************************)
EXTENDS AgentRegistry, TLC

Symmetry == Permutations(AgentId) \cup Permutations(Subject)
=============================================================================
