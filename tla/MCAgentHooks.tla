---------------------------- MODULE MCAgentHooks ----------------------------
(* Instances of AgentHooks for TLC.                                        *)
EXTENDS AgentHooks, TLC

Symmetry == Permutations(Agents) \cup Permutations(Sessions) \cup Permutations(Hooks)
=============================================================================
