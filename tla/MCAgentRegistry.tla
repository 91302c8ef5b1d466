-------------------------- MODULE MCAgentRegistry --------------------------
(* Three agents and two tokens, one of them with id 0.                      *)
EXTENDS AgentRegistry, TLC

CONSTANTS agent1, agent2, agent3

MCSymmetry == Permutations(Agents)
=============================================================================
